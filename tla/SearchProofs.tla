---------------------------- MODULE SearchProofs ----------------------------
(***************************************************************************)
(* What the breadth-first searches find, on every graph: traverse_bfs      *)
(* everything within its depth and nothing else, unless its limit stopped  *)
(* it; find_path a path that no other one is shorter than, if there is     *)
(* one.  And what the depth-first walks find when their depth does not     *)
(* bind, or is small.                                                      *)
(***************************************************************************)
EXTENDS TraversalProofs, FunctionTheorems

-----------------------------------------------------------------------------
(* The layers around the start node. *)

\* One step more.
Beyond(q, S) == S \cup {e.target : e \in {s \in Steps(q) : s.source \in S}}

Reaching(q, k, g) ==
    g = [i \in 0 .. k |-> IF i = 0 THEN {q.start} ELSE Beyond(q, g[i - 1])]

LEMMA ReachingExists ==
    ASSUME NEW q
    PROVE  \A k \in Nat : \E g : Reaching(q, k, g)
<1> DEFINE K == {k \in Nat : \E g : Reaching(q, k, g)}
<1>1. 0 \in K
  <2>1. Reaching(q, 0, [i \in 0 .. 0 |-> {q.start}])
    BY DEF Reaching
  <2> QED
    BY <2>1
<1>2. ASSUME NEW k \in Nat, k \in K PROVE k + 1 \in K
  <2>1. PICK g : Reaching(q, k, g)
    BY <1>2
  <2> DEFINE h == [i \in 0 .. k + 1 |-> IF i = k + 1 THEN Beyond(q, g[k]) ELSE g[i]]
  <2>2. \A i \in 0 .. k : g[i] = IF i = 0 THEN {q.start} ELSE Beyond(q, g[i - 1])
    BY <2>1 DEF Reaching
  <2>3. ASSUME NEW i \in 0 .. k + 1
        PROVE  h[i] = IF i = 0 THEN {q.start} ELSE Beyond(q, h[i - 1])
    <3>1. CASE i = k + 1
      <4>1. k \in 0 .. k + 1 /\ k # k + 1 /\ i # 0 /\ i - 1 = k
        BY <3>1
      <4> QED
        BY <3>1, <4>1
    <3>2. CASE i # k + 1
      <4>1. i \in 0 .. k /\ (i # 0 => i - 1 \in 0 .. k + 1 /\ i - 1 # k + 1)
        BY <3>2
      <4> QED
        BY <2>2, <3>2, <4>1
    <3> QED
      BY <3>1, <3>2
  <2>4. h = [i \in 0 .. k + 1 |-> h[i]]
    OBVIOUS
  <2> HIDE DEF h
  <2>5. Reaching(q, k + 1, h)
    BY <2>3, <2>4 DEF Reaching
  <2> QED
    BY <2>5
<1> HIDE DEF K
<1>3. \A k \in Nat : k \in K
  BY <1>1, <1>2, SetInduction
<1> QED
  BY <1>3 DEF K

LEMMA ReachingUnique ==
    ASSUME NEW q, NEW j \in Nat, NEW k \in Nat, j <= k,
           NEW g, Reaching(q, j, g), NEW h, Reaching(q, k, h)
    PROVE  \A i \in 0 .. j : g[i] = h[i]
<1> DEFINE K == {i \in Nat : i <= j => g[i] = h[i]}
<1>1. /\ \A i \in 0 .. j : g[i] = IF i = 0 THEN {q.start} ELSE Beyond(q, g[i - 1])
      /\ \A i \in 0 .. k : h[i] = IF i = 0 THEN {q.start} ELSE Beyond(q, h[i - 1])
  BY DEF Reaching
<1>2. 0 \in K
  BY <1>1
<1>3. ASSUME NEW i \in Nat, i \in K PROVE i + 1 \in K
  <2> SUFFICES ASSUME i + 1 <= j PROVE g[i + 1] = h[i + 1]
    OBVIOUS
  <2>1. i + 1 \in 0 .. j /\ i + 1 \in 0 .. k /\ i + 1 # 0 /\ (i + 1) - 1 = i /\ i <= j
    OBVIOUS
  <2> QED
    BY <1>1, <1>3, <2>1
<1> HIDE DEF K
<1>4. \A i \in Nat : i \in K
  BY <1>2, <1>3, SetInduction
<1> QED
  BY <1>4 DEF K

\* The recursive function, unfolded.
LEMMA ReachableUnfolds ==
    ASSUME NEW q
    PROVE  /\ Reachable(q, 0) = {q.start}
           /\ \A k \in Nat : Reachable(q, k + 1) = Beyond(q, Reachable(q, k))
<1> DEFINE ball(k) == CHOOSE g : Reaching(q, k, g)
<1>1. ASSUME NEW k \in Nat
      PROVE  Reaching(q, k, ball(k)) /\ Reachable(q, k) = ball(k)[k]
  <2>1. Reaching(q, k, ball(k))
    BY ReachingExists
  <2>2. Reachable(q, k) = ball(k)[k]
    BY DEF Reachable, Reaching, Beyond
  <2> QED
    BY <2>1, <2>2
<1> HIDE DEF ball
<1>2. ASSUME NEW k \in Nat, NEW i \in 0 .. k
      PROVE  ball(k)[i] = IF i = 0 THEN {q.start} ELSE Beyond(q, ball(k)[i - 1])
  BY <1>1, <1>2 DEF Reaching
<1>3. Reachable(q, 0) = {q.start}
  BY <1>1, <1>2
<1>4. ASSUME NEW k \in Nat
      PROVE  Reachable(q, k + 1) = Beyond(q, Reachable(q, k))
  <2>1. k + 1 \in 0 .. k + 1 /\ k + 1 # 0 /\ (k + 1) - 1 = k /\ k + 1 \in Nat /\ k <= k + 1 /\ k \in 0 .. k
    OBVIOUS
  <2>2. ball(k + 1)[k + 1] = Beyond(q, ball(k + 1)[k])
    BY <1>2, <2>1
  <2>3. ball(k)[k] = ball(k + 1)[k]
    BY <1>1, <2>1, ReachingUnique
  <2> QED
    BY <1>1, <2>1, <2>2, <2>3
<1> QED
  BY <1>3, <1>4

\* The nodes within k steps, and those one step from a node.
Layer(q, k) == IF q.op = "path" THEN Reachable(q, k) ELSE Within("dfs", q, k)

Neighbours(q, n) ==
    IF q.op = "path"
    THEN {e.target : e \in {s \in Steps(q) : s.source = n}}
    ELSE {Other(e, n) : e \in Hops("dfs", q, n)} \cap Accepted(q)

LEMMA LayersGrow ==
    ASSUME graph \in Graphs, NEW q \in Query, q.op \in {"bfs", "path"}
    PROVE  /\ Layer(q, 0) = {q.start}
           /\ \A k \in Nat : Layer(q, k + 1) = Layer(q, k) \cup UNION {Neighbours(q, n) : n \in Layer(q, k)}
<1>1. CASE q.op = "path"
  <2>1. /\ Layer(q, 0) = {q.start}
        /\ \A k \in Nat : Layer(q, k + 1) = Beyond(q, Layer(q, k))
    BY <1>1, ReachableUnfolds DEF Layer
  <2>2. \A S : Beyond(q, S) = S \cup UNION {Neighbours(q, n) : n \in S}
    BY <1>1 DEF Beyond, Neighbours
  <2> QED
    BY <2>1, <2>2
<1>2. CASE q.op = "bfs"
  <2>1. /\ Layer(q, 0) = {q.start}
        /\ \A k \in Nat : Layer(q, k + 1) = Hopped("dfs", q, Layer(q, k))
    BY <1>2, WithinUnfolds DEF Layer
  <2>2. \A k \in Nat : Layer(q, k) \in SUBSET Id
    BY <1>2, WithinGrows DEF Layer
  <2>3. ASSUME NEW S \in SUBSET Id PROVE Spread("dfs", S) = S
    <3>1. \A T : Opened("dfs", T) = T
      BY DEF Opened, Children
    <3> DEFINE N == Cardinality(Id)
               g == CHOOSE f : Opening("dfs", S, N, f)
    <3>2. N \in Nat
      BY WalkAssumption, FS_CardinalityType
    <3>3. Opening("dfs", S, N, g)
      BY <3>2, OpeningExists
    <3>4. Spread("dfs", S) = g[N]
      BY DEF Spread, Opening, Opened
    <3> HIDE DEF g, N
    <3>5. \A i \in 0 .. N : g[i] = IF i = 0 THEN S ELSE g[i - 1]
      BY <3>1, <3>3 DEF Opening
    <3> DEFINE K == {i \in Nat : i <= N => g[i] = S}
    <3>6. 0 \in K
      BY <3>2, <3>5
    <3>7. ASSUME NEW i \in Nat, i \in K PROVE i + 1 \in K
      <4> SUFFICES ASSUME i + 1 <= N PROVE g[i + 1] = S
        OBVIOUS
      <4>1. i + 1 \in 0 .. N /\ i + 1 # 0 /\ (i + 1) - 1 = i /\ i <= N
        BY <3>2
      <4> QED
        BY <3>5, <3>7, <4>1
    <3> HIDE DEF K
    <3>8. N \in K
      BY <3>2, <3>6, <3>7, SetInduction
    <3> QED
      BY <3>2, <3>4, <3>8 DEF K
  <2>4. \A S \in SUBSET Id : Hopped("dfs", q, S) = S \cup UNION {Neighbours(q, n) : n \in S}
    <3>1. \A S : Around("dfs", q, S) = UNION {Neighbours(q, n) : n \in S}
      BY <1>2 DEF Around, Neighbours
    <3> QED
      BY <2>3, <3>1 DEF Hopped
  <2> QED
    BY <2>1, <2>2, <2>4
<1> QED
  BY <1>1, <1>2

-----------------------------------------------------------------------------
(* The queue. *)

\* The entries come in the order of their distances, which differ by at most
\* one.
Ordered(s) ==
    \A i, j \in DOMAIN s : i <= j => /\ Len(s[i].path) <= Len(s[j].path)
                                     /\ Len(s[j].path) <= Len(s[i].path) + 1

\* Taking the head off, and adding entries one step further at the end.
LEMMA OrderedTail ==
    ASSUME NEW s \in Seq(EntryType), s # <<>>, Ordered(s)
    PROVE  /\ Ordered(Tail(s)) /\ Tail(s) \in Seq(EntryType)
           /\ \A x \in Elements(s) : x = Head(s) \/ x \in Elements(Tail(s))
           /\ Elements(Tail(s)) \subseteq Elements(s)
           /\ \A x \in Elements(s) : /\ Len(x.path) \in Nat
                                     /\ Len(Head(s).path) <= Len(x.path)
                                     /\ Len(x.path) <= Len(Head(s).path) + 1
<1>1. /\ Tail(s) \in Seq(EntryType) /\ Len(Tail(s)) = Len(s) - 1 /\ Head(s) = s[1]
      /\ \A i \in 1 .. Len(Tail(s)) : Tail(s)[i] = s[i + 1]
  BY HeadTailProperties
<1>2. /\ Len(s) \in Nat \ {0} /\ DOMAIN s = 1 .. Len(s)
      /\ DOMAIN Tail(s) = 1 .. Len(Tail(s))
  BY <1>1, LenProperties, EmptySeq
<1>3. \A i \in DOMAIN Tail(s) : i \in Nat /\ i + 1 \in DOMAIN s /\ Tail(s)[i] = s[i + 1]
  BY <1>1, <1>2
<1>4. Ordered(Tail(s))
  <2> SUFFICES ASSUME NEW i \in DOMAIN Tail(s), NEW j \in DOMAIN Tail(s), i <= j
               PROVE  /\ Len(Tail(s)[i].path) <= Len(Tail(s)[j].path)
                      /\ Len(Tail(s)[j].path) <= Len(Tail(s)[i].path) + 1
    BY DEF Ordered
  <2>1. i + 1 \in DOMAIN s /\ j + 1 \in DOMAIN s /\ i + 1 <= j + 1
    BY <1>3
  <2> QED
    BY <1>3, <2>1 DEF Ordered
<1>5. \A k \in DOMAIN s : k = 1 \/ (k - 1 \in DOMAIN Tail(s) /\ Tail(s)[k - 1] = s[k])
  BY <1>1, <1>2
<1>6. \A x \in Elements(s) : x = Head(s) \/ x \in Elements(Tail(s))
  BY <1>1, <1>5 DEF Elements
<1>7. \A x \in Elements(s) : /\ Len(x.path) \in Nat
                             /\ Len(Head(s).path) <= Len(x.path)
                             /\ Len(x.path) <= Len(Head(s).path) + 1
  <2> SUFFICES ASSUME NEW k \in DOMAIN s
               PROVE  /\ Len(s[k].path) \in Nat
                      /\ Len(s[1].path) <= Len(s[k].path)
                      /\ Len(s[k].path) <= Len(s[1].path) + 1
    BY <1>1 DEF Elements
  <2>1. s[k] \in EntryType
    BY <1>2, ElementOfSeq
  <2>2. 1 \in DOMAIN s /\ 1 <= k
    BY <1>2
  <2> QED
    BY <2>1, <2>2, LenProperties DEF Ordered, EntryType
<1> QED
  BY <1>1, <1>4, <1>6, <1>7, <1>3 DEF Elements

LEMMA OrderedMore ==
    ASSUME NEW s \in Seq(EntryType), s # <<>>, Ordered(s), NEW new \in Seq(EntryType),
           \A x \in Elements(new) : Len(x.path) = Len(Head(s).path) + 1
    PROVE  /\ Ordered(Tail(s) \o new)
           /\ Elements(Tail(s) \o new) = Elements(Tail(s)) \cup Elements(new)
<1> DEFINE t == Tail(s)
           u == t \o new
           L == Len(Head(s).path)
<1>1. /\ t \in Seq(EntryType) /\ Ordered(t) /\ L \in Nat
      /\ \A x \in Elements(t) : /\ Len(x.path) \in Nat
                                /\ L <= Len(x.path) /\ Len(x.path) <= L + 1
  <2>1. Head(s) \in Elements(s)
    BY Dequeued
  <2> QED
    BY <2>1, OrderedTail
<1> HIDE DEF t, L
<1>2. /\ Len(u) = Len(t) + Len(new)
      /\ \A i \in 1 .. Len(t) + Len(new) : u[i] = IF i <= Len(t) THEN t[i] ELSE new[i - Len(t)]
      /\ u \in Seq(EntryType)
  BY <1>1, ConcatProperties
<1>3. /\ Len(t) \in Nat /\ Len(new) \in Nat
      /\ DOMAIN t = 1 .. Len(t) /\ DOMAIN new = 1 .. Len(new)
      /\ DOMAIN u = 1 .. Len(t) + Len(new)
  BY <1>1, <1>2, LenProperties
<1> HIDE DEF u
<1>4. \A i \in DOMAIN u : \/ i \in DOMAIN t /\ u[i] = t[i]
                          \/ i > Len(t) /\ i - Len(t) \in DOMAIN new /\ u[i] = new[i - Len(t)]
  <2> SUFFICES ASSUME NEW i \in DOMAIN u
               PROVE  \/ i \in DOMAIN t /\ u[i] = t[i]
                      \/ i > Len(t) /\ i - Len(t) \in DOMAIN new /\ u[i] = new[i - Len(t)]
    OBVIOUS
  <2>1. CASE i <= Len(t)
    BY <1>2, <1>3, <2>1
  <2>2. CASE ~(i <= Len(t))
    BY <1>2, <1>3, <2>2
  <2> QED
    BY <2>1, <2>2
<1>5. \A i \in DOMAIN u : \/ i \in DOMAIN t /\ u[i] = t[i] /\ t[i] \in Elements(t)
                          \/ i > Len(t) /\ Len(u[i].path) = L + 1 /\ u[i] \in Elements(new)
  BY <1>4 DEF Elements, L
<1>6. Ordered(u)
  <2> SUFFICES ASSUME NEW i \in DOMAIN u, NEW j \in DOMAIN u, i <= j
               PROVE  /\ Len(u[i].path) <= Len(u[j].path)
                      /\ Len(u[j].path) <= Len(u[i].path) + 1
    BY DEF Ordered
  <2>1. CASE i \in DOMAIN t /\ u[i] = t[i] /\ t[i] \in Elements(t)
    <3>1. CASE j \in DOMAIN t /\ u[j] = t[j]
      BY <1>1, <2>1, <3>1 DEF Ordered
    <3>2. CASE Len(u[j].path) = L + 1
      BY <1>1, <2>1, <3>2
    <3> QED
      BY <1>5, <3>1, <3>2
  <2>2. CASE i > Len(t) /\ Len(u[i].path) = L + 1
    <3>1. j \notin DOMAIN t
      BY <1>3, <2>2
    <3> QED
      BY <1>1, <1>5, <2>2, <3>1
  <2> QED
    BY <1>5, <2>1, <2>2
<1>7. Elements(u) = Elements(t) \cup Elements(new)
  <2>1. Elements(u) \subseteq Elements(t) \cup Elements(new)
    BY <1>5 DEF Elements
  <2>2. \A i \in DOMAIN t : i \in DOMAIN u /\ u[i] = t[i]
    BY <1>2, <1>3
  <2>3. \A i \in DOMAIN new : i + Len(t) \in DOMAIN u /\ u[i + Len(t)] = new[i]
    <3> SUFFICES ASSUME NEW i \in DOMAIN new
                 PROVE  i + Len(t) \in DOMAIN u /\ u[i + Len(t)] = new[i]
      OBVIOUS
    <3>1. /\ i + Len(t) \in 1 .. Len(t) + Len(new) /\ ~(i + Len(t) <= Len(t))
          /\ (i + Len(t)) - Len(t) = i
      BY <1>3
    <3> QED
      BY <1>2, <1>3, <3>1
  <2>4. Elements(t) \cup Elements(new) \subseteq Elements(u)
    <3>1. \A i \in DOMAIN t : t[i] \in Elements(u)
      BY <2>2 DEF Elements
    <3>2. \A i \in DOMAIN new : new[i] \in Elements(u)
      BY <2>3 DEF Elements
    <3> QED
      BY <3>1, <3>2 DEF Elements
  <2> QED
    BY <2>1, <2>4
<1> QED
  BY <1>6, <1>7 DEF u, t

\* What a visit that goes on from n, reached along path, adds to the queue.
Expands(new, n, path) ==
    /\ queue' = Tail(queue) \o new
    /\ \A x \in Elements(new) : /\ Len(x.path) = Len(path) + 1
                                /\ \E e \in Leads(n) : x = Entry(Other(e, n), Append(path, e))
    /\ \A e \in Leads(n) : \E x \in Elements(new) : x.at = Other(e, n)
    /\ found' = IF query.op = "bfs" THEN found \cup {Other(e, n) : e \in Leads(n)} ELSE found

LEMMA VisitQueue ==
    ASSUME WalkType, Visit
    PROVE  /\ Head(queue).at \in Id /\ Head(queue).path \in Seq(Edge) /\ Len(Head(queue).path) \in Nat
           /\ \A e \in Leads(Head(queue).at) : e \in Edge
           /\ \/ /\ query.op = "bfs" /\ ~(Len(Head(queue).path) < query.max_depth)
                 /\ queue' = Tail(queue) /\ found' = found
              \/ \E new \in Seq(EntryType) : Expands(new, Head(queue).at, Head(queue).path)
<1> DEFINE n == Head(queue).at
           path == Head(queue).path
           made(s) == [i \in DOMAIN s |-> Entry(Other(s[i], n), Append(path, s[i]))]
<1>1. query \in Query /\ query.op \in {"bfs", "path"} /\ queue \in Seq(EntryType) /\ queue # <<>>
  BY QueryType DEF Visit, Searching, Reached, WalkType
<1>2. Head(queue) \in EntryType
  BY <1>1, Dequeued
<1>3. n \in Id /\ path \in Seq(Edge) /\ Len(path) \in Nat /\ query.max_depth \in Nat
  BY <1>1, <1>2, LenProperties DEF EntryType, Query
<1>4. \A e \in Leads(n) : e \in Edge
  <2>1. query.direction \in {"outgoing", "incoming", "both"}
    BY <1>1 DEF Query
  <2> QED
    BY <2>1, <1>1, GraphType, Adjacent DEF Leads, Outgoing, WalkType
<1>5. \/ /\ query.op = "bfs" /\ ~(Len(path) < query.max_depth)
         /\ queue' = Tail(queue) /\ found' = found
      \/ /\ \E s \in Orders(n) : queue' = Tail(queue) \o made(s)
         /\ found' = IF query.op = "bfs" THEN found \cup {Other(e, n) : e \in Leads(n)} ELSE found
  <2>1. Len(path) >= query.max_depth => ~(Len(path) < query.max_depth)
    BY <1>3
  <2> QED
    BY <2>1 DEF Visit, Enqueue
<1> HIDE DEF n, path
<1>6. ASSUME NEW s \in Orders(n), queue' = Tail(queue) \o made(s),
             found' = IF query.op = "bfs" THEN found \cup {Other(e, n) : e \in Leads(n)} ELSE found
      PROVE  \E new \in Seq(EntryType) : Expands(new, n, path)
  <2>1. /\ s \in Seq(Edge) /\ \A i \in DOMAIN s : s[i] \in Leads(n) /\ n \in Ends(s[i])
    BY <1>1, <1>3, OrderTyped DEF WalkType
  <2>2. \A e \in Leads(n) : \E i \in DOMAIN s : s[i] = e
    <3>1. s \in SetToSeqs(Leads(n))
      BY DEF Orders, Sorted
    <3>2. IsFiniteSet(Leads(n)) /\ Cardinality(Leads(n)) \in Nat
      BY <1>4, EdgesFinite, FS_Subset, FS_CardinalityType
    <3> DEFINE D == 1 .. Cardinality(Leads(n))
    <3>3. s \in Injection(D, Leads(n))
      BY <3>1 DEF SetToSeqs, Injection, IsInjective
    <3>4. IsFiniteSet(D) /\ Cardinality(D) = Cardinality(Leads(n))
      BY <3>2, FS_Interval
    <3>5. s \in Surjection(D, Leads(n))
      BY <3>2, <3>3, <3>4, FS_Injection
    <3> QED
      BY <3>5, Fun_SurjectionProperties
  <2>3. /\ made(s) \in Seq(EntryType)
        /\ Elements(made(s)) = {Entry(Other(s[i], n), Append(path, s[i])) : i \in DOMAIN s}
    BY <1>3, <2>1, EntriesTyped
  <2>4. \A i \in DOMAIN s : s[i] \in Edge
    BY <2>1, LenProperties, ElementOfSeq
  <2>5. \A i \in DOMAIN s : Len(Append(path, s[i])) = Len(path) + 1
    BY <1>3, <2>4, Appended
  <2> HIDE DEF made
  <2>6. \A x \in Elements(made(s)) : /\ Len(x.path) = Len(path) + 1
                                     /\ \E e \in Leads(n) : x = Entry(Other(e, n), Append(path, e))
    BY <2>1, <2>3, <2>5 DEF Entry
  <2>7. ASSUME NEW e \in Leads(n) PROVE \E x \in Elements(made(s)) : x.at = Other(e, n)
    <3>1. PICK i \in DOMAIN s : s[i] = e
      BY <2>2
    <3>2. Entry(Other(s[i], n), Append(path, s[i])) \in Elements(made(s))
      BY <2>3
    <3> QED
      BY <3>1, <3>2 DEF Entry
  <2> QED
    BY <1>6, <2>3, <2>6, <2>7 DEF Expands
<1> QED
  BY <1>3, <1>4, <1>5, <1>6 DEF n, path

-----------------------------------------------------------------------------
(* The inductive invariant. *)

Found(q) == q.op \in {"bfs", "path"} /\ Known(q)

\* The nodes of the entries that took at most k steps.
Due(k) == {x.at : x \in {y \in Elements(queue) : Len(y.path) <= k}}

\* Whether the query goes on from what is k steps away.
GoesOn(q, k) == q.op = "path" \/ k < q.max_depth

(* What was visited has its neighbours visited or on the queue, no later   *)
(* than they are due.                                                      *)
Closing ==
    \A n \in visited, k \in Nat :
        n \in Layer(query, k) /\ GoesOn(query, k)
            => Neighbours(query, n) \subseteq visited \cup Due(k + 1)

LayersInv ==
    Found(query) =>
        /\ pc \in {"first", "done"} /\ Ordered(queue)
        /\ query.start \in visited \cup Due(0)
        /\ Closing

(* traverse_bfs collects a node when it puts it on the queue.              *)
CollectInv ==
    Found(query) /\ query.op = "bfs" =>
        /\ StartFound(query) \subseteq found
        /\ visited \cup {x.at : x \in Elements(queue)} \subseteq found \cup {query.start}
        /\ \A x \in Elements(queue) : Len(x.path) <= query.max_depth
        /\ pc = "done" => queue = <<>> \/ Cardinality(found) >= query.limit

(* The edges of an entry of find_path lead from the start to its node.     *)
Leading(q, path, n) ==
    /\ \A i \in DOMAIN path : /\ path[i] \in Steps(q)
                              /\ path[i].source = IF i = 1 THEN q.start ELSE path[i - 1].target
    /\ n = IF path = <<>> THEN q.start ELSE path[Len(path)].target

GoalInv ==
    Found(query) /\ query.op = "path" =>
        /\ query.to \notin visited
        /\ \A x \in Elements(queue) : Leading(query, x.path, x.at)
        /\ pc = "first" => found = {}
        /\ pc = "done" => \/ queue = <<>> /\ found = {}
                          \/ /\ queue # <<>> /\ query.start \in found
                             /\ Head(queue).at = query.to /\ via = Head(queue).path

BreadthInv == LayersInv /\ CollectInv /\ GoalInv

LEMMA SameLayers ==
    ASSUME graph' = graph
    PROVE  /\ \A q, k : Layer(q, k)' = Layer(q, k)
           /\ \A q, n : Neighbours(q, n)' = Neighbours(q, n)
           /\ \A q : Found(q)' <=> Found(q)
           /\ \A q, path, n : Leading(q, path, n)' <=> Leading(q, path, n)
<1>1. \A q : Steps(q)' = Steps(q)
  BY DEF Steps
<1>2. \A q, k : Layer(q, k)' = Layer(q, k)
  <2>1. \A q, k : Reachable(q, k)' = Reachable(q, k)
    BY DEF Reachable, Steps
  <2>2. \A rule, q, k : Within(rule, q, k)' = Within(rule, q, k)
    BY SameDistances
  <2> QED
    BY <2>1, <2>2 DEF Layer
<1>3. \A q, n : Neighbours(q, n)' = Neighbours(q, n)
  BY DEF Neighbours, Steps, Hops, AdjacentEdges, Outgoing, Incoming, Accepted
<1>4. \A q : Found(q)' <=> Found(q)
  BY DEF Found, Known
<1>5. \A q, path, n : Leading(q, path, n)' <=> Leading(q, path, n)
  BY <1>1 DEF Leading
<1> QED
  BY <1>2, <1>3, <1>4, <1>5

\* What is at most as far away as the queue has got was visited, or is due.
LEMMA Frontier ==
    ASSUME graph \in Graphs, query \in Query, query.op \in {"bfs", "path"},
           query.start \in visited \cup Due(0), Closing,
           NEW k \in Nat, k = 0 \/ GoesOn(query, k - 1),
           \A x \in Elements(queue) : Len(x.path) \in Nat /\ k <= Len(x.path)
    PROVE  /\ Layer(query, k) \subseteq visited \cup Due(k)
           /\ \A i \in 0 .. k : i # k => Layer(query, i) \subseteq visited
<1>1. \A i \in 0 .. k : i # k => Due(i) = {}
  BY DEF Due
<1>2. /\ Layer(query, 0) = {query.start}
      /\ \A i \in Nat : Layer(query, i + 1)
                          = Layer(query, i) \cup UNION {Neighbours(query, n) : n \in Layer(query, i)}
  BY LayersGrow
<1> DEFINE K == {i \in Nat : i <= k => Layer(query, i) \subseteq visited \cup Due(i)}
<1>3. 0 \in K
  BY <1>2
<1>4. ASSUME NEW i \in Nat, i \in K PROVE i + 1 \in K
  <2> SUFFICES ASSUME i + 1 <= k PROVE Layer(query, i + 1) \subseteq visited \cup Due(i + 1)
    OBVIOUS
  <2>1. i \in 0 .. k /\ i # k /\ i <= k
    OBVIOUS
  <2>2. Layer(query, i) \subseteq visited
    BY <1>1, <1>4, <2>1
  <2>3. GoesOn(query, i)
    <3>1. GoesOn(query, k - 1) /\ query.max_depth \in Nat
      BY <2>1 DEF Query
    <3> QED
      BY <3>1 DEF GoesOn
  <2>4. \A n \in Layer(query, i) : Neighbours(query, n) \subseteq visited \cup Due(i + 1)
    BY <2>2, <2>3 DEF Closing
  <2> QED
    BY <1>2, <2>2, <2>4
<1> HIDE DEF K
<1>5. \A i \in Nat : i \in K
  BY <1>3, <1>4, SetInduction
<1>6. \A i \in 0 .. k : Layer(query, i) \subseteq visited \cup Due(i)
  BY <1>5 DEF K
<1>7. k \in 0 .. k
  OBVIOUS
<1> QED
  BY <1>1, <1>6, <1>7

\* A visit follows an edge to every neighbour that it has not visited.
LEMMA LeadsOn ==
    ASSUME query.op \in {"bfs", "path"}, NEW n, NEW m \in Neighbours(query, n)
    PROVE  m \in visited \cup {n} \/ \E e \in Leads(n) : Other(e, n) = m
<1>1. CASE query.op = "path"
  <2>1. PICK e \in Steps(query) : e.source = n /\ e.target = m
    BY <1>1 DEF Neighbours
  <2>2. m \notin visited \cup {n} => e \in Leads(n) /\ Other(e, n) = m
    BY <1>1, <2>1 DEF Steps, Leads, Outgoing, Other
  <2> QED
    BY <2>2
<1>2. CASE query.op = "bfs"
  <2>1. PICK e \in Hops("dfs", query, n) : Other(e, n) = m /\ m \in Accepted(query)
    BY <1>2 DEF Neighbours
  <2>2. m \notin visited \cup {n} => e \in Leads(n)
    BY <1>2, <2>1 DEF Hops, Accepted, Leads
  <2> QED
    BY <2>1, <2>2
<1> QED
  BY <1>1, <1>2

LEMMA VisitLayers ==
    ASSUME WalkType, LayersInv, CollectInv, Visit, Found(query)
    PROVE  LayersInv'
<1> DEFINE n == Head(queue).at
           path == Head(queue).path
           L == Len(path)
<1>1. /\ query \in Query /\ query.op \in {"bfs", "path"} /\ queue \in Seq(EntryType) /\ queue # <<>>
      /\ graph \in Graphs /\ UNCHANGED <<graph, query, pc>>
      /\ Ordered(queue) /\ query.start \in visited \cup Due(0) /\ Closing
      /\ pc \in {"first", "done"}
      /\ visited' = visited \cup {n} /\ n \notin visited
  BY QueryType DEF WalkType, Visit, Searching, Reached, LayersInv
<1>2. /\ n \in Id /\ path \in Seq(Edge) /\ L \in Nat /\ query.max_depth \in Nat
      /\ Head(queue) \in Elements(queue)
  BY <1>1, VisitQueue, Dequeued DEF Query
<1>3. /\ Ordered(Tail(queue)) /\ Tail(queue) \in Seq(EntryType)
      /\ \A x \in Elements(queue) : x = Head(queue) \/ x \in Elements(Tail(queue))
      /\ Elements(Tail(queue)) \subseteq Elements(queue)
      /\ \A x \in Elements(queue) : Len(x.path) \in Nat /\ L <= Len(x.path) /\ Len(x.path) <= L + 1
  BY <1>1, OrderedTail
<1>4. \/ /\ query.op = "bfs" /\ ~(L < query.max_depth) /\ queue' = Tail(queue)
      \/ \E new \in Seq(EntryType) : Expands(new, n, path)
  BY VisitQueue
<1>5. L = 0 \/ GoesOn(query, L - 1)
  <2>1. query.op = "bfs" => L <= query.max_depth
    BY <1>1, <1>2 DEF CollectInv
  <2> HIDE DEF L
  <2> QED
    BY <1>1, <1>2, <2>1 DEF GoesOn
<1>6. \A k \in Nat : n \in Layer(query, k) => L <= k
  <2>1. \A k \in 0 .. L : k # L => Layer(query, k) \subseteq visited
    <3> HIDE DEF L
    <3>1. \A x \in Elements(queue) : Len(x.path) \in Nat /\ L <= Len(x.path)
      BY <1>3
    <3>2. L \in Nat
      BY <1>2
    <3> QED
      BY <1>1, <1>5, <3>1, <3>2, Frontier
  <2> HIDE DEF L
  <2>2. \A k \in Nat : L <= k \/ (k \in 0 .. L /\ k # L)
    BY <1>2
  <2> QED
    BY <1>1, <2>1, <2>2
<1> HIDE DEF n, path, L
<1>7. Ordered(queue') /\ Elements(Tail(queue)) \subseteq Elements(queue')
  <2>1. ASSUME NEW new \in Seq(EntryType), Expands(new, n, path)
        PROVE  Ordered(queue') /\ Elements(Tail(queue)) \subseteq Elements(queue')
    <3>1. /\ queue' = Tail(queue) \o new
          /\ \A x \in Elements(new) : Len(x.path) = Len(Head(queue).path) + 1
      BY <2>1 DEF Expands, path
    <3>2. /\ Ordered(Tail(queue) \o new)
          /\ Elements(Tail(queue) \o new) = Elements(Tail(queue)) \cup Elements(new)
      BY <1>1, <3>1, OrderedMore
    <3> QED
      BY <3>1, <3>2
  <2> QED
    BY <1>3, <1>4, <2>1
<1>8. \A k : Due(k)' = {x.at : x \in {y \in Elements(queue') : Len(y.path) <= k}}
  BY DEF Due, Elements
<1>9. \A k : Due(k) \subseteq Due(k)' \cup {n}
  BY <1>3, <1>7, <1>8 DEF Due, n
<1>10. query.start \in visited' \cup Due(0)'
  BY <1>1, <1>9
<1>11. ASSUME NEW m \in visited', NEW k \in Nat, m \in Layer(query, k), GoesOn(query, k),
              NEW y \in Neighbours(query, m)
       PROVE  y \in visited' \cup Due(k + 1)'
  <2>1. CASE m \in visited
    <3>1. y \in visited \cup Due(k + 1)
      BY <1>1, <1>11, <2>1 DEF Closing
    <3> QED
      BY <1>1, <1>9, <3>1
  <2>2. CASE m = n
    <3>1. L <= k
      BY <1>6, <1>11, <2>2
    <3>2. query.op = "bfs" => L < query.max_depth
      BY <1>2, <1>11, <3>1 DEF GoesOn
    <3>3. PICK new \in Seq(EntryType) : Expands(new, n, path)
      BY <1>4, <3>2
    <3>4. CASE \E e \in Leads(n) : Other(e, n) = y
      <4>1. PICK x \in Elements(new) : x.at = y /\ Len(x.path) = L + 1
        BY <3>3, <3>4 DEF Expands, L
      <4>2. queue' = Tail(queue) \o new /\ \A z \in Elements(new) : Len(z.path) = Len(Head(queue).path) + 1
        BY <3>3 DEF Expands, path
      <4>3. x \in Elements(queue')
        BY <1>1, <4>1, <4>2, OrderedMore, ZenonT(40)
      <4>4. Len(x.path) <= k + 1
        BY <1>2, <3>1, <4>1
      <4> QED
        BY <1>8, <4>1, <4>3, <4>4
    <3> QED
      BY <1>1, <1>11, <2>2, <3>4, LeadsOn
  <2> QED
    BY <1>1, <2>1, <2>2
<1>12. Closing'
  <2>1. \A k : GoesOn(query, k)' <=> GoesOn(query, k)
    BY <1>1 DEF GoesOn
  <2>2. \A k, m : Layer(query, k)' = Layer(query, k) /\ Neighbours(query, m)' = Neighbours(query, m)
    <3>1. /\ \A q, k : Layer(q, k)' = Layer(q, k)
          /\ \A q, m : Neighbours(q, m)' = Neighbours(q, m)
      BY <1>1, SameLayers
    <3> QED
      BY <1>1, <3>1
  <2> QED
    BY <1>11, <2>1, <2>2 DEF Closing
<1> QED
  BY <1>1, <1>7, <1>10, <1>12 DEF LayersInv

LEMMA VisitCollect ==
    ASSUME WalkType, LayersInv, CollectInv, Visit, Found(query)
    PROVE  CollectInv'
<1> SUFFICES ASSUME query.op = "bfs" PROVE CollectInv'
  BY DEF CollectInv, Visit
<1> DEFINE n == Head(queue).at
           path == Head(queue).path
<1>1. /\ queue \in Seq(EntryType) /\ queue # <<>> /\ Head(queue) \in Elements(queue)
      /\ UNCHANGED <<graph, query, pc>> /\ pc = "first"
      /\ visited' = visited \cup {n} /\ Elements(Tail(queue)) \subseteq Elements(queue)
      /\ Len(path) \in Nat /\ query.max_depth \in Nat
  BY Dequeued, VisitQueue, QueryType DEF WalkType, Visit, Searching, Reached, Query
<1>2. /\ StartFound(query) \subseteq found
      /\ visited \cup {x.at : x \in Elements(queue)} \subseteq found \cup {query.start}
      /\ \A x \in Elements(queue) : Len(x.path) <= query.max_depth
  BY DEF CollectInv
<1>3. \/ queue' = Tail(queue) /\ found' = found
      \/ \E new \in Seq(EntryType) : Expands(new, n, path)
  BY VisitQueue
<1>4. query.op = "bfs" /\ Len(path) >= query.max_depth => queue' = Tail(queue) /\ found' = found
  BY DEF Visit
<1> HIDE DEF n, path
<1>5. CASE queue' = Tail(queue) /\ found' = found
  <2>1. n \in {x.at : x \in Elements(queue)}
    BY <1>1 DEF n
  <2> QED
    BY <1>1, <1>2, <1>5, <2>1 DEF CollectInv, StartFound
<1>6. ASSUME NEW new \in Seq(EntryType), Expands(new, n, path), Len(path) < query.max_depth
      PROVE  CollectInv'
  <2>1. /\ queue' = Tail(queue) \o new
        /\ found' = found \cup {Other(e, n) : e \in Leads(n)}
        /\ \A x \in Elements(new) : /\ Len(x.path) <= query.max_depth
                                    /\ \E e \in Leads(n) : x = Entry(Other(e, n), Append(path, e))
    BY <1>1, <1>6 DEF Expands
  <2>2. \A x \in Elements(new) : x.at \in found'
    BY <2>1 DEF Entry
  <2>3. Elements(queue') \subseteq Elements(Tail(queue)) \cup Elements(new)
    <3>1. Tail(queue) \in Seq(EntryType)
      BY <1>1, Dequeued
    <3> QED
      BY <2>1, <3>1, Concatenated
  <2>4. n \in {x.at : x \in Elements(queue)}
    BY <1>1 DEF n
  <2>5. visited' \cup {x.at : x \in Elements(queue')} \subseteq found' \cup {query.start}
    BY <1>1, <1>2, <2>1, <2>2, <2>3, <2>4
  <2>6. \A x \in Elements(queue') : Len(x.path) <= query.max_depth
    BY <1>1, <1>2, <2>1, <2>3
  <2>7. StartFound(query) \subseteq found'
    BY <1>2, <2>1
  <2> QED
    BY <1>1, <2>5, <2>6, <2>7 DEF CollectInv, StartFound
<1> QED
  BY <1>1, <1>3, <1>4, <1>5, <1>6

\* One step more at the end.
LEMMA LeadingOn ==
    ASSUME NEW q, NEW path \in Seq(Edge), NEW n, Leading(q, path, n),
           NEW e \in Steps(q), e \in Edge, e.source = n
    PROVE  Leading(q, Append(path, e), e.target)
<1> DEFINE p == Append(path, e)
<1>1. /\ p \in Seq(Edge) /\ Len(p) = Len(path) + 1 /\ p[Len(path) + 1] = e
      /\ \A i \in 1 .. Len(path) : p[i] = path[i]
  BY AppendProperties
<1>2. /\ DOMAIN path = 1 .. Len(path) /\ DOMAIN p = 1 .. Len(path) + 1 /\ Len(path) \in Nat
      /\ p # <<>> /\ (path = <<>> <=> Len(path) = 0)
  BY <1>1, LenProperties, EmptySeq
<1> HIDE DEF p
<1>3. ASSUME NEW i \in DOMAIN p
      PROVE  p[i] \in Steps(q) /\ p[i].source = IF i = 1 THEN q.start ELSE p[i - 1].target
  <2>1. CASE i \in DOMAIN path
    <3>1. p[i] = path[i] /\ (i # 1 => i - 1 \in 1 .. Len(path))
      BY <1>1, <1>2, <2>1
    <3> QED
      BY <1>1, <2>1, <3>1 DEF Leading
  <2>2. CASE i = Len(path) + 1
    <3>1. CASE path = <<>>
      BY <1>1, <1>2, <2>2, <3>1 DEF Leading
    <3>2. CASE path # <<>>
      <4>1. i # 1 /\ i - 1 = Len(path) /\ Len(path) \in 1 .. Len(path)
        BY <1>2, <2>2, <3>2
      <4> QED
        BY <1>1, <2>2, <3>2, <4>1 DEF Leading
    <3> QED
      BY <3>1, <3>2
  <2> QED
    BY <1>2, <2>1, <2>2
<1>4. e.target = p[Len(p)].target
  BY <1>1
<1> QED
  BY <1>2, <1>3, <1>4 DEF Leading, p

LEMMA VisitGoal ==
    ASSUME WalkType, GoalInv, Visit, Found(query)
    PROVE  GoalInv'
<1> SUFFICES ASSUME query.op = "path" PROVE GoalInv'
  BY DEF GoalInv, Visit
<1> DEFINE n == Head(queue).at
           path == Head(queue).path
<1>1. /\ queue \in Seq(EntryType) /\ queue # <<>> /\ Head(queue) \in Elements(queue)
      /\ UNCHANGED <<graph, query, pc>> /\ pc = "first" /\ found' = found
      /\ visited' = visited \cup {n} /\ Elements(Tail(queue)) \subseteq Elements(queue)
      /\ Tail(queue) \in Seq(EntryType)
      /\ n # query.to /\ path \in Seq(Edge) /\ graph \in Graphs
  BY Dequeued, VisitQueue DEF WalkType, Visit, Searching, Reached
<1>2. /\ query.to \notin visited /\ found = {}
      /\ \A x \in Elements(queue) : Leading(query, x.path, x.at)
  BY <1>1 DEF GoalInv
<1>3. PICK new \in Seq(EntryType) : Expands(new, n, path)
  BY VisitQueue
<1>4. \A e \in Leads(n) : e \in Edge /\ e \in Steps(query) /\ e.source = n /\ Other(e, n) = e.target
  BY <1>1, GraphType DEF Leads, Outgoing, Steps, Other
<1>5. Leading(query, path, n)
  BY <1>1, <1>2
<1> HIDE DEF n, path
<1>6. \A x \in Elements(new) : Leading(query, x.path, x.at)
  <2> SUFFICES ASSUME NEW x \in Elements(new) PROVE Leading(query, x.path, x.at)
    OBVIOUS
  <2>1. PICK e \in Leads(n) : x = Entry(Other(e, n), Append(path, e))
    BY <1>3 DEF Expands
  <2>2. x.path = Append(path, e) /\ x.at = e.target
    BY <1>4, <2>1 DEF Entry
  <2> QED
    BY <1>1, <1>4, <1>5, <2>2, LeadingOn
<1>7. Elements(queue') \subseteq Elements(Tail(queue)) \cup Elements(new)
  BY <1>1, <1>3, Concatenated DEF Expands
<1>8. \A x \in Elements(queue') : Leading(query, x.path, x.at)'
  <2>1. \A x \in Elements(queue') : Leading(query, x.path, x.at)
    BY <1>1, <1>2, <1>6, <1>7
  <2>2. \A q, p, m : Leading(q, p, m)' <=> Leading(q, p, m)
    BY <1>1, SameLayers
  <2> QED
    BY <1>1, <2>1, <2>2
<1> QED
  BY <1>1, <1>2, <1>8 DEF GoalInv

\* The end of a search, and an entry that is dropped.
LEMMA SearchBreadth ==
    ASSUME WalkType, BreadthInv, Found(query), FinishSearch \/ SkipVisited
    PROVE  BreadthInv'
<1>1. /\ queue \in Seq(EntryType) /\ query.op \in {"bfs", "path"} /\ pc = "first"
      /\ UNCHANGED <<graph, query, visited>> /\ graph \in Graphs
      /\ LayersInv /\ CollectInv /\ GoalInv
  BY DEF WalkType, FinishSearch, SkipVisited, Searching, BreadthInv
<1>2. /\ \A k, m : /\ GoesOn(query, k)' <=> GoesOn(query, k)
                   /\ Layer(query, k)' = Layer(query, k) /\ Neighbours(query, m)' = Neighbours(query, m)
      /\ \A p, m : Leading(query, p, m)' <=> Leading(query, p, m)
  <2>1. /\ \A q, k : Layer(q, k)' = Layer(q, k)
        /\ \A q, m : Neighbours(q, m)' = Neighbours(q, m)
        /\ \A q, p, m : Leading(q, p, m)' <=> Leading(q, p, m)
    BY <1>1, SameLayers
  <2>2. \A k : GoesOn(query, k)' <=> GoesOn(query, k)
    BY <1>1 DEF GoesOn
  <2> QED
    BY <1>1, <2>1, <2>2
<1>3. CASE FinishSearch
  <2>1. queue' = queue /\ pc' = "done" /\ \A k : Due(k)' = Due(k)
    BY <1>3 DEF FinishSearch, Due, Elements
  <2>2. LayersInv'
    BY <1>1, <1>2, <2>1 DEF LayersInv, Closing
  <2>3. CollectInv'
    <3>1. query.op = "bfs" => found' = found /\ (queue = <<>> \/ Cardinality(found) >= query.limit)
      BY <1>3 DEF FinishSearch, Reached
    <3> QED
      BY <1>1, <2>1, <3>1 DEF CollectInv, StartFound
  <2>4. GoalInv'
    <3> SUFFICES ASSUME query.op = "path" PROVE GoalInv'
      BY <1>1 DEF GoalInv
    <3>1. CASE queue = <<>>
      <4>1. found' = {}
        BY <1>1, <1>3, <3>1 DEF FinishSearch, GoalInv
      <4> QED
        BY <1>1, <1>2, <2>1, <3>1, <4>1 DEF GoalInv
    <3>2. CASE queue # <<>>
      <4>1. Head(queue).at = query.to /\ via' = Head(queue).path /\ query.start \in found'
        BY <1>3, <3>2 DEF FinishSearch, Reached
      <4> QED
        BY <1>1, <1>2, <2>1, <3>2, <4>1 DEF GoalInv
    <3> QED
      BY <3>1, <3>2
  <2> QED
    BY <2>2, <2>3, <2>4 DEF BreadthInv
<1>4. CASE SkipVisited
  <2>1. /\ queue' = Tail(queue) /\ UNCHANGED <<pc, found, via>> /\ queue # <<>>
        /\ Head(queue).at \in visited
    BY <1>4 DEF SkipVisited, Reached
  <2>2. /\ Ordered(queue') /\ Elements(queue') \subseteq Elements(queue)
        /\ \A x \in Elements(queue) : x = Head(queue) \/ x \in Elements(queue')
    BY <1>1, <2>1, OrderedTail DEF LayersInv
  <2>3. \A k : visited \cup Due(k)' = visited \cup Due(k)
    <3>1. \A k : Due(k)' = {x.at : x \in {y \in Elements(queue') : Len(y.path) <= k}}
      BY DEF Due, Elements
    <3> QED
      BY <2>1, <2>2, <3>1 DEF Due
  <2>4. LayersInv'
    <3>1. query.start \in visited' \cup Due(0)'
      BY <1>1, <2>3 DEF LayersInv
    <3>2. Closing'
      BY <1>1, <1>2, <2>3 DEF LayersInv, Closing
    <3> QED
      BY <1>1, <2>1, <2>2, <3>1, <3>2 DEF LayersInv
  <2>5. CollectInv'
    BY <1>1, <2>1, <2>2 DEF CollectInv, StartFound
  <2>6. GoalInv'
    BY <1>1, <1>2, <2>1, <2>2 DEF GoalInv
  <2> QED
    BY <2>4, <2>5, <2>6 DEF BreadthInv
<1> QED
  BY <1>3, <1>4

LEMMA AskBreadth ==
    ASSUME WalkType, NEW q \in Queries,
           AskUnknown(q) \/ StartBreadthFirst(q) \/ StartDepthFirst(q) \/ StartClimb(q)
    PROVE  BreadthInv'
<1>1. /\ q \in Query /\ graph \in Graphs /\ query' = q /\ graph' = graph
      /\ visited = {} /\ queue = <<>> /\ found = {} /\ q.max_depth \in Nat
  BY WalkAssumption DEF WalkType, Query, AskUnknown, StartBreadthFirst, StartDepthFirst, StartClimb
<1>2. ASSUME ~StartBreadthFirst(q) PROVE ~Found(query)'
  <2>1. ~Found(q)
    BY <1>2 DEF Found, AskUnknown, StartDepthFirst, StartClimb, Recursive
  <2> QED
    BY <1>1, <2>1, SameLayers
<1>3. CASE StartBreadthFirst(q)
  <2> DEFINE x == Entry(q.start, <<>>)
  <2>1. /\ queue' = <<x>> /\ visited' = {} /\ found' = StartFound(q) /\ pc' = "first"
        /\ x.at = q.start /\ x.path = <<>> /\ Len(x.path) = 0
    BY <1>1, <1>3 DEF StartBreadthFirst, Entry
  <2> HIDE DEF x
  <2>2. DOMAIN queue' = {1} /\ queue'[1] = x /\ Elements(queue') = {x}
    BY <2>1 DEF Elements
  <2>3. LayersInv'
    <3>1. Ordered(queue')
      BY <2>1, <2>2 DEF Ordered
    <3>2. q.start \in Due(0)'
      <4>1. Due(0)' = {z.at : z \in {y \in Elements(queue') : Len(y.path) <= 0}}
        BY DEF Due, Elements
      <4> QED
        BY <2>1, <2>2, <4>1
    <3> QED
      BY <1>1, <2>1, <3>1, <3>2 DEF LayersInv, Closing
  <2>4. CollectInv'
    BY <1>1, <2>1, <2>2 DEF CollectInv, StartFound
  <2>5. GoalInv'
    <3>1. Leading(q, x.path, x.at)
      BY <2>1 DEF Leading
    <3>2. Leading(q, x.path, x.at)'
      <4>1. \A p, m : Leading(q, p, m)' <=> Leading(q, p, m)
        BY <1>1, SameLayers
      <4> QED
        BY <3>1, <4>1 DEF x, Entry
    <3>3. q.op = "path" => found' = {}
      BY <2>1 DEF StartFound
    <3> QED
      BY <1>1, <2>1, <2>2, <3>2, <3>3 DEF GoalInv
  <2> QED
    BY <2>3, <2>4, <2>5 DEF BreadthInv
<1> QED
  BY <1>2, <1>3 DEF BreadthInv, LayersInv, CollectInv, GoalInv

LEMMA BreadthKept ==
    ASSUME WalkType, BreadthInv, [Next]_wvars
    PROVE  BreadthInv'
<1>1. CASE UNCHANGED wvars
  <2>1. UNCHANGED <<graph, query, pc, found, via, visited, queue>>
    BY <1>1 DEF wvars
  <2>2. /\ \A q, k : Layer(q, k)' = Layer(q, k)
        /\ \A q, m : Neighbours(q, m)' = Neighbours(q, m)
        /\ \A q : Found(q)' <=> Found(q)
        /\ \A q, p, m : Leading(q, p, m)' <=> Leading(q, p, m)
    BY <2>1, SameLayers
  <2>3. \A k : Due(k)' = Due(k) /\ (GoesOn(query, k)' <=> GoesOn(query, k))
    BY <2>1 DEF Due, Elements, GoesOn
  <2>4. LayersInv'
    BY <2>1, <2>2, <2>3 DEF BreadthInv, LayersInv, Closing
  <2>5. CollectInv'
    BY <2>1, <2>2 DEF BreadthInv, CollectInv, StartFound
  <2>6. GoalInv'
    BY <2>1, <2>2 DEF BreadthInv, GoalInv
  <2> QED
    BY <2>4, <2>5, <2>6 DEF BreadthInv
<1>2. CASE FinishSearch \/ SkipVisited \/ Visit
  <2>1. Found(query)' <=> Found(query)
    <3>1. UNCHANGED <<graph, query>>
      BY <1>2 DEF FinishSearch, SkipVisited, Visit
    <3> QED
      BY <3>1 DEF Found, Known
  <2>2. CASE Found(query)
    BY <1>2, <2>2, SearchBreadth, VisitLayers, VisitCollect, VisitGoal DEF BreadthInv
  <2>3. CASE ~Found(query)
    BY <2>1, <2>3 DEF BreadthInv, LayersInv, CollectInv, GoalInv
  <2> QED
    BY <2>2, <2>3
<1>3. ASSUME FollowChild \/ Follow \/ LoopsEnd \/ SecondWalk \/ FinishWalk \/ Climb \/ FinishClimb \/ Return
      PROVE  BreadthInv'
  <2>1. ~Found(query)'
    BY <1>3 DEF FollowChild, Follow, LoopsEnd, SecondWalk, FinishWalk, Climb, FinishClimb, Return,
                Recursing, Found, Recursive, NoQuery
  <2> QED
    BY <2>1 DEF BreadthInv, LayersInv, CollectInv, GoalInv
<1> QED
  BY <1>1, <1>2, <1>3, StepsAre, AskBreadth DEF WalkStep

LEMMA BreadthInit == Init => BreadthInv
BY DEF Init, NoQuery, BreadthInv, LayersInv, CollectInv, GoalInv, Found

-----------------------------------------------------------------------------
(* What the searches find. *)

\* When its queue is empty, a search has visited all there is within its depth.
LEMMA Everything ==
    ASSUME WalkType, LayersInv, Found(query), queue = <<>>, NEW k \in Nat,
           query.op = "bfs" => k <= query.max_depth
    PROVE  Layer(query, k) \subseteq visited
<1>1. /\ query \in Query /\ query.op \in {"bfs", "path"} /\ graph \in Graphs
      /\ query.start \in visited \cup Due(0) /\ Closing /\ query.max_depth \in Nat
  BY QueryType DEF WalkType, LayersInv, Found, Query
<1>2. Elements(queue) = {} /\ Due(k) = {}
  BY DEF Elements, Due
<1>3. k = 0 \/ GoesOn(query, k - 1)
  BY <1>1 DEF GoesOn
<1> QED
  BY <1>1, <1>2, <1>3, Frontier

LEMMA CompleteSearch ==
    ASSUME WalkType, BreadthInv, WithinDepth
    PROVE  BreadthFirstComplete
<1> SUFFICES ASSUME pc = "done", Known(query), query.op = "bfs", Cardinality(found) < query.limit
             PROVE  found = Neighbourhood(query)
  BY DEF BreadthFirstComplete
<1>1. /\ Found(query) /\ query \in Query /\ graph \in Graphs /\ query.max_depth \in Nat
      /\ query.limit \in Nat /\ LayersInv /\ CollectInv
  BY QueryType DEF Found, WalkType, Query, BreadthInv
<1>2. queue = <<>>
  <2>1. IsFiniteSet(found) /\ Cardinality(found) \in Nat
    BY WalkAssumption, FS_Subset, FS_CardinalityType DEF WalkType
  <2>2. ~(Cardinality(found) >= query.limit)
    BY <1>1, <2>1
  <2> QED
    BY <1>1, <2>2 DEF CollectInv
<1>3. Within("dfs", query, query.max_depth) \subseteq visited
  <2>1. Layer(query, query.max_depth) \subseteq visited
    BY <1>1, <1>2, Everything
  <2> QED
    BY <2>1 DEF Layer
<1>4. Within("dfs", query, Depth(query)) \subseteq Within("dfs", query, query.max_depth)
  <2>1. Cardinality(Id) \in Nat
    BY WalkAssumption, FS_CardinalityType
  <2>2. Depth(query) \in Nat /\ Depth(query) <= query.max_depth
    BY <1>1, <2>1 DEF Depth
  <2> QED
    BY <1>1, <2>2, WithinMonotone
<1>5. Neighbourhood(query) \subseteq found
  <2>1. visited \subseteq found \cup {query.start} /\ StartFound(query) \subseteq found
    BY <1>1 DEF CollectInv
  <2>2. Rules(query) = {"dfs"}
    BY DEF Rules
  <2> QED
    BY <1>3, <1>4, <2>1, <2>2 DEF Neighbourhood
<1> QED
  BY <1>5 DEF WithinDepth, Bounded

\* On every graph, traverse_bfs finds exactly what lies within its depth,
\* unless its node limit stopped it.
THEOREM SearchComplete == Spec => []BreadthFirstComplete
<1>1. Init => WalkType /\ BreadthInv
  BY TypeInit, BreadthInit
<1>2. WalkType /\ BreadthInv /\ [Next]_wvars => (WalkType /\ BreadthInv)'
  BY TypeKept, BreadthKept
<1>3. WalkType /\ BreadthInv /\ WithinDepth => BreadthFirstComplete
  BY CompleteSearch
<1> QED
  BY <1>1, <1>2, <1>3, NothingTooFar, PTL DEF Spec

LEMMA ShortestPath ==
    ASSUME WalkType, BreadthInv
    PROVE  PathShortest
<1> SUFFICES ASSUME pc = "done", query.op = "path", Known(query)
             PROVE  IF found = {}
                    THEN query.to \notin Reachable(query, Cardinality(Id))
                    ELSE /\ \A i \in DOMAIN via :
                              /\ via[i] \in Steps(query)
                              /\ via[i].source = IF i = 1 THEN query.start ELSE via[i - 1].target
                         /\ query.to = IF via = <<>> THEN query.start ELSE via[Len(via)].target
                         /\ via # <<>> => query.to \notin Reachable(query, Len(via) - 1)
  BY DEF PathShortest
<1>1. /\ Found(query) /\ query \in Query /\ graph \in Graphs /\ LayersInv /\ GoalInv
      /\ query.to \notin visited /\ queue \in Seq(EntryType)
  BY QueryType DEF Found, WalkType, BreadthInv, GoalInv
<1>2. CASE queue = <<>> /\ found = {}
  <2>1. Cardinality(Id) \in Nat
    BY WalkAssumption, FS_CardinalityType
  <2>2. Layer(query, Cardinality(Id)) \subseteq visited
    BY <1>1, <1>2, <2>1, Everything
  <2> QED
    BY <1>1, <1>2, <2>2 DEF Layer
<1>3. ASSUME queue # <<>>, query.start \in found, Head(queue).at = query.to, via = Head(queue).path
      PROVE  /\ Leading(query, via, query.to)
             /\ via # <<>> => query.to \notin Reachable(query, Len(via) - 1)
  <2>1. Head(queue) \in Elements(queue) /\ Head(queue) \in EntryType
    BY <1>1, <1>3, Dequeued
  <2>2. Leading(query, via, query.to)
    BY <1>1, <1>3, <2>1 DEF GoalInv
  <2>3. ASSUME via # <<>> PROVE query.to \notin Reachable(query, Len(via) - 1)
    <3> DEFINE L == Len(via)
    <3>1. L \in Nat /\ L # 0
      BY <1>3, <2>1, <2>3, LenProperties, EmptySeq DEF EntryType
    <3>2. \A x \in Elements(queue) : Len(x.path) \in Nat /\ L <= Len(x.path)
      BY <1>1, <1>3, OrderedTail DEF LayersInv
    <3>3. query.start \in visited \cup Due(0) /\ Closing /\ GoesOn(query, L - 1)
      BY <1>1 DEF LayersInv, GoesOn
    <3> HIDE DEF L
    <3>4. \A i \in 0 .. L : i # L => Layer(query, i) \subseteq visited
      BY <1>1, <3>1, <3>2, <3>3, Frontier
    <3>5. L - 1 \in 0 .. L /\ L - 1 # L
      BY <3>1
    <3>6. Layer(query, L - 1) \subseteq visited
      BY <3>4, <3>5
    <3> QED
      BY <1>1, <3>6 DEF Layer, L
  <2> QED
    BY <2>2, <2>3
<1>4. CASE queue # <<>> /\ query.start \in found /\ Head(queue).at = query.to /\ via = Head(queue).path
  <2>1. found # {}
    BY <1>4
  <2> QED
    BY <1>3, <1>4, <2>1 DEF Leading
<1> QED
  BY <1>1, <1>2, <1>4 DEF GoalInv

\* On every graph, find_path returns a path and no other one is shorter, or
\* none, and then there is none.
THEOREM ShortestFound == Spec => []PathShortest
<1>1. Init => WalkType /\ BreadthInv
  BY TypeInit, BreadthInit
<1>2. WalkType /\ BreadthInv /\ [Next]_wvars => (WalkType /\ BreadthInv)'
  BY TypeKept, BreadthKept
<1>3. WalkType /\ BreadthInv => PathShortest
  BY ShortestPath
<1> QED
  BY <1>1, <1>2, <1>3, PTL DEF Spec

-----------------------------------------------------------------------------
(* The depth-first walks.  What a walk has left behind is found, as long   *)
(* as it is one hop away; and it was visited, from every node if the depth *)
(* never binds, from the start node if it binds after two hops or more.    *)

\* The depth is larger than any path is long.
Deep(q) == q.op = "hierarchy" \/ q.max_depth >= Cardinality(Id)

Wide(rule, q, n) == Deep(q) \/ (n = q.start /\ rule # "impact" /\ q.max_depth >= 2)

HopPending(fs, e, n) == \E k \in DOMAIN fs : fs[k].at = n /\ e \in fs[k].hops

ChildPending(fs, e, n) == \E k \in DOMAIN fs : fs[k].at = n /\ e \in fs[k].children

HopDone(rule, q, seen, nodes, e, n) ==
    \/ Other(e, n) \notin Accepted(q)
    \/ /\ Other(e, n) \in nodes \cup {q.start}
       /\ Wide(rule, q, n) => Other(e, n) \in seen

ChildDone(seen, e) == e.target \notin graph.nodes \/ e.target \in seen

\* A frame is no deeper than the nodes visited allow.
Shallow(q, seen, fs) ==
    \A k \in DOMAIN fs : /\ fs[k].depth < Cardinality(seen)
                         /\ fs[k].at = q.start => fs[k].depth = 0

Swept(rule, q, seen, nodes, fs) ==
    /\ \A n \in seen :
          /\ \A e \in Hops(rule, q, n) : HopPending(fs, e, n) \/ HopDone(rule, q, seen, nodes, e, n)
          /\ \A e \in Children(rule, n) : ChildPending(fs, e, n) \/ ChildDone(seen, e)
    /\ Shallow(q, seen, fs)
    /\ q.start \in seen /\ seen \subseteq nodes \cup {q.start}
    /\ Deep(q) /\ rule \in {"impact", "type_ancestors"} => nodes \subseteq seen

Goes(q) == q.op = "hierarchy" \/ q.max_depth > 0

\* What a call on n does to a walk.
CallSwept(rule, q, n, depth, seen, ns, fs) ==
    /\ seen \subseteq visited' /\ visited' \subseteq seen \cup {n} /\ visited' \subseteq Id
    /\ Shallow(q, visited', stack')
    /\ \A e, m : /\ HopPending(fs, e, m) => HopPending(stack', e, m)
                 /\ ChildPending(fs, e, m) => ChildPending(stack', e, m)
    /\ n \in visited' \ seen => /\ \A e \in Hops(rule, q, n) : HopPending(stack', e, n)
                                /\ \A e \in Children(rule, n) : ChildPending(stack', e, n)
    /\ Enters(rule, q, n, depth, seen, ns) => n \in visited'

LEMMA CallSweeps ==
    ASSUME graph \in Graphs, NEW q \in Query, NEW rule \in RecRule, NEW n \in Id, NEW depth \in Nat,
           NEW seen \in SUBSET Id, NEW ns, NEW fs \in Seq(FrameType),
           Call(rule, q, n, depth, seen, ns, fs), Shallow(q, seen, fs),
           depth <= Cardinality(seen), n = q.start => depth = 0
    PROVE  CallSwept(rule, q, n, depth, seen, ns, fs)
<1> DEFINE fr == Frame(rule, q, n, depth)
<1>1. /\ visited' \subseteq Id
      /\ \/ /\ visited' = seen \cup {n} /\ n \notin seen /\ stack' = <<fr>> \o fs
         \/ /\ ~Enters(rule, q, n, depth, seen, ns)
            /\ visited' = seen /\ stack' = fs
  BY CallTyped
<1>2. fr \in FrameType
  BY FrameTyped
<1>3. CASE ~Enters(rule, q, n, depth, seen, ns) /\ visited' = seen /\ stack' = fs
  BY <1>1, <1>3 DEF CallSwept
<1>4. CASE visited' = seen \cup {n} /\ n \notin seen /\ stack' = <<fr>> \o fs
  <2>1. /\ fr.at = n /\ fr.depth = depth /\ fr.hops = Hops(rule, q, n) /\ fr.children = Children(rule, n)
    BY DEF Frame
  <2> HIDE DEF fr
  <2>2. /\ DOMAIN stack' = 1 .. Len(fs) + 1 /\ Len(fs) \in Nat /\ DOMAIN fs = 1 .. Len(fs)
        /\ \A k \in DOMAIN stack' : \/ k = 1 /\ stack'[k] = fr
                                    \/ k - 1 \in DOMAIN fs /\ stack'[k] = fs[k - 1]
    BY <1>2, <1>4, Pushed
  <2>3. 1 \in DOMAIN stack' /\ stack'[1] = fr
    <3>1. 1 \in DOMAIN stack' /\ 1 - 1 \notin DOMAIN fs
      BY <2>2
    <3> QED
      BY <2>2, <3>1
  <2>4. \A k \in DOMAIN fs : k + 1 \in DOMAIN stack' /\ stack'[k + 1] = fs[k]
    <3> SUFFICES ASSUME NEW k \in DOMAIN fs PROVE k + 1 \in DOMAIN stack' /\ stack'[k + 1] = fs[k]
      OBVIOUS
    <3>1. k + 1 \in DOMAIN stack' /\ k + 1 # 1 /\ (k + 1) - 1 = k
      BY <2>2
    <3> QED
      BY <2>2, <3>1
  <2>5. Cardinality(visited') = Cardinality(seen) + 1 /\ Cardinality(seen) \in Nat
    BY <1>4, WalkAssumption, FS_Subset, FS_AddElement, FS_CardinalityType
  <2>6. Shallow(q, visited', stack')
    <3> SUFFICES ASSUME NEW k \in DOMAIN stack'
                 PROVE  /\ stack'[k].depth < Cardinality(visited')
                        /\ stack'[k].at = q.start => stack'[k].depth = 0
      BY DEF Shallow
    <3>1. CASE stack'[k] = fr
      BY <2>1, <2>5, <3>1
    <3>2. ASSUME k - 1 \in DOMAIN fs, stack'[k] = fs[k - 1]
          PROVE  /\ stack'[k].depth < Cardinality(visited')
                 /\ stack'[k].at = q.start => stack'[k].depth = 0
      <4>1. /\ fs[k - 1].depth < Cardinality(seen)
            /\ fs[k - 1].at = q.start => fs[k - 1].depth = 0
        BY <3>2 DEF Shallow
      <4>2. fs[k - 1].depth \in Nat
        <5>1. fs[k - 1] \in FrameType
          BY <2>2, <3>2, ElementOfSeq
        <5> QED
          BY <5>1 DEF FrameType
      <4> QED
        BY <2>5, <3>2, <4>1, <4>2
    <3> QED
      BY <2>2, <3>1, <3>2
  <2>7. \A e, m : /\ HopPending(fs, e, m) => HopPending(stack', e, m)
                  /\ ChildPending(fs, e, m) => ChildPending(stack', e, m)
    BY <2>4 DEF HopPending, ChildPending
  <2>8. /\ \A e \in Hops(rule, q, n) : HopPending(stack', e, n)
        /\ \A e \in Children(rule, n) : ChildPending(stack', e, n)
    BY <2>1, <2>3 DEF HopPending, ChildPending
  <2> QED
    BY <1>1, <1>4, <2>6, <2>7, <2>8 DEF CallSwept
<1> QED
  BY <1>1, <1>3, <1>4

\* The first call of a walk.
LEMMA StartSweeps ==
    ASSUME graph \in Graphs, NEW q \in Query, NEW rule \in RecRule, Goes(q),
           rule \notin {"type_ancestors", "type_descendants"} => q.op # "hierarchy",
           NEW ns \in SUBSET Id, rule = "dfs" => Cardinality(ns) < q.limit,
           rule \in {"impact", "type_ancestors"} => ns \subseteq {q.start},
           Call(rule, q, q.start, 0, {}, ns, <<>>)
    PROVE  Swept(rule, q, visited', ns, stack')
<1>1. q.start \in Id /\ q.max_depth \in Nat /\ Cardinality({}) = 0
  BY FS_EmptySet DEF Query
<1>2. CallSwept(rule, q, q.start, 0, {}, ns, <<>>)
  <2>1. /\ Shallow(q, {}, <<>>) /\ <<>> \in Seq(FrameType) /\ {} \in SUBSET Id
        /\ 0 \in Nat /\ 0 <= Cardinality({})
    BY <1>1 DEF Shallow
  <2> QED
    BY <1>1, <2>1, CallSweeps
<1>3. Enters(rule, q, q.start, 0, {}, ns)
  BY <1>1 DEF Enters, Goes
<1>4. visited' = {q.start}
  BY <1>2, <1>3 DEF CallSwept
<1> QED
  BY <1>2, <1>4 DEF CallSwept, Swept

\* Deep enough for one more call.
LEMMA DeepEnough ==
    ASSUME NEW q \in Query, Deep(q), q.op # "hierarchy", NEW seen \in SUBSET Id, NEW n \in Id \ seen,
           NEW depth \in Nat, depth <= Cardinality(seen)
    PROVE  depth < q.max_depth
<1>1. IsFiniteSet(seen) /\ Cardinality(seen) \in Nat /\ Cardinality(Id) \in Nat
  BY WalkAssumption, FS_Subset, FS_CardinalityType
<1>2. Cardinality(seen) <= Cardinality(Id) /\ Cardinality(seen) # Cardinality(Id)
  BY WalkAssumption, FS_Subset
<1> QED
  BY <1>1, <1>2 DEF Deep, Query

\* A walk whose frames, nodes visited and nodes found change in order.
LEMMA SweptKept ==
    ASSUME NEW rule, NEW q, NEW seen, NEW nodes, NEW fs, Swept(rule, q, seen, nodes, fs),
           NEW n, NEW seen2, NEW nodes2, NEW fs2,
           seen \subseteq seen2, seen2 \subseteq seen \cup {n}, nodes \subseteq nodes2,
           \A m \in seen : \A e \in Hops(rule, q, m) :
              HopPending(fs, e, m) => HopPending(fs2, e, m) \/ HopDone(rule, q, seen2, nodes2, e, m),
           \A m \in seen : \A e \in Children(rule, m) :
              ChildPending(fs, e, m) => ChildPending(fs2, e, m) \/ ChildDone(seen2, e),
           n \in seen2 \ seen => /\ \A e \in Hops(rule, q, n) : HopPending(fs2, e, n)
                                 /\ \A e \in Children(rule, n) : ChildPending(fs2, e, n),
           Shallow(q, seen2, fs2), seen2 \subseteq nodes2 \cup {q.start},
           Deep(q) /\ rule \in {"impact", "type_ancestors"} => nodes2 \subseteq seen2
    PROVE  Swept(rule, q, seen2, nodes2, fs2)
<1>1. \A e, m : HopDone(rule, q, seen, nodes, e, m) => HopDone(rule, q, seen2, nodes2, e, m)
  BY DEF HopDone
<1>2. \A e : ChildDone(seen, e) => ChildDone(seen2, e)
  BY DEF ChildDone
<1>3. ASSUME NEW m \in seen2
      PROVE  /\ \A e \in Hops(rule, q, m) : HopPending(fs2, e, m) \/ HopDone(rule, q, seen2, nodes2, e, m)
             /\ \A e \in Children(rule, m) : ChildPending(fs2, e, m) \/ ChildDone(seen2, e)
  <2>1. CASE m \in seen
    BY <1>1, <1>2, <2>1 DEF Swept
  <2>2. CASE m = n /\ m \notin seen
    BY <2>2
  <2> QED
    BY <2>1, <2>2
<1>4. q.start \in seen2
  BY DEF Swept
<1> QED
  BY <1>3, <1>4 DEF Swept

\* Leaving an edge of the top frame behind.
LEMMA RestSweeps ==
    ASSUME NEW q, NEW seen, NEW fs \in Seq(FrameType), fs # <<>>, Shallow(q, seen, fs),
           NEW fr \in FrameType, fr.at = Head(fs).at, fr.depth = Head(fs).depth
    PROVE  /\ Shallow(q, seen, <<fr>> \o Tail(fs))
           /\ \A e, m : HopPending(fs, e, m) => \/ HopPending(<<fr>> \o Tail(fs), e, m)
                                                \/ m = fr.at /\ e \in Head(fs).hops \ fr.hops
           /\ \A e, m : ChildPending(fs, e, m) => \/ ChildPending(<<fr>> \o Tail(fs), e, m)
                                                  \/ m = fr.at /\ e \in Head(fs).children \ fr.children
<1> DEFINE r == <<fr>> \o Tail(fs)
<1>1. /\ DOMAIN r = DOMAIN fs
      /\ \A i \in DOMAIN fs : r[i] = IF i = 1 THEN fr ELSE fs[i]
  BY RestTyped
<1>2. 1 \in DOMAIN fs /\ Head(fs) = fs[1]
  BY LenProperties, EmptySeq
<1> HIDE DEF r
<1>3. Shallow(q, seen, r)
  BY <1>1, <1>2 DEF Shallow
<1>4. \A e, m : HopPending(fs, e, m) => HopPending(r, e, m) \/ (m = fr.at /\ e \in Head(fs).hops \ fr.hops)
  BY <1>1, <1>2 DEF HopPending
<1>5. \A e, m : ChildPending(fs, e, m)
                  => ChildPending(r, e, m) \/ (m = fr.at /\ e \in Head(fs).children \ fr.children)
  BY <1>1, <1>2 DEF ChildPending
<1> QED
  BY <1>3, <1>4, <1>5 DEF r

\* What is known of a walk in its loops.
LEMMA LoopContext ==
    ASSUME WalkType, NearInv, Recursing
    PROVE  /\ query \in Query /\ query.op \in Recursive /\ stack \in Seq(FrameType) /\ stack # <<>>
           /\ Top \in FrameType /\ Top = Head(stack) /\ 1 \in DOMAIN stack /\ Top = stack[1]
           /\ graph \in Graphs /\ visited \in SUBSET Id /\ found \in SUBSET Id
           /\ Rule \in RecRule /\ Top.depth \in Nat /\ Top.depth + 1 \in Nat /\ Top.at \in Id
           /\ query.op = "hierarchy" => pc = "first"
           /\ Rule = "type_ancestors" <=> query.op = "hierarchy"
           /\ Rule # "type_descendants"
           /\ Rule = "impact" <=> query.op = "impact"
           /\ Rule = "dfs" <=> query.op = "dfs"
           /\ query.op # "hierarchy" => Top.depth < query.max_depth
           /\ Top.hops \subseteq Hops(Rule, query, Top.at)
           /\ Top.children \subseteq Children(Rule, Top.at)
<1>1. /\ query \in Query /\ query.op \in Recursive /\ stack \in Seq(FrameType) /\ stack # <<>>
      /\ Top \in FrameType /\ 1 \in DOMAIN stack /\ Top = stack[1]
      /\ graph \in Graphs /\ visited \in SUBSET Id /\ found \in SUBSET Id
      /\ pc \in {"first", "second"}
  BY TopTyped DEF WalkType, Recursing
<1>2. query.op = "hierarchy" => pc = "first"
  BY <1>1 DEF NearInv, RecursiveNear
<1>3. FrameNear(Rule, query, Top)
  BY <1>1 DEF NearInv, RecursiveNear
<1>4. /\ Rule \in RecRule
      /\ Rule = "type_ancestors" <=> query.op = "hierarchy"
      /\ Rule # "type_descendants"
      /\ Rule = "impact" <=> query.op = "impact"
      /\ Rule = "dfs" <=> query.op = "dfs"
  BY <1>1, <1>2 DEF Rule, RuleOf, Recursive, RecRule
<1>5. Top.depth \in Nat /\ Top.depth + 1 \in Nat /\ Top.at \in Id
  BY <1>1 DEF FrameType
<1> QED
  BY <1>1, <1>2, <1>3, <1>4, <1>5 DEF FrameNear, Top

LEMMA ChildSweeps ==
    ASSUME WalkType, NearInv, FollowChild, Swept(Rule, query, visited, found, stack)
    PROVE  Swept(Rule, query, visited', found', stack')
<1>1. Recursing
  BY DEF FollowChild
<1>2. /\ query \in Query /\ stack \in Seq(FrameType) /\ stack # <<>>
      /\ Top \in FrameType /\ Top = Head(stack)
      /\ graph \in Graphs /\ visited \in SUBSET Id /\ found \in SUBSET Id
      /\ Rule \in RecRule /\ Top.depth \in Nat
      /\ Rule = "impact" <=> query.op = "impact"
      /\ query.op # "hierarchy" => Top.depth < query.max_depth
      /\ Top.children \subseteq Children(Rule, Top.at)
  BY <1>1, LoopContext
<1>3. PICK e \in Top.children, rest \in Seq(FrameType) :
              /\ e \in Edge /\ rest = <<[Top EXCEPT !.children = @ \ {e}]>> \o Tail(stack)
              /\ [Top EXCEPT !.children = @ \ {e}] \in FrameType
              /\ \/ /\ e.target \in Id \ visited /\ e.target \in graph.nodes
                    /\ found' = found \cup {e.target} /\ via' = Append(via, e)
                    /\ Call(Rule, query, e.target, Top.depth, visited, found', rest)
                 \/ /\ e.target \notin graph.nodes \ visited
                    /\ stack' = rest /\ UNCHANGED <<found, via, visited>>
  BY ChildStep
<1> DEFINE fr == [Top EXCEPT !.children = @ \ {e}]
<1>4. /\ fr \in FrameType /\ rest = <<fr>> \o Tail(stack) /\ fr.at = Top.at /\ fr.depth = Top.depth
      /\ fr.hops = Top.hops /\ fr.children = Top.children \ {e}
  BY <1>2, <1>3 DEF FrameType
<1> HIDE DEF fr
<1>5. /\ Shallow(query, visited, stack) /\ query.start \in visited
      /\ visited \subseteq found \cup {query.start}
      /\ Deep(query) /\ Rule \in {"impact", "type_ancestors"} => found \subseteq visited
  BY DEF Swept
<1>6. /\ Shallow(query, visited, rest)
      /\ \A f, m : HopPending(stack, f, m) => HopPending(rest, f, m)
      /\ \A f, m : ChildPending(stack, f, m) => ChildPending(rest, f, m) \/ (m = Top.at /\ f = e)
  <2>1. /\ stack \in Seq(FrameType) /\ stack # <<>> /\ Shallow(query, visited, stack)
        /\ fr \in FrameType /\ fr.at = Head(stack).at /\ fr.depth = Head(stack).depth
    BY <1>2, <1>4, <1>5
  <2>2. /\ Shallow(query, visited, <<fr>> \o Tail(stack))
        /\ \A f, m : HopPending(stack, f, m) => \/ HopPending(<<fr>> \o Tail(stack), f, m)
                                                \/ m = fr.at /\ f \in Head(stack).hops \ fr.hops
        /\ \A f, m : ChildPending(stack, f, m) => \/ ChildPending(<<fr>> \o Tail(stack), f, m)
                                                  \/ m = fr.at /\ f \in Head(stack).children \ fr.children
    BY <2>1, RestSweeps
  <2>3. /\ Head(stack).hops \ fr.hops = {} /\ Head(stack).children \ fr.children \subseteq {e}
        /\ fr.at = Top.at /\ rest = <<fr>> \o Tail(stack)
    BY <1>2, <1>4
  <2> QED
    BY <2>2, <2>3
<1>7. Rule = "impact"
  BY <1>2, <1>3 DEF Children
<1>8. CASE e.target \notin graph.nodes \ visited /\ stack' = rest /\ UNCHANGED <<found, visited>>
  <2>1. ChildDone(visited, e)
    BY <1>8 DEF ChildDone
  <2> QED
    BY <1>5, <1>6, <1>8, <2>1, SweptKept
<1>9. CASE /\ e.target \in Id \ visited /\ found' = found \cup {e.target}
           /\ Call(Rule, query, e.target, Top.depth, visited, found', rest)
  <2>1. Top.depth <= Cardinality(visited) /\ e.target # query.start
    <3>1. Top.depth < Cardinality(visited)
      BY <1>2, <1>5, LoopContext, <1>1 DEF Shallow
    <3>2. Cardinality(visited) \in Nat
      BY <1>2, WalkAssumption, FS_Subset, FS_CardinalityType
    <3> QED
      BY <1>2, <1>5, <1>9, <3>1, <3>2
  <2>2. CallSwept(Rule, query, e.target, Top.depth, visited, found', rest)
    BY <1>2, <1>6, <1>9, <2>1, CallSweeps
  <2>3. Enters(Rule, query, e.target, Top.depth, visited, found')
    BY <1>2, <1>7, <1>9 DEF Enters
  <2>4. /\ visited \subseteq visited' /\ visited' \subseteq visited \cup {e.target}
        /\ e.target \in visited' /\ Shallow(query, visited', stack')
        /\ \A f, m : HopPending(rest, f, m) => HopPending(stack', f, m)
        /\ \A f, m : ChildPending(rest, f, m) => ChildPending(stack', f, m)
        /\ \A f \in Hops(Rule, query, e.target) : HopPending(stack', f, e.target)
        /\ \A f \in Children(Rule, e.target) : ChildPending(stack', f, e.target)
    BY <1>9, <2>2, <2>3 DEF CallSwept
  <2>5. ChildDone(visited', e)
    BY <2>4 DEF ChildDone
  <2>6. /\ visited' \subseteq found' \cup {query.start} /\ found \subseteq found'
        /\ Deep(query) /\ Rule \in {"impact", "type_ancestors"} => found' \subseteq visited'
    BY <1>5, <1>9, <2>4
  <2> QED
    BY <1>6, <2>4, <2>5, <2>6, SweptKept
<1> QED
  BY <1>3, <1>8, <1>9

LEMMA HopSweeps ==
    ASSUME WalkType, NearInv, Follow, Swept(Rule, query, visited, found, stack),
           query.op = "dfs" => Cardinality(found') < query.limit
    PROVE  Swept(Rule, query, visited', found', stack')
<1>1. Recursing
  BY DEF Follow
<1>2. /\ query \in Query /\ query.op \in Recursive /\ stack \in Seq(FrameType) /\ stack # <<>>
      /\ Top \in FrameType /\ Top = Head(stack) /\ 1 \in DOMAIN stack /\ Top = stack[1]
      /\ graph \in Graphs /\ visited \in SUBSET Id /\ found \in SUBSET Id
      /\ Rule \in RecRule /\ Top.depth \in Nat /\ Top.depth + 1 \in Nat
      /\ Rule = "type_ancestors" <=> query.op = "hierarchy"
      /\ Rule # "type_descendants"
      /\ Rule = "dfs" <=> query.op = "dfs"
      /\ Rule = "impact" <=> query.op = "impact"
  BY <1>1, LoopContext
<1>3. PICK e \in Top.hops, rest \in Seq(FrameType) :
              /\ e \in Edge /\ rest = <<[Top EXCEPT !.hops = @ \ {e}]>> \o Tail(stack)
              /\ [Top EXCEPT !.hops = @ \ {e}] \in FrameType
              /\ \/ /\ Fresh(Other(e, Top.at)) /\ Other(e, Top.at) \in Id
                    /\ found' = found \cup {Other(e, Top.at)} /\ via' = Append(via, e)
                    /\ Call(Rule, query, Other(e, Top.at), Top.depth + 1, visited, found', rest)
                 \/ /\ ~Fresh(Other(e, Top.at))
                    /\ stack' = rest /\ UNCHANGED <<found, via, visited>>
  BY HopStep
<1> DEFINE fr == [Top EXCEPT !.hops = @ \ {e}]
           m == Other(e, Top.at)
<1>4. /\ fr \in FrameType /\ rest = <<fr>> \o Tail(stack) /\ fr.at = Top.at /\ fr.depth = Top.depth
      /\ fr.hops = Top.hops \ {e} /\ fr.children = Top.children
  BY <1>2, <1>3 DEF FrameType
<1> HIDE DEF fr
<1>5. /\ Shallow(query, visited, stack) /\ query.start \in visited
      /\ visited \subseteq found \cup {query.start}
      /\ Deep(query) /\ Rule \in {"impact", "type_ancestors"} => found \subseteq visited
  BY DEF Swept
<1>6. /\ Shallow(query, visited, rest)
      /\ \A f, x : HopPending(stack, f, x) => HopPending(rest, f, x) \/ (x = Top.at /\ f = e)
      /\ \A f, x : ChildPending(stack, f, x) => ChildPending(rest, f, x)
  <2>1. /\ stack \in Seq(FrameType) /\ stack # <<>> /\ Shallow(query, visited, stack)
        /\ fr \in FrameType /\ fr.at = Head(stack).at /\ fr.depth = Head(stack).depth
    BY <1>2, <1>4, <1>5
  <2>2. /\ Shallow(query, visited, <<fr>> \o Tail(stack))
        /\ \A f, x : HopPending(stack, f, x) => \/ HopPending(<<fr>> \o Tail(stack), f, x)
                                                \/ x = fr.at /\ f \in Head(stack).hops \ fr.hops
        /\ \A f, x : ChildPending(stack, f, x) => \/ ChildPending(<<fr>> \o Tail(stack), f, x)
                                                  \/ x = fr.at /\ f \in Head(stack).children \ fr.children
    BY <2>1, RestSweeps
  <2>3. /\ Head(stack).hops \ fr.hops \subseteq {e} /\ Head(stack).children \ fr.children = {}
        /\ fr.at = Top.at /\ rest = <<fr>> \o Tail(stack)
    BY <1>2, <1>4
  <2> QED
    BY <2>2, <2>3
<1>7. /\ Top.depth + 1 <= Cardinality(visited) /\ Cardinality(visited) \in Nat
      /\ Top.at = query.start => Top.depth = 0
  <2>1. Top.depth < Cardinality(visited) /\ (Top.at = query.start => Top.depth = 0)
    BY <1>2, <1>5 DEF Shallow
  <2>2. Cardinality(visited) \in Nat
    BY <1>2, WalkAssumption, FS_Subset, FS_CardinalityType
  <2> QED
    BY <1>2, <2>1, <2>2
<1>8. CASE ~Fresh(m) /\ stack' = rest /\ UNCHANGED <<found, visited>>
  <2>1. \/ m \notin Accepted(query)
        \/ Rule \in {"impact", "type_ancestors"} /\ m \in found
        \/ m \in visited
    BY <1>2, <1>8 DEF Fresh, Accepted, Recursive
  <2>2. Rule \in {"impact", "type_ancestors"} /\ Wide(Rule, query, Top.at) => Deep(query)
    BY <1>2 DEF Wide, Deep
  <2>3. HopDone(Rule, query, visited, found, e, Top.at)
    BY <1>5, <2>1, <2>2 DEF HopDone
  <2> HIDE DEF m
  <2> QED
    BY <1>5, <1>6, <1>8, <2>3, SweptKept
<1>9. CASE /\ Fresh(m) /\ m \in Id /\ found' = found \cup {m}
           /\ Call(Rule, query, m, Top.depth + 1, visited, found', rest)
  <2>1. ASSUME m = query.start PROVE m \in visited
    BY <1>5, <2>1
  <2> HIDE DEF m
  <2>2. CASE m \in visited
    <3>1. visited' = visited /\ stack' = rest
      BY <1>9, <2>2 DEF Call, Enters
    <3>2. HopDone(Rule, query, visited', found', e, Top.at)
      BY <1>9, <2>2, <3>1 DEF HopDone, m
    <3>3. /\ visited' \subseteq found' \cup {query.start} /\ found \subseteq found'
          /\ Deep(query) /\ Rule \in {"impact", "type_ancestors"} => found' \subseteq visited'
      BY <1>5, <1>9, <2>2, <3>1
    <3> QED
      BY <1>5, <1>6, <3>1, <3>2, <3>3, SweptKept
  <2>3. CASE m \notin visited
    <3>1. CallSwept(Rule, query, m, Top.depth + 1, visited, found', rest)
      BY <1>2, <1>6, <1>7, <1>9, <2>1, <2>3, CallSweeps
    <3>2. Wide(Rule, query, Top.at) => Enters(Rule, query, m, Top.depth + 1, visited, found')
      <4>1. Deep(query) /\ query.op # "hierarchy" => Top.depth + 1 < query.max_depth
        BY <1>2, <1>7, <1>9, <2>3, DeepEnough
      <4>2. Top.at = query.start /\ query.max_depth >= 2 => Top.depth + 1 < query.max_depth
        BY <1>2, <1>7 DEF Query
      <4> QED
        BY <1>2, <2>3, <4>1, <4>2 DEF Wide, Deep, Enters
    <3>3. /\ visited \subseteq visited' /\ visited' \subseteq visited \cup {m}
          /\ Wide(Rule, query, Top.at) => m \in visited'
          /\ Shallow(query, visited', stack')
          /\ \A f, x : HopPending(rest, f, x) => HopPending(stack', f, x)
          /\ \A f, x : ChildPending(rest, f, x) => ChildPending(stack', f, x)
          /\ m \in visited' \ visited => /\ \A f \in Hops(Rule, query, m) : HopPending(stack', f, m)
                                         /\ \A f \in Children(Rule, m) : ChildPending(stack', f, m)
      BY <3>1, <3>2 DEF CallSwept
    <3>4. HopDone(Rule, query, visited', found', e, Top.at)
      BY <1>9, <3>3 DEF HopDone, m
    <3>5. /\ visited' \subseteq found' \cup {query.start} /\ found \subseteq found'
          /\ Deep(query) /\ Rule \in {"impact", "type_ancestors"} => found' \subseteq visited'
      BY <1>5, <1>9, <3>3 DEF Wide
    <3> QED
      BY <1>6, <3>3, <3>4, <3>5, SweptKept
  <2> QED
    BY <2>2, <2>3
<1> QED
  BY <1>3, <1>8, <1>9

\* The return of the top frame.
LEMMA ReturnSweeps ==
    ASSUME WalkType, NearInv, LoopsEnd, Swept(Rule, query, visited, found, stack)
    PROVE  Swept(Rule, query, visited', found', stack')
<1>1. /\ Recursing /\ Top.hops = {} /\ Top.children = {}
      /\ stack' = Tail(stack) /\ UNCHANGED <<found, visited>>
  BY DEF LoopsEnd
<1>2. stack \in Seq(FrameType) /\ stack # <<>> /\ Top = stack[1]
  BY <1>1, LoopContext
<1>3. /\ Len(Tail(stack)) = Len(stack) - 1
      /\ \A i \in 1 .. Len(Tail(stack)) : Tail(stack)[i] = stack[i + 1]
  BY <1>2, HeadTailProperties
<1>4. /\ Len(stack) \in Nat \ {0} /\ DOMAIN stack = 1 .. Len(stack)
      /\ DOMAIN Tail(stack) = 1 .. Len(Tail(stack))
  BY <1>2, <1>3, LenProperties, EmptySeq, HeadTailProperties
<1>5. \A k \in DOMAIN stack : k = 1 \/ (k - 1 \in DOMAIN Tail(stack) /\ Tail(stack)[k - 1] = stack[k])
  BY <1>3, <1>4
<1>6. /\ \A e, m : HopPending(stack, e, m) => HopPending(Tail(stack), e, m)
      /\ \A e, m : ChildPending(stack, e, m) => ChildPending(Tail(stack), e, m)
  BY <1>1, <1>2, <1>5 DEF HopPending, ChildPending
<1>7. Shallow(query, visited, Tail(stack))
  <2>1. \A k \in DOMAIN Tail(stack) : k + 1 \in DOMAIN stack /\ Tail(stack)[k] = stack[k + 1]
    BY <1>3, <1>4
  <2> QED
    BY <2>1 DEF Swept, Shallow
<1>8. /\ visited \subseteq found \cup {query.start}
      /\ Deep(query) /\ Rule \in {"impact", "type_ancestors"} => found \subseteq visited
  BY DEF Swept
<1> QED
  BY <1>1, <1>6, <1>7, <1>8, SweptKept

\* What the answer holds of a recursive function's neighbourhood.
Covered(rule, q, nodes) == Within(rule, q, Depth(q)) \subseteq nodes \cup {q.start}

\* What visited nodes contain was visited.
LEMMA SpreadStays ==
    ASSUME graph \in Graphs, NEW rule, NEW seen \in SUBSET Id, NEW S \in SUBSET seen,
           \A n \in seen : \A e \in Children(rule, n) : e.target \in graph.nodes => e.target \in seen
    PROVE  Spread(rule, S) \subseteq seen
<1> DEFINE N == Cardinality(Id)
           g == CHOOSE f : Opening(rule, S, N, f)
<1>1. N \in Nat
  BY WalkAssumption, FS_CardinalityType
<1>2. Opening(rule, S, N, g)
  BY <1>1, OpeningExists
<1>3. Spread(rule, S) = g[N]
  BY DEF Spread, Opening, Opened
<1> HIDE DEF g, N
<1>4. \A i \in 0 .. N : g[i] = IF i = 0 THEN S ELSE Opened(rule, g[i - 1])
  BY <1>2 DEF Opening
<1> DEFINE K == {i \in Nat : i <= N => g[i] \subseteq seen}
<1>5. 0 \in K
  BY <1>1, <1>4
<1>6. ASSUME NEW i \in Nat, i \in K PROVE i + 1 \in K
  <2> SUFFICES ASSUME i + 1 <= N PROVE g[i + 1] \subseteq seen
    OBVIOUS
  <2>1. i + 1 \in 0 .. N /\ i + 1 # 0 /\ (i + 1) - 1 = i /\ i <= N
    BY <1>1
  <2>2. g[i] \subseteq seen /\ g[i + 1] = Opened(rule, g[i])
    BY <1>4, <1>6, <2>1
  <2> QED
    BY <2>2 DEF Opened
<1> HIDE DEF K
<1>7. N \in K
  BY <1>1, <1>5, <1>6, SetInduction
<1> QED
  BY <1>1, <1>3, <1>7 DEF K

\* A walk that is over covers the neighbourhood, where the depth is exact.
LEMMA SweptCovers ==
    ASSUME graph \in Graphs, NEW q \in Query, NEW rule, NEW seen \in SUBSET Id, NEW nodes,
           Swept(rule, q, seen, nodes, <<>>), Exact(q), Goes(q),
           rule = "impact" <=> q.op = "impact"
    PROVE  Covered(rule, q, nodes)
<1> DEFINE W(k) == Within(rule, q, k)
<1>1. /\ q.start \in seen /\ seen \subseteq nodes \cup {q.start}
      /\ \A n \in seen : /\ \A e \in Hops(rule, q, n) : HopDone(rule, q, seen, nodes, e, n)
                         /\ \A e \in Children(rule, n) : ChildDone(seen, e)
  BY DEF Swept, HopPending, ChildPending
<1>2. q.max_depth \in Nat /\ Cardinality(Id) \in Nat
  BY WalkAssumption, FS_CardinalityType DEF Query
<1>3. W(0) = {q.start} /\ \A k \in Nat : W(k + 1) = Spread(rule, W(k)) \cup Around(rule, q, Spread(rule, W(k)))
  BY WithinUnfolds DEF Hopped
<1>4. \A S \in SUBSET seen : Spread(rule, S) \subseteq seen
  BY <1>1, SpreadStays DEF ChildDone
<1>5. \A S \in SUBSET seen : Around(rule, q, S) \subseteq nodes \cup {q.start}
  BY <1>1 DEF Around, HopDone
<1> HIDE DEF W
<1>6. \A k \in Nat : W(k) \subseteq seen => W(k + 1) \subseteq nodes \cup {q.start}
  <2> SUFFICES ASSUME NEW k \in Nat, W(k) \subseteq seen PROVE W(k + 1) \subseteq nodes \cup {q.start}
    OBVIOUS
  <2>1. Spread(rule, W(k)) \subseteq seen
    BY <1>4
  <2>2. Around(rule, q, Spread(rule, W(k))) \subseteq nodes \cup {q.start}
    BY <1>5, <2>1
  <2> QED
    BY <1>1, <1>3, <2>1, <2>2
<1>7. W(0) \subseteq seen
  BY <1>1, <1>3
<1>8. CASE Deep(q)
  <2> DEFINE K == {k \in Nat : W(k) \subseteq seen}
  <2>1. \A S \in SUBSET seen : Around(rule, q, S) \subseteq seen
    BY <1>1, <1>8 DEF Around, HopDone, Wide
  <2>2. 0 \in K
    BY <1>7
  <2>3. ASSUME NEW k \in Nat, k \in K PROVE k + 1 \in K
    <3>1. Spread(rule, W(k)) \subseteq seen
      BY <1>4, <2>3
    <3>2. Around(rule, q, Spread(rule, W(k))) \subseteq seen
      BY <2>1, <3>1
    <3>3. W(k + 1) \subseteq seen
      BY <1>3, <2>3, <3>1, <3>2
    <3> QED
      BY <2>3, <3>3
  <2> HIDE DEF K
  <2>4. \A k \in Nat : k \in K
    BY <2>2, <2>3, SetInduction
  <2>5. Depth(q) \in Nat
    BY <1>2 DEF Depth
  <2> QED
    BY <1>1, <2>4, <2>5 DEF Covered, W, K
<1>9. CASE ~Deep(q)
  <2>1. /\ q.op # "hierarchy" /\ Depth(q) = q.max_depth /\ q.max_depth # Cardinality(Id)
        /\ q.max_depth > 0
    BY <1>2, <1>9 DEF Deep, Depth, Goes
  <2>2. q.max_depth <= IF q.op = "impact" THEN 1 ELSE 2
    BY <2>1 DEF Exact
  <2>3. CASE q.max_depth = 1
    <3>1. W(0 + 1) \subseteq nodes \cup {q.start}
      BY <1>6, <1>7
    <3> QED
      BY <2>1, <2>3, <3>1 DEF Covered, W
  <2>4. CASE q.max_depth = 2 /\ q.op # "impact"
    <3>1. Spread(rule, {q.start}) = {q.start}
      <4>1. \A n : Children(rule, n) = {}
        BY <2>4 DEF Children
      <4>2. Spread(rule, {q.start}) \subseteq {q.start}
        <5>1. {q.start} \in SUBSET Id /\ {q.start} \in SUBSET {q.start}
          BY <1>1
        <5> QED
          BY <4>1, <5>1, SpreadStays
      <4> QED
        BY <1>1, <4>2, SpreadClosed
    <3>2. Around(rule, q, {q.start}) \subseteq seen
      BY <1>1, <2>4 DEF Around, HopDone, Wide
    <3>3. W(0 + 1) \subseteq seen
      BY <1>1, <1>3, <3>1, <3>2
    <3>4. W(1 + 1) \subseteq nodes \cup {q.start}
      BY <1>6, <3>3
    <3> QED
      BY <2>1, <2>4, <3>4 DEF Covered, W
  <2> QED
    BY <1>2, <2>1, <2>2, <2>3, <2>4
<1> QED
  BY <1>8, <1>9

(* The recursive functions the query has run to their end.                 *)
Walked ==
    CASE pc = "done"   -> Fruitful(query)
      [] pc = "second" -> {RuleOf(query, "first")}
      [] OTHER         -> {}

DepthInv ==
    query.op \in Recursive /\ Known(query) =>
        /\ StartFound(query) \subseteq found
        /\ (query.op = "dfs" => Cardinality(found) < query.limit) =>
             /\ Exact(query) => \A rule \in Walked : Covered(rule, query, found)
             /\ Goes(query) /\ (pc = "first" \/ (pc = "second" /\ query.op # "hierarchy"))
                  => Swept(Rule, query, visited, found, stack)

LEMMA SameSwept ==
    ASSUME graph' = graph
    PROVE  /\ \A rule, q, seen, nodes, fs : Swept(rule, q, seen, nodes, fs)' <=> Swept(rule, q, seen, nodes, fs)
           /\ \A rule, q, nodes : Covered(rule, q, nodes)' <=> Covered(rule, q, nodes)
           /\ \A q : Known(q)' <=> Known(q)
<1>1. /\ \A rule, q, n : Hops(rule, q, n)' = Hops(rule, q, n) /\ Children(rule, n)' = Children(rule, n)
      /\ \A q : Accepted(q)' = Accepted(q)
  BY DEF Hops, AdjacentEdges, Outgoing, Incoming, Children, Accepted
<1>2. /\ \A rule, q, seen, nodes, e, n :
            HopDone(rule, q, seen, nodes, e, n)' <=> HopDone(rule, q, seen, nodes, e, n)
      /\ \A seen, e : ChildDone(seen, e)' <=> ChildDone(seen, e)
  BY <1>1 DEF HopDone, ChildDone, Wide, Deep
<1>3. \A rule, q, seen, nodes, fs : Swept(rule, q, seen, nodes, fs)' <=> Swept(rule, q, seen, nodes, fs)
  BY <1>1, <1>2 DEF Swept, HopPending, ChildPending, Shallow, Deep
<1>4. \A rule, q, nodes : Covered(rule, q, nodes)' <=> Covered(rule, q, nodes)
  BY SameDistances DEF Covered
<1>5. \A q : Known(q)' <=> Known(q)
  BY DEF Known
<1> QED
  BY <1>3, <1>4, <1>5

\* Where nothing may be entered, there is nothing to cover.
LEMMA NothingToCover ==
    ASSUME NEW q \in Query, NEW rule, NEW nodes, ~Goes(q)
    PROVE  Covered(rule, q, nodes)
<1>1. q.max_depth = 0 /\ q.op # "hierarchy" /\ Cardinality(Id) \in Nat
  BY WalkAssumption, FS_CardinalityType DEF Goes, Query
<1>2. Depth(q) = 0
  BY <1>1 DEF Depth
<1> QED
  BY <1>2, WithinUnfolds DEF Covered

\* The end of a walk.
LEMMA WalkCovers ==
    ASSUME WalkType, query \in Query, query.op \in Recursive,
           pc = "first" \/ (pc = "second" /\ query.op = "call_graph"),
           Goes(query) => Swept(Rule, query, visited, found, stack),
           stack = <<>>, Exact(query)
    PROVE  Covered(Rule, query, found)
<1>1. Rule = "impact" <=> query.op = "impact"
  BY DEF Rule, RuleOf, Recursive
<1>2. CASE Goes(query)
  BY <1>1, <1>2, SweptCovers DEF WalkType
<1>3. CASE ~Goes(query)
  BY <1>3, NothingToCover
<1> QED
  BY <1>2, <1>3

LEMMA LoopDepth ==
    ASSUME WalkType, NearInv, DepthInv, FollowChild \/ Follow \/ LoopsEnd
    PROVE  DepthInv'
<1>1. /\ Recursing /\ query.op \in Recursive /\ UNCHANGED <<graph, query, pc>>
      /\ pc \in {"first", "second"} /\ query \in Query
      /\ query.op = "hierarchy" => pc = "first"
      /\ Rule' = Rule
  BY LoopContext DEF FollowChild, Follow, LoopsEnd, Recursing, Rule, RuleOf
<1>2. found \subseteq found' /\ found' \subseteq Id /\ IsFiniteSet(found')
  <2>1. found \subseteq found'
    BY DEF FollowChild, Follow, LoopsEnd
  <2>2. found' \subseteq Id
    <3>1. WalkType'
      BY LoopTyped, RestOfWalkTyped
    <3> QED
      BY <3>1 DEF WalkType
  <2> QED
    BY <2>1, <2>2, WalkAssumption, FS_Subset
<1>3. Cardinality(found') < query.limit => Cardinality(found) < query.limit
  <2>1. Cardinality(found) <= Cardinality(found')
    BY <1>2, FS_Subset
  <2>2. Cardinality(found) \in Nat /\ Cardinality(found') \in Nat /\ query.limit \in Nat
    BY <1>1, <1>2, FS_Subset, FS_CardinalityType DEF Query
  <2> QED
    BY <2>1, <2>2
<1> SUFFICES ASSUME Known(query) PROVE DepthInv'
  BY <1>1, SameSwept DEF DepthInv
<1>4. StartFound(query) \subseteq found
  BY <1>1 DEF DepthInv
<1>5. ASSUME query.op = "dfs" => Cardinality(found') < query.limit, Exact(query), NEW rule \in Walked
      PROVE  Covered(rule, query, found')
  <2>1. Covered(rule, query, found)
    BY <1>1, <1>3, <1>5 DEF DepthInv
  <2> QED
    BY <1>2, <2>1 DEF Covered
<1>6. ASSUME query.op = "dfs" => Cardinality(found') < query.limit, Goes(query)
      PROVE  Swept(Rule, query, visited', found', stack')
  <2>1. Swept(Rule, query, visited, found, stack)
    BY <1>1, <1>3, <1>6 DEF DepthInv
  <2> QED
    BY <1>6, <2>1, ChildSweeps, HopSweeps, ReturnSweeps
<1>7. Walked' = Walked /\ (Exact(query)' <=> Exact(query)) /\ (Goes(query)' <=> Goes(query))
      /\ StartFound(query)' = StartFound(query)
  BY <1>1 DEF Walked, RuleOf, Fruitful, Rules, Exact, Depth, Goes, StartFound
<1>8. ASSUME query.op = "dfs" => Cardinality(found') < query.limit, Exact(query), NEW rule \in Walked
      PROVE  Covered(rule, query, found)'
  BY <1>1, <1>5, <1>8, SameSwept
<1>9. ASSUME query.op = "dfs" => Cardinality(found') < query.limit, Goes(query)
      PROVE  Swept(Rule, query, visited, found, stack)'
  BY <1>1, <1>6, <1>9, SameSwept
<1> QED
  BY <1>1, <1>2, <1>4, <1>7, <1>8, <1>9 DEF DepthInv

LEMMA PassDepth ==
    ASSUME WalkType, NearInv, DepthInv, SecondWalk \/ FinishWalk
    PROVE  DepthInv'
<1>1. /\ query.op \in Recursive /\ UNCHANGED <<graph, query, found>> /\ stack = <<>>
      /\ query \in Query /\ graph \in Graphs /\ found \in SUBSET Id
      /\ pc = IF query.op \in {"call_graph", "hierarchy"} /\ pc' = "done" THEN "second" ELSE "first"
      /\ pc' = "second" \/ pc' = "done"
      /\ pc' = "second" => query.op \in {"call_graph", "hierarchy"}
  BY QueryType DEF SecondWalk, FinishWalk, Recursive, WalkType
<1> SUFFICES ASSUME Known(query), query.op = "dfs" => Cardinality(found) < query.limit
             PROVE  DepthInv'
  <2>1. ASSUME Known(query) PROVE StartFound(query)' \subseteq found'
    BY <1>1, <2>1 DEF DepthInv, StartFound
  <2> QED
    BY <1>1, <2>1, SameSwept DEF DepthInv
<1>2. /\ StartFound(query) \subseteq found
      /\ Exact(query) => \A rule \in Walked : Covered(rule, query, found)
      /\ Goes(query) /\ (pc = "first" \/ (pc = "second" /\ query.op # "hierarchy"))
           => Swept(Rule, query, visited, found, stack)
  BY <1>1 DEF DepthInv
<1>3. ASSUME Exact(query), NEW rule \in Walked' PROVE Covered(rule, query, found)
  <2>1. pc = "second" /\ query.op = "hierarchy" => "type_ancestors" \in Walked
    BY DEF Walked, RuleOf
  <2>2. pc = "second" /\ query.op = "call_graph" => "callers" \in Walked
    BY DEF Walked, RuleOf
  <2>3. ~(pc = "second" /\ query.op = "hierarchy") => Covered(Rule, query, found)
    BY <1>1, <1>2, <1>3, WalkCovers
  <2>4. \/ rule = Rule /\ ~(pc = "second" /\ query.op = "hierarchy")
        \/ rule = "type_ancestors" /\ pc = "second" /\ query.op = "hierarchy"
        \/ rule = "callers" /\ pc = "second" /\ query.op = "call_graph"
    BY <1>1, <1>3 DEF Walked, Rule, RuleOf, Fruitful, Rules, Recursive
  <2> QED
    BY <1>2, <1>3, <2>1, <2>2, <2>3, <2>4
<1>4. ASSUME Goes(query), pc' = "second", query.op # "hierarchy"
      PROVE  Swept(Rule', query, visited', found, stack')
  <2>1. query.op = "call_graph" /\ Rule' = "callees" /\ RuleOf(query, "second") = "callees"
    BY <1>1, <1>4 DEF Rule, RuleOf
  <2>2. Call("callees", query, query.start, 0, {}, found, <<>>)
    BY <1>4, <2>1 DEF SecondWalk, FinishWalk
  <2>3. "callees" \in RecRule
    BY DEF RecRule
  <2> QED
    BY <1>1, <1>4, <2>1, <2>2, <2>3, StartSweeps
<1>5. /\ Exact(query)' <=> Exact(query)
      /\ Goes(query)' <=> Goes(query)
      /\ StartFound(query)' = StartFound(query)
  BY <1>1 DEF Exact, Depth, Goes, StartFound
<1>6. ASSUME Exact(query), NEW rule \in Walked' PROVE Covered(rule, query, found)'
  BY <1>1, <1>3, <1>6, SameSwept
<1>7. ASSUME Goes(query), pc' = "second", query.op # "hierarchy"
      PROVE  Swept(Rule, query, visited, found, stack)'
  BY <1>1, <1>4, <1>7, SameSwept
<1> QED
  BY <1>1, <1>2, <1>5, <1>6, <1>7 DEF DepthInv

LEMMA AskDepth ==
    ASSUME WalkType, NEW q \in Queries,
           AskUnknown(q) \/ StartBreadthFirst(q) \/ StartDepthFirst(q) \/ StartClimb(q)
    PROVE  DepthInv'
<1>1. /\ q \in Query /\ graph \in Graphs /\ query' = q /\ graph' = graph
  BY WalkAssumption DEF WalkType, AskUnknown, StartBreadthFirst, StartDepthFirst, StartClimb
<1>2. CASE ~StartDepthFirst(q)
  <2>1. ~(q.op \in Recursive /\ Known(q))
    BY <1>2 DEF AskUnknown, StartBreadthFirst, StartClimb, Recursive
  <2> QED
    BY <1>1, <2>1, SameSwept DEF DepthInv
<1>3. CASE StartDepthFirst(q)
  <2> DEFINE rule == RuleOf(q, "first")
  <2>1. /\ q.op \in Recursive /\ pc' = "first" /\ found' = StartFound(q)
        /\ Call(rule, q, q.start, 0, {}, StartFound(q), <<>>) /\ Rule' = rule
    BY <1>1, <1>3 DEF StartDepthFirst, Rule
  <2>2. /\ StartFound(q) \in SUBSET Id /\ StartFound(q) \subseteq {q.start}
        /\ StartFound(query)' = StartFound(q)
    BY <1>1 DEF StartFound, Query
  <2>3. /\ rule \in RecRule
        /\ rule \notin {"type_ancestors", "type_descendants"} => q.op # "hierarchy"
        /\ rule = "dfs" => q.op = "dfs"
    BY <2>1 DEF RuleOf, Recursive, RecRule
  <2> HIDE DEF rule
  <2>4. ASSUME q.op = "dfs" => Cardinality(found') < q.limit, Goes(q)
        PROVE  Swept(rule, q, visited', found', stack')
    BY <1>1, <2>1, <2>2, <2>3, <2>4, StartSweeps
  <2>5. ASSUME q.op = "dfs" => Cardinality(found') < q.limit, Goes(q)
        PROVE  Swept(Rule, query, visited, found, stack)'
    BY <1>1, <2>1, <2>4, <2>5, SameSwept
  <2>6. Walked' = {} /\ (Goes(query)' <=> Goes(q))
    BY <1>1, <2>1 DEF Walked, Goes
  <2> QED
    BY <1>1, <2>1, <2>2, <2>5, <2>6 DEF DepthInv
<1> QED
  BY <1>2, <1>3

LEMMA DepthKept ==
    ASSUME WalkType, NearInv, DepthInv, [Next]_wvars
    PROVE  DepthInv'
<1>1. CASE UNCHANGED wvars
  <2>1. UNCHANGED <<graph, query, pc, found, visited, stack>> /\ Rule' = Rule /\ Walked' = Walked
    BY <1>1 DEF wvars, Rule, RuleOf, Walked, Fruitful, Rules
  <2>2. /\ Exact(query)' <=> Exact(query)
        /\ Goes(query)' <=> Goes(query)
        /\ StartFound(query)' = StartFound(query)
    BY <2>1 DEF Exact, Depth, Goes, StartFound
  <2>3. /\ \A rule : Covered(rule, query, found)' <=> Covered(rule, query, found)
        /\ Swept(Rule, query, visited, found, stack)' <=> Swept(Rule, query, visited, found, stack)
        /\ Known(query)' <=> Known(query)
    BY <2>1, SameSwept
  <2> QED
    BY <2>1, <2>2, <2>3 DEF DepthInv
<1>2. ASSUME FinishSearch \/ SkipVisited \/ Visit \/ Climb \/ FinishClimb \/ Return PROVE DepthInv'
  <2>1. query'.op \notin Recursive
    BY <1>2 DEF FinishSearch, SkipVisited, Visit, Searching, Climb, FinishClimb, Return, Recursive, NoQuery
  <2> QED
    BY <2>1 DEF DepthInv
<1> QED
  BY <1>1, <1>2, StepsAre, AskDepth, LoopDepth, PassDepth DEF WalkStep

LEMMA DepthCompletes ==
    ASSUME DepthInv
    PROVE  DepthFirstComplete
<1> SUFFICES ASSUME pc = "done", Known(query), query.op \in Recursive, Exact(query),
                    query.op = "dfs" => Cardinality(found) < query.limit
             PROVE  /\ StartFound(query) \subseteq found
                    /\ \A rule \in Fruitful(query) :
                          Within(rule, query, Depth(query)) \ {query.start} \subseteq found
  BY DEF DepthFirstComplete
<1>1. StartFound(query) \subseteq found /\ \A rule \in Fruitful(query) : Covered(rule, query, found)
  BY DEF DepthInv, Walked
<1> QED
  BY <1>1 DEF Covered

\* On every graph, the depth-first queries find all there is when their depth
\* does not bind, and all within one hop, or two, when it is that small; of a
\* type hierarchy, all base classes.
THEOREM WalksComplete == Spec => []DepthFirstComplete
<1>1. Init => OnceInv /\ TreeInv /\ NearInv /\ DepthInv
  <2>1. Init => NearInv
    BY DEF Init, NearInv, RecursiveNear, SearchNear, WithinDepth, Bounded, Recursive, NoQuery
  <2>2. Init => DepthInv
    BY DEF Init, DepthInv, Recursive, NoQuery
  <2> QED
    BY <2>1, <2>2, OnceInit, TreeInit
<1>2. OnceInv /\ TreeInv /\ NearInv /\ DepthInv /\ [Next]_wvars => (OnceInv /\ TreeInv /\ NearInv /\ DepthInv)'
  BY OnceKept, TreeKept, NearKept, DepthKept DEF OnceInv
<1>3. DepthInv => DepthFirstComplete
  BY DepthCompletes
<1> QED
  BY <1>1, <1>2, <1>3, PTL DEF Spec

=============================================================================
