--------------------------- MODULE TraversalProofs ---------------------------
(***************************************************************************)
(* What holds of the graph queries on every graph, whatever cycles,        *)
(* parallel and dangling edges it has: no walk returns an edge twice, what *)
(* traverse_bfs returns is a tree over the nodes it visited, and no query  *)
(* goes further than it was asked to.  The neighbourhoods of Traversal are *)
(* recursive functions over the depth; what is proved of them here is by   *)
(* induction over sets of depths.                                          *)
(***************************************************************************)
EXTENDS Traversal, Induction, FiniteSetTheorems, SequenceTheorems

-----------------------------------------------------------------------------
(* Sequences. *)

Elements(s) == {s[i] : i \in DOMAIN s}

NoRepeat(s) == \A i, j \in DOMAIN s : s[i] = s[j] => i = j

\* Appending an element.
LEMMA Appended ==
    ASSUME NEW S, NEW s \in Seq(S), NEW x \in S
    PROVE  /\ Append(s, x) \in Seq(S) /\ Len(Append(s, x)) = Len(s) + 1
           /\ \A i \in DOMAIN s : i \in DOMAIN Append(s, x) /\ Append(s, x)[i] = s[i]
           /\ \A i \in DOMAIN Append(s, x) : i \in DOMAIN s \/ (i = Len(s) + 1 /\ Append(s, x)[i] = x)
           /\ Elements(Append(s, x)) = Elements(s) \cup {x}
           /\ Last(Append(s, x)) = x
           /\ NoRepeat(s) /\ x \notin Elements(s) => NoRepeat(Append(s, x))
<1> DEFINE t == Append(s, x)
<1>1. /\ t \in Seq(S) /\ Len(t) = Len(s) + 1
      /\ \A i \in 1 .. Len(s) : t[i] = s[i]
      /\ t[Len(s) + 1] = x
  BY AppendProperties
<1>2. DOMAIN s = 1 .. Len(s) /\ DOMAIN t = 1 .. Len(s) + 1 /\ Len(s) \in Nat
  BY <1>1, LenProperties
<1> HIDE DEF t
<1>3. /\ \A i \in DOMAIN s : i \in DOMAIN t /\ t[i] = s[i]
      /\ \A i \in DOMAIN t : i \in DOMAIN s \/ (i = Len(s) + 1 /\ t[i] = x)
  BY <1>1, <1>2
<1>4. Elements(t) = Elements(s) \cup {x}
  <2>1. Len(s) + 1 \in DOMAIN t
    BY <1>2
  <2> QED
    BY <1>1, <1>3, <2>1 DEF Elements
<1>5. Last(t) = x
  BY <1>1 DEF Last
<1>6. ASSUME NoRepeat(s), x \notin Elements(s) PROVE NoRepeat(t)
  <2> SUFFICES ASSUME NEW i \in DOMAIN t, NEW j \in DOMAIN t, t[i] = t[j] PROVE i = j
    BY DEF NoRepeat
  <2>1. \A k \in DOMAIN s : t[k] # x
    BY <1>3, <1>6 DEF Elements
  <2> QED
    BY <1>3, <1>6, <2>1 DEF NoRepeat
<1> QED
  BY <1>1, <1>3, <1>4, <1>5, <1>6 DEF t

\* Taking the head off, and concatenating.
LEMMA Dequeued ==
    ASSUME NEW S, NEW s \in Seq(S), s # <<>>
    PROVE  /\ Tail(s) \in Seq(S) /\ Head(s) \in Elements(s) /\ Head(s) \in S
           /\ Elements(Tail(s)) \subseteq Elements(s)
<1>1. /\ Tail(s) \in Seq(S) /\ Len(Tail(s)) = Len(s) - 1
      /\ \A i \in 1 .. Len(Tail(s)) : Tail(s)[i] = s[i + 1]
      /\ Head(s) \in S
  BY HeadTailProperties
<1>2. /\ Len(s) \in Nat \ {0} /\ DOMAIN s = 1 .. Len(s)
      /\ DOMAIN Tail(s) = 1 .. Len(Tail(s))
  BY <1>1, LenProperties, EmptySeq
<1>3. Head(s) = s[1]
  OBVIOUS
<1>4. \A i \in DOMAIN Tail(s) : i + 1 \in DOMAIN s /\ Tail(s)[i] = s[i + 1]
  BY <1>1, <1>2
<1> QED
  BY <1>1, <1>2, <1>3, <1>4 DEF Elements

LEMMA Concatenated ==
    ASSUME NEW S, NEW s \in Seq(S), NEW t \in Seq(S)
    PROVE  s \o t \in Seq(S) /\ Elements(s \o t) \subseteq Elements(s) \cup Elements(t)
<1>1. /\ s \o t \in Seq(S) /\ Len(s \o t) = Len(s) + Len(t)
      /\ \A i \in 1 .. Len(s) + Len(t) : (s \o t)[i] = IF i <= Len(s) THEN s[i] ELSE t[i - Len(s)]
  BY ConcatProperties
<1>2. /\ Len(s) \in Nat /\ Len(t) \in Nat
      /\ DOMAIN s = 1 .. Len(s) /\ DOMAIN t = 1 .. Len(t)
      /\ DOMAIN (s \o t) = 1 .. Len(s) + Len(t)
  BY <1>1, LenProperties
<1> SUFFICES ASSUME NEW i \in DOMAIN (s \o t)
             PROVE  (s \o t)[i] \in Elements(s) \cup Elements(t)
  BY <1>1 DEF Elements
<1>3. CASE i <= Len(s)
  BY <1>1, <1>2, <1>3 DEF Elements
<1>4. CASE i > Len(s)
  <2>1. i - Len(s) \in 1 .. Len(t) /\ (s \o t)[i] = t[i - Len(s)]
    BY <1>1, <1>2, <1>4
  <2> QED
    BY <1>2, <2>1 DEF Elements
<1> QED
  BY <1>2, <1>3, <1>4

-----------------------------------------------------------------------------
(* Edges. *)

LEMMA OtherEnd ==
    ASSUME NEW e \in Edge, NEW n \in Ends(e)
    PROVE  /\ Other(e, n) \in Id /\ n \in Id
           /\ Ends(e) = {n, Other(e, n)}
BY DEF Edge, Ends, Other

LEMMA Adjacent ==
    ASSUME graph \in Graphs, NEW n, NEW d, NEW kinds,
           NEW e \in AdjacentEdges(n, d, kinds), d \in {"outgoing", "incoming", "both"}
    PROVE  e \in graph.edges /\ e \in Edge /\ n \in Ends(e)
BY WalkAssumption DEF Graph, AdjacentEdges, Outgoing, Incoming, Ends

LEMMA EdgesFinite == IsFiniteSet(Edge)
<1> DEFINE T == (Id \X Id) \X EdgeKind
           f == [e \in Edge |-> <<<<e.source, e.target>>, e.kind>>]
<1>1. IsFiniteSet(T)
  <2>1. IsFiniteSet(Id \X Id)
    BY WalkAssumption, FS_Product
  <2>2. IsFiniteSet(EdgeKind)
    <3>1. /\ IsFiniteSet({"contains"}) /\ IsFiniteSet({"calls"}) /\ IsFiniteSet({"references"})
          /\ IsFiniteSet({"imports"}) /\ IsFiniteSet({"tests"}) /\ IsFiniteSet({"extends"})
          /\ IsFiniteSet({"implements"})
      BY FS_Singleton
    <3>2. IsFiniteSet({"contains"} \cup {"calls"}) /\ IsFiniteSet({"references"} \cup {"imports"})
      BY <3>1, FS_Union
    <3>3. IsFiniteSet({"tests"} \cup {"extends"})
      BY <3>1, FS_Union
    <3>4. IsFiniteSet(({"tests"} \cup {"extends"}) \cup {"implements"})
      BY <3>1, <3>3, FS_Union
    <3>5. IsFiniteSet(({"contains"} \cup {"calls"}) \cup ({"references"} \cup {"imports"}))
      BY <3>2, FS_Union
    <3>6. IsFiniteSet((({"contains"} \cup {"calls"}) \cup ({"references"} \cup {"imports"}))
                      \cup (({"tests"} \cup {"extends"}) \cup {"implements"}))
      BY <3>4, <3>5, FS_Union
    <3>7. EdgeKind = (({"contains"} \cup {"calls"}) \cup ({"references"} \cup {"imports"}))
                      \cup (({"tests"} \cup {"extends"}) \cup {"implements"})
      BY DEF EdgeKind
    <3> QED
      BY <3>6, <3>7
  <2> QED
    BY <2>1, <2>2, FS_Product
<1>2. f \in Injection(Edge, T)
  BY DEF Edge, Injection, IsInjective
<1> QED
  BY <1>1, <1>2, FS_Injection

-----------------------------------------------------------------------------
(* Types. *)

EntryType == [at : Id, path : Seq(Edge)]

FrameType == [at : Id, depth : Nat, children : SUBSET Edge, hops : SUBSET Edge]

WalkType ==
    /\ graph \in Graphs
    /\ query \in Queries \cup {NoQuery}
    /\ pc \in {"idle", "first", "second", "done"}
    /\ found \subseteq Id
    /\ visited \subseteq Id
    /\ via \in Seq(Edge)
    /\ pc = "idle" => query = NoQuery /\ found = {} /\ visited = {} /\ via = <<>>
                     /\ queue = <<>> /\ stack = <<>>
    /\ pc # "idle" => query \in Queries
    /\ query.op \in {"bfs", "path"} => queue \in Seq(EntryType) /\ pc \in {"first", "done"}
    /\ query.op \in Recursive => stack \in Seq(FrameType)
    /\ query.op = "ancestors" /\ pc = "first" => stack \in Seq([at : Id]) /\ stack # <<>>

\* Queries that are not known leave an empty answer.
LEMMA QueryType ==
    ASSUME WalkType, query.op # "none"
    PROVE  query \in Query /\ pc # "idle"
BY WalkAssumption DEF WalkType, NoQuery

LEMMA GraphType ==
    ASSUME graph \in Graphs
    PROVE  graph.nodes \subseteq Id /\ graph.edges \subseteq Edge
BY WalkAssumption DEF Graph

\* The recursive functions.
RecRule == {"dfs", "callers", "callees", "testers", "tested", "impact",
            "type_ancestors", "type_descendants"}

\* The frames of the recursive functions.
LEMMA FrameTyped ==
    ASSUME graph \in Graphs, NEW q \in Query, NEW rule, NEW n \in Id, NEW depth \in Nat,
           rule \in RecRule
    PROVE  /\ Frame(rule, q, n, depth) \in FrameType
           /\ Frame(rule, q, n, depth).at = n
           /\ \A e \in Frame(rule, q, n, depth).hops : e \in graph.edges /\ n \in Ends(e)
           /\ \A e \in Frame(rule, q, n, depth).children : e \in graph.edges /\ e.source = n
           /\ \A e \in Frame(rule, q, n, depth).children \cap Frame(rule, q, n, depth).hops : e.target = n
<1>1. graph.edges \subseteq Edge
  BY GraphType
<1>2. Hops(rule, q, n) \subseteq graph.edges /\ \A e \in Hops(rule, q, n) : n \in Ends(e)
  <2>1. CASE rule = "dfs"
    <3>1. Hops(rule, q, n) = AdjacentEdges(n, q.direction, q.kinds)
      BY <2>1 DEF Hops
    <3>2. q.direction \in {"outgoing", "incoming", "both"}
      BY DEF Query
    <3> QED
      BY <3>1, <3>2, Adjacent
  <2>2. CASE rule # "dfs"
    BY <2>2 DEF Hops, Incoming, Outgoing, Ends, RecRule
  <2> QED
    BY <2>1, <2>2
<1>3. Children(rule, n) \subseteq graph.edges /\ \A e \in Children(rule, n) : e.source = n
  BY DEF Children, Outgoing
<1>4. \A e \in Children(rule, n) \cap Hops(rule, q, n) : e.target = n
  BY DEF Children, Hops, Incoming
<1> QED
  BY <1>1, <1>2, <1>3, <1>4 DEF Frame, FrameType

\* A call on top of well-typed frames.
LEMMA CallTyped ==
    ASSUME graph \in Graphs, NEW q \in Query, NEW n \in Id, NEW depth \in Nat, NEW rule,
           rule \in RecRule,
           NEW seen \in SUBSET Id, NEW ns, NEW fs \in Seq(FrameType),
           Call(rule, q, n, depth, seen, ns, fs)
    PROVE  /\ stack' \in Seq(FrameType) /\ visited' \subseteq Id
           /\ \/ /\ Enters(rule, q, n, depth, seen, ns)
                 /\ visited' = seen \cup {n} /\ n \notin seen
                 /\ stack' = <<Frame(rule, q, n, depth)>> \o fs
                 /\ Elements(stack') \subseteq {Frame(rule, q, n, depth)} \cup Elements(fs)
              \/ /\ ~Enters(rule, q, n, depth, seen, ns)
                 /\ visited' = seen /\ stack' = fs
<1> DEFINE fr == Frame(rule, q, n, depth)
<1>1. fr \in FrameType
  BY FrameTyped
<1> HIDE DEF fr
<1>2. <<fr>> \in Seq(FrameType) /\ Elements(<<fr>>) = {fr}
  BY <1>1 DEF Elements
<1>3. <<fr>> \o fs \in Seq(FrameType) /\ Elements(<<fr>> \o fs) \subseteq {fr} \cup Elements(fs)
  BY <1>2, Concatenated
<1> QED
  BY <1>3 DEF Call, Enters, fr

\* The rules of the recursive queries.
LEMMA RuleTyped ==
    ASSUME NEW q, q.op \in Recursive, NEW pass
    PROVE  RuleOf(q, pass) \in RecRule
BY DEF Recursive, RuleOf, RecRule

\* Taking an edge off the loops of the top frame.
LEMMA RestTyped ==
    ASSUME NEW fs \in Seq(FrameType), fs # <<>>, NEW fr \in FrameType, fr.at = Head(fs).at
    PROVE  /\ <<fr>> \o Tail(fs) \in Seq(FrameType)
           /\ Len(<<fr>> \o Tail(fs)) = Len(fs)
           /\ \A i \in DOMAIN fs : /\ i \in DOMAIN (<<fr>> \o Tail(fs))
                                   /\ (<<fr>> \o Tail(fs))[i] = IF i = 1 THEN fr ELSE fs[i]
           /\ DOMAIN (<<fr>> \o Tail(fs)) = DOMAIN fs
<1> DEFINE r == <<fr>> \o Tail(fs)
<1>1. /\ Tail(fs) \in Seq(FrameType) /\ Len(Tail(fs)) = Len(fs) - 1
      /\ \A i \in 1 .. Len(Tail(fs)) : Tail(fs)[i] = fs[i + 1]
  BY HeadTailProperties
<1>2. Len(fs) \in Nat \ {0} /\ DOMAIN fs = 1 .. Len(fs)
  BY LenProperties, EmptySeq
<1>3. <<fr>> \in Seq(FrameType) /\ Len(<<fr>>) = 1 /\ <<fr>>[1] = fr
  OBVIOUS
<1>4. /\ r \in Seq(FrameType) /\ Len(r) = Len(<<fr>>) + Len(Tail(fs))
      /\ \A i \in 1 .. Len(<<fr>>) + Len(Tail(fs)) :
            r[i] = IF i <= Len(<<fr>>) THEN <<fr>>[i] ELSE Tail(fs)[i - Len(<<fr>>)]
  BY <1>1, <1>3, ConcatProperties
<1>5. Len(r) = Len(fs) /\ DOMAIN r = 1 .. Len(r)
  BY <1>1, <1>2, <1>3, <1>4, LenProperties
<1> HIDE DEF r
<1>6. ASSUME NEW i \in DOMAIN fs PROVE r[i] = IF i = 1 THEN fr ELSE fs[i]
  <2>1. CASE i = 1
    BY <1>1, <1>2, <1>3, <1>4, <2>1
  <2>2. CASE i # 1
    <3>1. i - 1 \in 1 .. Len(Tail(fs)) /\ (i - 1) + 1 = i
      BY <1>1, <1>2, <2>2
    <3>2. r[i] = Tail(fs)[i - 1]
      BY <1>1, <1>2, <1>3, <1>4, <2>2
    <3> QED
      BY <1>1, <2>2, <3>1, <3>2
  <2> QED
    BY <2>1, <2>2
<1> QED
  BY <1>2, <1>4, <1>5, <1>6 DEF r

\* The actions, one by one.
WalkStep ==
    \/ \E q \in Queries : AskUnknown(q) \/ StartBreadthFirst(q) \/ StartDepthFirst(q) \/ StartClimb(q)
    \/ FinishSearch \/ SkipVisited \/ Visit
    \/ FollowChild \/ Follow \/ LoopsEnd \/ SecondWalk \/ FinishWalk \/ Climb \/ FinishClimb
    \/ Return

LEMMA StepsAre ==
    ASSUME [Next]_wvars
    PROVE  WalkStep \/ UNCHANGED wvars
BY DEF Next, Ask, BreadthFirstStep, DepthFirstStep, WalkStep

\* The edges a breadth-first visit follows, and the entries it makes of them.
LEMMA OrderTyped ==
    ASSUME graph \in Graphs, query \in Query, query.op \in {"bfs", "path"},
           NEW n \in Id, NEW s \in Orders(n)
    PROVE  /\ s \in Seq(Edge)
           /\ \A i \in DOMAIN s : /\ s[i] \in Leads(n) /\ n \in Ends(s[i])
                                  /\ Other(s[i], n) \notin visited \cup {n}
                                  /\ query.op = "path" => s[i].target = Other(s[i], n)
<1>1. \A e \in Leads(n) : /\ e \in Edge /\ n \in Ends(e)
                          /\ Other(e, n) \notin visited \cup {n}
                          /\ query.op = "path" => e.target = Other(e, n)
  <2>1. CASE query.op = "path"
    BY <2>1, GraphType DEF Leads, Outgoing, Other, Ends
  <2>2. CASE query.op # "path"
    <3>1. query.direction \in {"outgoing", "incoming", "both"}
      BY DEF Query
    <3>2. \A e \in AdjacentEdges(n, query.direction, query.kinds) : e \in Edge /\ n \in Ends(e)
      BY <3>1, Adjacent
    <3> QED
      BY <2>2, <3>2 DEF Leads
  <2> QED
    BY <2>1, <2>2
<1>2. IsFiniteSet(Leads(n)) /\ Cardinality(Leads(n)) \in Nat
  BY <1>1, EdgesFinite, FS_Subset, FS_CardinalityType
<1>3. s \in SetToSeqs(Leads(n))
  BY DEF Orders, Sorted
<1>4. s \in [1 .. Cardinality(Leads(n)) -> Leads(n)]
  BY <1>3 DEF SetToSeqs
<1>5. s \in Seq(Edge)
  BY <1>1, <1>2, <1>4
<1> QED
  BY <1>1, <1>4, <1>5

LEMMA EntriesTyped ==
    ASSUME NEW n \in Id, NEW path \in Seq(Edge), NEW s \in Seq(Edge),
           \A i \in DOMAIN s : n \in Ends(s[i])
    PROVE  /\ [i \in DOMAIN s |-> Entry(Other(s[i], n), Append(path, s[i]))] \in Seq(EntryType)
           /\ Elements([i \in DOMAIN s |-> Entry(Other(s[i], n), Append(path, s[i]))])
                = {Entry(Other(s[i], n), Append(path, s[i])) : i \in DOMAIN s}
<1> DEFINE t == [i \in DOMAIN s |-> Entry(Other(s[i], n), Append(path, s[i]))]
<1>1. DOMAIN s = 1 .. Len(s) /\ Len(s) \in Nat
  BY LenProperties
<1>2. ASSUME NEW i \in DOMAIN s PROVE t[i] \in EntryType
  <2>1. s[i] \in Edge
    BY <1>1, ElementOfSeq
  <2>2. Append(path, s[i]) \in Seq(Edge)
    BY <2>1, Appended
  <2>3. Other(s[i], n) \in Id
    BY <2>1, OtherEnd
  <2> QED
    BY <2>2, <2>3 DEF EntryType, Entry
<1>3. t \in Seq(EntryType)
  BY <1>1, <1>2
<1> QED
  BY <1>3 DEF Elements

\* x is an entry that a visit of n, reached along path, makes.
Made(x, n, path) ==
    /\ query.op = "bfs" => Len(path) < query.max_depth
    /\ \E e \in Leads(n) :
         /\ e \in Edge /\ n \in Ends(e)
         /\ Other(e, n) \notin visited'
         /\ query.op = "path" => e.target = Other(e, n)
         /\ x = Entry(Other(e, n), Append(path, e))

LEMMA MadeBy ==
    ASSUME NEW x, NEW n, NEW path, Made(x, n, path)
    PROVE  \E e \in Edge : /\ n \in Ends(e)
                           /\ Other(e, n) \notin visited'
                           /\ query.op = "path" => e.target = Other(e, n)
                           /\ x = Entry(Other(e, n), Append(path, e))
BY DEF Made

\* What a visit does to the queue: the entries left, and one for each edge
\* that leads on.
LEMMA VisitEntries ==
    ASSUME WalkType, Visit
    PROVE  /\ query \in Query /\ query.op \in {"bfs", "path"} /\ queue \in Seq(EntryType)
           /\ Head(queue) \in Elements(queue) /\ Head(queue) \in EntryType
           /\ visited' = visited \cup {Head(queue).at} /\ Head(queue).at \notin visited
           /\ queue' \in Seq(EntryType)
           /\ found' \subseteq Id
           /\ \A x \in Elements(queue') :
                 x \in Elements(Tail(queue)) \/ Made(x, Head(queue).at, Head(queue).path)
<1> DEFINE n == Head(queue).at
           path == Head(queue).path
           new(s) == [i \in DOMAIN s |-> Entry(Other(s[i], n), Append(path, s[i]))]
<1>1. query \in Query /\ query.op \in {"bfs", "path"} /\ queue \in Seq(EntryType) /\ queue # <<>>
  BY QueryType DEF Visit, Searching, Reached, WalkType
<1>2. /\ Head(queue) \in Elements(queue) /\ Head(queue) \in EntryType
      /\ Tail(queue) \in Seq(EntryType)
  BY <1>1, Dequeued
<1>3. n \in Id /\ path \in Seq(Edge)
  BY <1>2 DEF EntryType
<1>4. visited' = visited \cup {n} /\ n \notin visited
  BY DEF Visit
<1>5. \/ queue' = Tail(queue) /\ found' = found
      \/ /\ \E s \in Orders(n) : queue' = Tail(queue) \o new(s)
         /\ found' = found \/ found' = found \cup {Other(e, n) : e \in Leads(n)}
         /\ query.op = "bfs" => Len(path) < query.max_depth
  <2>1. Len(path) \in Nat /\ query.max_depth \in Nat
    BY <1>1, <1>3, LenProperties DEF Query
  <2>2. query.op = "bfs" /\ ~(Len(path) >= query.max_depth) => Len(path) < query.max_depth
    BY <2>1
  <2> QED
    BY <2>2 DEF Visit, Enqueue
<1>6. \A e \in Leads(n) : Other(e, n) \in Id
  <2>1. query.direction \in {"outgoing", "incoming", "both"}
    BY <1>1 DEF Query
  <2>2. \A e \in Leads(n) : e \in Edge
    BY <2>1, <1>1, GraphType, Adjacent DEF Leads, Outgoing, WalkType
  <2> QED
    BY <2>2 DEF Edge, Other
<1> HIDE DEF n, path
<1>7. CASE queue' = Tail(queue) /\ found' = found
  BY <1>1, <1>2, <1>4, <1>7 DEF n, WalkType
<1>8. ASSUME NEW s \in Orders(n), queue' = Tail(queue) \o new(s),
             found' = found \/ found' = found \cup {Other(e, n) : e \in Leads(n)},
             query.op = "bfs" => Len(path) < query.max_depth
      PROVE  /\ queue' \in Seq(EntryType)
             /\ \A x \in Elements(queue') : x \in Elements(Tail(queue)) \/ Made(x, n, path)
  <2>1. /\ s \in Seq(Edge)
        /\ \A i \in DOMAIN s : /\ s[i] \in Leads(n) /\ n \in Ends(s[i])
                               /\ Other(s[i], n) \notin visited \cup {n}
                               /\ query.op = "path" => s[i].target = Other(s[i], n)
    BY <1>1, <1>3, OrderTyped DEF WalkType
  <2>2. /\ new(s) \in Seq(EntryType)
        /\ Elements(new(s)) = {Entry(Other(s[i], n), Append(path, s[i])) : i \in DOMAIN s}
    BY <1>3, <2>1, EntriesTyped
  <2> HIDE DEF new
  <2>3. queue' \in Seq(EntryType) /\ Elements(queue') \subseteq Elements(Tail(queue)) \cup Elements(new(s))
    BY <1>2, <1>8, <2>2, Concatenated
  <2>4. \A i \in DOMAIN s : s[i] \in Edge
    BY <2>1, LenProperties, ElementOfSeq
  <2> QED
    BY <1>4, <1>8, <2>1, <2>2, <2>3, <2>4 DEF Made
<1>9. found' \subseteq Id
  BY <1>5, <1>6 DEF WalkType
<1> QED
  BY <1>1, <1>2, <1>4, <1>5, <1>7, <1>8, <1>9 DEF n, path

\* The top frame of a recursive walk.
LEMMA TopTyped ==
    ASSUME WalkType, Recursing
    PROVE  /\ query \in Query /\ query.op \in Recursive /\ stack \in Seq(FrameType) /\ stack # <<>>
           /\ Top \in FrameType /\ 1 \in DOMAIN stack /\ Top = stack[1]
           /\ Tail(stack) \in Seq(FrameType)
<1>1. /\ query \in Query /\ query.op \in Recursive /\ stack \in Seq(FrameType) /\ stack # <<>>
  BY QueryType DEF Recursing, WalkType, Recursive
<1>2. Tail(stack) \in Seq(FrameType) /\ Top \in FrameType
  BY <1>1, Dequeued DEF Top
<1>3. 1 \in DOMAIN stack /\ Top = stack[1]
  BY <1>1, LenProperties, EmptySeq DEF Top
<1> QED
  BY <1>1, <1>2, <1>3

\* What the two loops do: they take an edge off the top frame, and either
\* follow it into a call, or do not.
LEMMA ChildStep ==
    ASSUME WalkType, FollowChild
    PROVE  \E e \in Top.children, rest \in Seq(FrameType) :
              /\ e \in Edge /\ rest = <<[Top EXCEPT !.children = @ \ {e}]>> \o Tail(stack)
              /\ [Top EXCEPT !.children = @ \ {e}] \in FrameType
              /\ \/ /\ e.target \in Id \ visited /\ e.target \in graph.nodes
                    /\ found' = found \cup {e.target} /\ via' = Append(via, e)
                    /\ Call(Rule, query, e.target, Top.depth, visited, found', rest)
                 \/ /\ e.target \notin graph.nodes \ visited
                    /\ stack' = rest /\ UNCHANGED <<found, via, visited>>
<1>1. Top \in FrameType /\ Tail(stack) \in Seq(FrameType) /\ stack \in Seq(FrameType) /\ stack # <<>>
  BY TopTyped DEF FollowChild
<1>2. PICK e \in Top.children :
         LET rest == <<[Top EXCEPT !.children = @ \ {e}]>> \o Tail(stack)
         IN  IF e.target \in graph.nodes \ visited
             THEN /\ found' = found \cup {e.target}
                  /\ via' = Append(via, e)
                  /\ Call(Rule, query, e.target, Top.depth, visited, found', rest)
             ELSE stack' = rest /\ UNCHANGED <<found, via, visited>>
  BY DEF FollowChild
<1> DEFINE fr == [Top EXCEPT !.children = @ \ {e}]
           rest == <<fr>> \o Tail(stack)
<1>3. e \in Edge /\ fr \in FrameType /\ fr.at = Top.at
  BY <1>1 DEF FrameType
<1>4. rest \in Seq(FrameType)
  <2> HIDE DEF fr
  <2> QED
    BY <1>1, <1>3, RestTyped DEF Top
<1>5. graph.nodes \subseteq Id
  BY GraphType DEF WalkType
<1>6. \/ /\ e.target \in Id \ visited /\ e.target \in graph.nodes
         /\ found' = found \cup {e.target} /\ via' = Append(via, e)
         /\ Call(Rule, query, e.target, Top.depth, visited, found', rest)
      \/ /\ e.target \notin graph.nodes \ visited
         /\ stack' = rest /\ UNCHANGED <<found, via, visited>>
  BY <1>2, <1>5
<1> HIDE DEF rest
<1> QED
  BY <1>3, <1>4, <1>6 DEF rest

LEMMA HopStep ==
    ASSUME WalkType, Follow
    PROVE  \E e \in Top.hops, rest \in Seq(FrameType) :
              /\ e \in Edge /\ rest = <<[Top EXCEPT !.hops = @ \ {e}]>> \o Tail(stack)
              /\ [Top EXCEPT !.hops = @ \ {e}] \in FrameType
              /\ \/ /\ Fresh(Other(e, Top.at)) /\ Other(e, Top.at) \in Id
                    /\ found' = found \cup {Other(e, Top.at)} /\ via' = Append(via, e)
                    /\ Call(Rule, query, Other(e, Top.at), Top.depth + 1, visited, found', rest)
                 \/ /\ ~Fresh(Other(e, Top.at))
                    /\ stack' = rest /\ UNCHANGED <<found, via, visited>>
<1>1. Top \in FrameType /\ Tail(stack) \in Seq(FrameType) /\ stack \in Seq(FrameType) /\ stack # <<>>
  BY TopTyped DEF Follow
<1>2. PICK e \in Top.hops :
         LET m == Other(e, Top.at)
             rest == <<[Top EXCEPT !.hops = @ \ {e}]>> \o Tail(stack)
         IN  IF Fresh(m)
             THEN /\ found' = found \cup {m}
                  /\ via' = Append(via, e)
                  /\ Call(Rule, query, m, Top.depth + 1, visited, found', rest)
             ELSE stack' = rest /\ UNCHANGED <<found, via, visited>>
  BY DEF Follow
<1> DEFINE fr == [Top EXCEPT !.hops = @ \ {e}]
           rest == <<fr>> \o Tail(stack)
<1>3. e \in Edge /\ fr \in FrameType /\ fr.at = Top.at
  BY <1>1 DEF FrameType
<1>4. rest \in Seq(FrameType)
  <2> HIDE DEF fr
  <2> QED
    BY <1>1, <1>3, RestTyped DEF Top
<1>5. Other(e, Top.at) \in Id
  BY <1>1, <1>3 DEF Other, Edge, FrameType
<1>6. \/ /\ Fresh(Other(e, Top.at))
         /\ found' = found \cup {Other(e, Top.at)} /\ via' = Append(via, e)
         /\ Call(Rule, query, Other(e, Top.at), Top.depth + 1, visited, found', rest)
      \/ /\ ~Fresh(Other(e, Top.at))
         /\ stack' = rest /\ UNCHANGED <<found, via, visited>>
  BY <1>2
<1> HIDE DEF rest
<1> QED
  BY <1>3, <1>4, <1>5, <1>6 DEF rest

\* Every step keeps the types.
LEMMA AsksTyped ==
    ASSUME WalkType, NEW q \in Queries,
           AskUnknown(q) \/ StartBreadthFirst(q) \/ StartDepthFirst(q) \/ StartClimb(q)
    PROVE  WalkType'
<1>1. q \in Query /\ q.op # "none" /\ StartFound(q) \subseteq Id
  BY WalkAssumption DEF Query, Op, StartFound
<1>2. CASE AskUnknown(q)
  <2>1. q.op # "ancestors"
    BY <1>2 DEF AskUnknown, Known
  <2>2. <<>> \in Seq(EntryType) /\ <<>> \in Seq(FrameType)
    OBVIOUS
  <2>3. queue' = <<>> /\ stack' = <<>>
    BY <1>2 DEF AskUnknown, WalkType
  <2> QED
    BY <1>1, <1>2, <2>1, <2>2, <2>3 DEF AskUnknown, WalkType
<1>3. CASE StartBreadthFirst(q)
  <2>1. <<Entry(q.start, <<>>)>> \in Seq(EntryType)
    BY <1>1 DEF Query, Entry, EntryType
  <2> QED
    BY <1>1, <1>3, <2>1 DEF StartBreadthFirst, WalkType, Recursive
<1>4. CASE StartDepthFirst(q)
  <2>1. stack' \in Seq(FrameType) /\ visited' \subseteq Id
    <3>1. q.start \in Id /\ graph \in Graphs /\ q.op \in Recursive
      BY <1>1, <1>4 DEF Query, WalkType, StartDepthFirst
    <3>2. <<>> \in Seq(FrameType) /\ {} \in SUBSET Id
      OBVIOUS
    <3>3. Call(RuleOf(q, "first"), q, q.start, 0, {}, StartFound(q), <<>>)
      BY <1>4 DEF StartDepthFirst
    <3> QED
      BY <1>1, <3>1, <3>2, <3>3, RuleTyped, CallTyped
  <2> QED
    BY <1>1, <1>4, <2>1 DEF StartDepthFirst, WalkType, Recursive
<1>5. CASE StartClimb(q)
  <2>1. <<[at |-> q.start]>> \in Seq([at : Id]) /\ <<[at |-> q.start]>> # <<>>
    BY <1>1 DEF Query
  <2> QED
    BY <1>1, <1>5, <2>1 DEF StartClimb, WalkType, Recursive
<1> QED
  BY <1>2, <1>3, <1>4, <1>5

LEMMA SearchTyped ==
    ASSUME WalkType, FinishSearch \/ SkipVisited \/ Visit
    PROVE  WalkType'
<1>1. query \in Query /\ query.op \in {"bfs", "path"} /\ queue \in Seq(EntryType) /\ pc = "first"
  BY QueryType DEF FinishSearch, SkipVisited, Visit, Searching, WalkType
<1>2. queue # <<>> => /\ Head(queue) \in EntryType /\ Tail(queue) \in Seq(EntryType)
                      /\ Head(queue).at \in Id /\ Head(queue).path \in Seq(Edge)
  <2> SUFFICES ASSUME queue # <<>>
               PROVE  Head(queue) \in EntryType /\ Tail(queue) \in Seq(EntryType)
    BY DEF EntryType
  <2> QED
    BY <1>1, Dequeued
<1>3. CASE FinishSearch
  <2>1. via' \in Seq(Edge) /\ found' \subseteq Id
    <3>1. CASE query.op = "path" /\ queue # <<>>
      <4>1. ToSet(Head(queue).path) \subseteq Edge
        BY <1>2, <3>1 DEF ToSet
      <4> QED
        BY <1>1, <1>2, <1>3, <3>1, <4>1 DEF FinishSearch, Edge, Query
    <3>2. CASE ~(query.op = "path" /\ queue # <<>>)
      BY <1>3, <3>2 DEF FinishSearch, WalkType
    <3> QED
      BY <3>1, <3>2
  <2> QED
    BY <1>1, <1>3, <2>1 DEF FinishSearch, WalkType, Recursive
<1>4. CASE SkipVisited
  <2>1. queue # <<>>
    BY <1>4 DEF SkipVisited, Reached
  <2> QED
    BY <1>1, <1>2, <1>4, <2>1 DEF SkipVisited, WalkType, Recursive
<1>5. CASE Visit
  <2>1. queue # <<>> /\ visited' \subseteq Id /\ queue' \in Seq(EntryType) /\ found' \subseteq Id
    BY <1>2, <1>5, VisitEntries DEF Visit, Reached, WalkType
  <2>2. via' \in Seq(Edge)
    <3>1. CASE query.op = "bfs" /\ Head(queue).path # <<>>
      <4>1. Last(Head(queue).path) \in Edge
        BY <1>2, <2>1, <3>1 DEF Last
      <4>2. via' = Append(via, Last(Head(queue).path))
        BY <1>5, <3>1 DEF Visit
      <4> QED
        BY <4>1, <4>2, Appended DEF WalkType
    <3>2. CASE ~(query.op = "bfs" /\ Head(queue).path # <<>>)
      BY <1>5, <3>2 DEF Visit, WalkType
    <3> QED
      BY <3>1, <3>2
  <2> QED
    BY <1>1, <1>5, <2>1, <2>2 DEF Visit, WalkType, Recursive
<1> QED
  BY <1>3, <1>4, <1>5

LEMMA LoopTyped ==
    ASSUME WalkType, FollowChild \/ Follow
    PROVE  WalkType'
<1>1. /\ query \in Query /\ query.op \in Recursive /\ pc \in {"first", "second"} /\ Top \in FrameType
      /\ graph \in Graphs /\ via \in Seq(Edge) /\ visited \in SUBSET Id /\ found \subseteq Id
  BY TopTyped DEF FollowChild, Follow, Recursing, WalkType
<1>2. Rule \in RecRule
  BY <1>1, RuleTyped DEF Rule
<1>3. \E rest \in Seq(FrameType) :
         \/ \E e \in Edge, m \in Id, d \in Nat :
               /\ found' = found \cup {m} /\ via' = Append(via, e)
               /\ Call(Rule, query, m, d, visited, found', rest)
         \/ stack' = rest /\ UNCHANGED <<found, via, visited>>
  <2>1. CASE FollowChild
    <3>1. Top.depth \in Nat
      BY <1>1 DEF FrameType
    <3> QED
      BY <2>1, <3>1, ChildStep
  <2>2. CASE Follow
    <3>1. Top.depth + 1 \in Nat
      BY <1>1 DEF FrameType
    <3> QED
      BY <2>2, <3>1, HopStep
  <2> QED
    BY <2>1, <2>2
<1>4. PICK rest \in Seq(FrameType) :
         \/ \E e \in Edge, m \in Id, d \in Nat :
               /\ found' = found \cup {m} /\ via' = Append(via, e)
               /\ Call(Rule, query, m, d, visited, found', rest)
         \/ stack' = rest /\ UNCHANGED <<found, via, visited>>
  BY <1>3
<1>5. /\ stack' \in Seq(FrameType) /\ visited' \subseteq Id /\ found' \subseteq Id
      /\ via' \in Seq(Edge)
  <2>1. ASSUME NEW e \in Edge, NEW m \in Id, NEW d \in Nat,
               found' = found \cup {m}, via' = Append(via, e),
               Call(Rule, query, m, d, visited, found', rest)
        PROVE  /\ stack' \in Seq(FrameType) /\ visited' \subseteq Id /\ found' \subseteq Id
               /\ via' \in Seq(Edge)
    <3>1. stack' \in Seq(FrameType) /\ visited' \subseteq Id
      BY <1>1, <1>2, <2>1, CallTyped
    <3>2. via' \in Seq(Edge)
      BY <1>1, <2>1, Appended
    <3> QED
      BY <1>1, <2>1, <3>1, <3>2
  <2> QED
    BY <1>1, <1>4, <2>1
<1>6. UNCHANGED <<graph, query, pc>>
  BY DEF FollowChild, Follow
<1> QED
  BY <1>1, <1>5, <1>6 DEF WalkType, Recursive

LEMMA RestOfWalkTyped ==
    ASSUME WalkType, LoopsEnd \/ SecondWalk \/ FinishWalk \/ Climb \/ FinishClimb \/ Return
    PROVE  WalkType'
<1>1. CASE LoopsEnd
  <2>1. stack' \in Seq(FrameType) /\ query.op \in Recursive /\ pc \in {"first", "second"}
    BY <1>1, TopTyped DEF LoopsEnd, Recursing
  <2> QED
    BY <1>1, <2>1 DEF LoopsEnd, WalkType, Recursive
<1>2. CASE SecondWalk
  <2>1. query \in Query /\ query.op \in Recursive /\ query.start \in Id /\ graph \in Graphs
    BY <1>2, QueryType DEF SecondWalk, Recursive, WalkType, Query
  <2> DEFINE seen == IF query.op = "call_graph" THEN {} ELSE visited
  <2>2. <<>> \in Seq(FrameType) /\ seen \in SUBSET Id
    BY DEF WalkType
  <2>3. Call(RuleOf(query, "second"), query, query.start, 0, seen, found, <<>>)
    BY <1>2 DEF SecondWalk
  <2> HIDE DEF seen
  <2>4. stack' \in Seq(FrameType) /\ visited' \subseteq Id
    BY <2>1, <2>2, <2>3, RuleTyped, CallTyped
  <2> QED
    BY <1>2, <2>1, <2>4 DEF SecondWalk, WalkType, Recursive
<1>3. CASE FinishWalk
  BY <1>3 DEF FinishWalk, WalkType, Recursive
<1>4. CASE Climb
  <2>1. graph.nodes \subseteq Id /\ graph.edges \subseteq Edge /\ via \in Seq(Edge)
    BY GraphType DEF WalkType
  <2>2. Top.at \in Id
    <3>1. stack \in Seq([at : Id]) /\ stack # <<>>
      BY <1>4 DEF Climb, WalkType
    <3>2. Top \in [at : Id]
      BY <3>1, Dequeued DEF Top
    <3> QED
      BY <3>2
  <2>3. PICK e \in Incoming(Top.at, {"contains"}) :
           /\ e.source \in graph.nodes /\ found' = found \cup {e.source}
           /\ via' = Append(via, e) /\ stack' = <<[at |-> e.source]>>
    BY <1>4 DEF Climb
  <2>4. e \in Edge /\ e.source \in Id
    BY <2>1, <2>3 DEF Incoming
  <2>5. via' \in Seq(Edge) /\ stack' \in Seq([at : Id]) /\ stack' # <<>>
    BY <2>1, <2>3, <2>4, Appended
  <2> QED
    BY <1>4, <2>2, <2>3, <2>4, <2>5 DEF Climb, WalkType, Recursive
<1>5. CASE FinishClimb
  <2>1. Top.at \in Id
    BY <1>5, Dequeued DEF FinishClimb, Top, WalkType
  <2> QED
    BY <1>5, <2>1 DEF FinishClimb, WalkType, Recursive
<1>6. CASE Return
  BY <1>6 DEF Return, WalkType, NoQuery, Recursive
<1> QED
  BY <1>1, <1>2, <1>3, <1>4, <1>5, <1>6

LEMMA TypeKept ==
    ASSUME WalkType, [Next]_wvars
    PROVE  WalkType'
<1>1. CASE UNCHANGED wvars
  BY <1>1 DEF wvars, WalkType
<1> QED
  BY <1>1, StepsAre, AsksTyped, SearchTyped, LoopTyped, RestOfWalkTyped DEF WalkStep

LEMMA TypeInit == Init => WalkType
BY DEF Init, WalkType, NoQuery, Recursive

-----------------------------------------------------------------------------
(* No edge twice.                                                          *)
(*                                                                         *)
(* The recursive functions: an edge that was recorded has an end that was  *)
(* visited and whose frame, if it is still active, has left that edge      *)
(* behind.  A loop that came to the edge again would do so from its other  *)
(* end, towards a node that is visited: and those it does not follow.      *)

\* No frame of n among fs has the edge e left.
Spent(fs, e, n) == \A k \in DOMAIN fs : fs[k].at = n => e \notin fs[k].hops \cup fs[k].children

\* The frames fs of a walk that has visited the nodes in seen.
Frames(fs, seen) ==
    /\ \A k \in DOMAIN fs :
         /\ fs[k].at \in seen
         /\ \A e \in fs[k].hops : fs[k].at \in Ends(e)
         /\ \A e \in fs[k].children : e.source = fs[k].at
         /\ \A e \in fs[k].children \cap fs[k].hops : e.target = fs[k].at
    /\ \A j, k \in DOMAIN fs : fs[j].at = fs[k].at => j = k

RecursiveInv ==
    query.op \in Recursive =>
        /\ Frames(stack, visited)
        /\ query.op \in {"impact", "hierarchy"} => visited \subseteq found
        /\ query.op = "hierarchy" /\ pc # "done" => query.start \in found
        /\ query.op # "call_graph" => \A i \in DOMAIN via : \E n \in visited \cap Ends(via[i]) : Spent(stack, via[i], n)

(* The climb: an edge recorded led from a node that was visited.           *)
ClimbInv == query.op = "ancestors" => \A i \in DOMAIN via : via[i].target \in visited

(* Breadth first: the last edge of an entry joins its node to one that was *)
(* visited, an edge recorded joins two of them.                            *)
SearchInv ==
    query.op = "bfs" =>
        /\ \A x \in Elements(queue) :
              x.path # <<>> => /\ x.at \in Ends(Last(x.path))
                               /\ Other(Last(x.path), x.at) \in visited \ {x.at}
        /\ \A i \in DOMAIN via : Ends(via[i]) \subseteq visited

(* find_path: the nodes along the path of an entry are different, and all  *)
(* but the last were visited.                                              *)
PathInv ==
    query.op = "path" =>
        /\ pc = "first" => via = <<>>
        /\ \A x \in Elements(queue) :
              /\ \A i \in DOMAIN x.path : x.path[i].target \in visited \/ (i = Len(x.path) /\ x.path[i].target = x.at)
              /\ \A i, j \in DOMAIN x.path : x.path[i].target = x.path[j].target => i = j

OnceInv ==
    /\ WalkType
    /\ query.op # "call_graph" => NoRepeat(via)
    /\ RecursiveInv /\ ClimbInv /\ SearchInv /\ PathInv

(* The edges of traverse_bfs, as a tree.                                   *)
Before(n, s, i) == {n} \cup UNION {Ends(s[j]) : j \in 1 .. i - 1}

TreeInv ==
    query.op = "bfs" =>
        \/ visited = {} /\ via = <<>> /\ queue \in {<<>>, <<Entry(query.start, <<>>)>>}
        \/ /\ visited # {}
           /\ \A x \in Elements(queue) : x.path # <<>>
           /\ Before(query.start, via, Len(via) + 1) = visited
           /\ Len(via) = Cardinality(visited) - 1
           /\ \A i \in DOMAIN via : Cardinality(Ends(via[i]) \cap Before(query.start, via, i)) = 1

LEMMA Pushed ==
    ASSUME NEW fr \in FrameType, NEW fs \in Seq(FrameType)
    PROVE  /\ DOMAIN (<<fr>> \o fs) = 1 .. Len(fs) + 1 /\ Len(fs) \in Nat /\ DOMAIN fs = 1 .. Len(fs)
           /\ \A k \in DOMAIN (<<fr>> \o fs) :
                 \/ k = 1 /\ (<<fr>> \o fs)[k] = fr
                 \/ k - 1 \in DOMAIN fs /\ (<<fr>> \o fs)[k] = fs[k - 1]
<1> DEFINE r == <<fr>> \o fs
<1>1. <<fr>> \in Seq(FrameType) /\ Len(<<fr>>) = 1 /\ <<fr>>[1] = fr
  OBVIOUS
<1>2. /\ r \in Seq(FrameType) /\ Len(r) = 1 + Len(fs)
      /\ \A k \in 1 .. 1 + Len(fs) : r[k] = IF k <= 1 THEN <<fr>>[k] ELSE fs[k - 1]
  BY <1>1, ConcatProperties
<1>3. Len(fs) \in Nat /\ DOMAIN fs = 1 .. Len(fs) /\ DOMAIN r = 1 .. Len(r)
  BY <1>2, LenProperties
<1> HIDE DEF r
<1>4. ASSUME NEW k \in DOMAIN r PROVE k = 1 \/ (k - 1 \in DOMAIN fs /\ ~(k <= 1))
  <2>1. k \in 1 .. 1 + Len(fs)
    BY <1>2, <1>3
  <2> QED
    BY <1>3, <2>1
<1> QED
  BY <1>1, <1>2, <1>3, <1>4 DEF r

\* What is left of a walk's frames after a call on n.
CallKept(seen, n, fs) ==
    /\ Frames(stack', visited')
    /\ seen \subseteq visited' /\ visited' \subseteq seen \cup {n}
    /\ \A e : \A m \in seen : Spent(fs, e, m) => Spent(stack', e, m)

\* A call keeps the frames in order, and brings no edge back.
LEMMA CallKeeps ==
    ASSUME graph \in Graphs, NEW q \in Query, NEW n \in Id, NEW depth \in Nat, NEW rule,
           rule \in RecRule,
           NEW seen \in SUBSET Id, NEW ns, NEW fs \in Seq(FrameType),
           Call(rule, q, n, depth, seen, ns, fs), Frames(fs, seen)
    PROVE  CallKept(seen, n, fs)
<1>1. CASE visited' = seen /\ stack' = fs
  BY <1>1 DEF CallKept
<1>2. CASE /\ visited' = seen \cup {n} /\ n \notin seen
           /\ stack' = <<Frame(rule, q, n, depth)>> \o fs
  <2> DEFINE fr == Frame(rule, q, n, depth)
  <2>1. /\ fr \in FrameType /\ fr.at = n
        /\ \A e \in fr.hops : n \in Ends(e)
        /\ \A e \in fr.children : e.source = n
        /\ \A e \in fr.children \cap fr.hops : e.target = n
    BY FrameTyped
  <2> HIDE DEF fr
  <2>2. /\ DOMAIN stack' = 1 .. Len(fs) + 1 /\ Len(fs) \in Nat /\ DOMAIN fs = 1 .. Len(fs)
        /\ \A k \in DOMAIN stack' :
              \/ k = 1 /\ stack'[k] = fr
              \/ k - 1 \in DOMAIN fs /\ stack'[k] = fs[k - 1]
    BY <1>2, <2>1, Pushed DEF fr
  <2>3. ASSUME NEW k \in DOMAIN stack'
        PROVE  /\ stack'[k].at \in visited'
               /\ \A e \in stack'[k].hops : stack'[k].at \in Ends(e)
               /\ \A e \in stack'[k].children : e.source = stack'[k].at
               /\ \A e \in stack'[k].children \cap stack'[k].hops : e.target = stack'[k].at
    <3>1. CASE stack'[k] = fr
      BY <1>2, <2>1, <3>1
    <3>2. CASE k - 1 \in DOMAIN fs /\ stack'[k] = fs[k - 1]
      BY <1>2, <3>2 DEF Frames
    <3> QED
      BY <2>2, <3>1, <3>2
  <2>4. ASSUME NEW j \in DOMAIN stack', NEW k \in DOMAIN stack', stack'[j].at = stack'[k].at
        PROVE  j = k
    <3>1. \A i \in DOMAIN fs : fs[i].at # n
      BY <1>2 DEF Frames
    <3>2. j \in Nat /\ k \in Nat
      BY <2>2
    <3>3. CASE j = 1 \/ k = 1
      BY <2>1, <2>2, <2>4, <3>1, <3>3
    <3>4. CASE j # 1 /\ k # 1
      <4>1. j - 1 \in DOMAIN fs /\ k - 1 \in DOMAIN fs /\ fs[j - 1].at = fs[k - 1].at
        BY <2>2, <2>4, <3>4
      <4>2. j - 1 = k - 1
        BY <4>1 DEF Frames
      <4> QED
        BY <3>2, <4>2
    <3> QED
      BY <3>3, <3>4
  <2>5. ASSUME NEW e, NEW m \in seen, Spent(fs, e, m)
        PROVE  Spent(stack', e, m)
    BY <1>2, <2>1, <2>2, <2>5 DEF Spent
  <2> QED
    BY <1>2, <2>3, <2>4, <2>5 DEF Frames, CallKept
<1> QED
  BY <1>1, <1>2 DEF Call, Enters

\* Leaving an edge of the top frame behind.
LEMMA RestKeeps ==
    ASSUME NEW fs \in Seq(FrameType), fs # <<>>, NEW fr \in FrameType, NEW seen, Frames(fs, seen),
           fr.at = Head(fs).at, fr.hops \subseteq Head(fs).hops, fr.children \subseteq Head(fs).children
    PROVE  /\ Frames(<<fr>> \o Tail(fs), seen)
           /\ \A e, m : Spent(fs, e, m) => Spent(<<fr>> \o Tail(fs), e, m)
           /\ \A e : e \notin fr.hops \cup fr.children => Spent(<<fr>> \o Tail(fs), e, fr.at)
<1> DEFINE r == <<fr>> \o Tail(fs)
<1>1. /\ DOMAIN r = DOMAIN fs
      /\ \A i \in DOMAIN fs : r[i] = IF i = 1 THEN fr ELSE fs[i]
  BY RestTyped
<1>2. 1 \in DOMAIN fs /\ Head(fs) = fs[1]
  BY LenProperties, EmptySeq
<1> HIDE DEF r
<1>3. \A i \in DOMAIN fs : /\ r[i].at = fs[i].at /\ r[i].hops \subseteq fs[i].hops
                           /\ r[i].children \subseteq fs[i].children
  BY <1>1, <1>2
<1>4. Frames(r, seen)
  BY <1>1, <1>3 DEF Frames
<1>5. \A e, m : Spent(fs, e, m) => Spent(r, e, m)
  BY <1>1, <1>3 DEF Spent
<1>6. ASSUME NEW e, e \notin fr.hops \cup fr.children PROVE Spent(r, e, fr.at)
  <2>1. \A k \in DOMAIN r : r[k].at = fr.at => k = 1
    BY <1>1, <1>2, <1>4 DEF Frames
  <2> QED
    BY <1>1, <1>2, <1>6, <2>1 DEF Spent
<1> QED
  BY <1>4, <1>5, <1>6 DEF r

\* The return of the top frame.
LEMMA TailKeeps ==
    ASSUME NEW fs \in Seq(FrameType), fs # <<>>, NEW seen, Frames(fs, seen)
    PROVE  /\ Frames(Tail(fs), seen)
           /\ \A e, m : Spent(fs, e, m) => Spent(Tail(fs), e, m)
<1>1. /\ Tail(fs) \in Seq(FrameType) /\ Len(Tail(fs)) = Len(fs) - 1
      /\ \A i \in 1 .. Len(Tail(fs)) : Tail(fs)[i] = fs[i + 1]
  BY HeadTailProperties
<1>2. /\ Len(fs) \in Nat \ {0} /\ DOMAIN fs = 1 .. Len(fs)
      /\ DOMAIN Tail(fs) = 1 .. Len(Tail(fs))
  BY <1>1, LenProperties, EmptySeq
<1>3. \A i \in DOMAIN Tail(fs) : i \in Nat /\ i + 1 \in DOMAIN fs /\ Tail(fs)[i] = fs[i + 1]
  BY <1>1, <1>2
<1>4. \A j, k \in DOMAIN Tail(fs) : Tail(fs)[j].at = Tail(fs)[k].at => j = k
  <2> SUFFICES ASSUME NEW j \in DOMAIN Tail(fs), NEW k \in DOMAIN Tail(fs),
                      Tail(fs)[j].at = Tail(fs)[k].at
               PROVE  j = k
    OBVIOUS
  <2>1. j + 1 = k + 1
    BY <1>3 DEF Frames
  <2> QED
    BY <1>3, <2>1
<1> QED
  BY <1>3, <1>4 DEF Frames, Spent

\* The two loops.
LEMMA ChildOnce ==
    ASSUME WalkType, RecursiveInv, FollowChild, query.op # "call_graph" => NoRepeat(via)
    PROVE  RecursiveInv' /\ (query.op # "call_graph" => NoRepeat(via'))
<1>1. /\ query \in Query /\ query.op \in Recursive /\ stack \in Seq(FrameType) /\ stack # <<>>
      /\ Top \in FrameType /\ 1 \in DOMAIN stack /\ Top = stack[1] /\ Top = Head(stack)
  BY TopTyped DEF FollowChild, Top
<1>2. /\ Frames(stack, visited) /\ graph \in Graphs /\ visited \in SUBSET Id /\ via \in Seq(Edge)
      /\ query.op \in {"impact", "hierarchy"} => visited \subseteq found
      /\ query.op # "call_graph" => \A i \in DOMAIN via : \E n \in visited \cap Ends(via[i]) : Spent(stack, via[i], n)
  BY <1>1 DEF RecursiveInv, WalkType
<1>3. Rule \in RecRule /\ Top.depth \in Nat /\ Top.at \in visited
  BY <1>1, <1>2, RuleTyped DEF Rule, FrameType, Frames
<1>4. PICK e \in Top.children, rest \in Seq(FrameType) :
              /\ e \in Edge /\ rest = <<[Top EXCEPT !.children = @ \ {e}]>> \o Tail(stack)
              /\ [Top EXCEPT !.children = @ \ {e}] \in FrameType
              /\ \/ /\ e.target \in Id \ visited
                    /\ found' = found \cup {e.target} /\ via' = Append(via, e)
                    /\ Call(Rule, query, e.target, Top.depth, visited, found', rest)
                 \/ stack' = rest /\ UNCHANGED <<found, via, visited>>
  BY ChildStep
<1> DEFINE fr == [Top EXCEPT !.children = @ \ {e}]
<1>5. /\ fr \in FrameType /\ rest = <<fr>> \o Tail(stack) /\ fr.at = Top.at
      /\ fr.hops = Top.hops /\ fr.children = Top.children \ {e}
  BY <1>1, <1>4 DEF FrameType
<1> HIDE DEF fr
<1>6. /\ Frames(rest, visited)
      /\ \A f, m : Spent(stack, f, m) => Spent(rest, f, m)
      /\ \A f : f \notin fr.hops \cup fr.children => Spent(rest, f, fr.at)
  BY <1>1, <1>2, <1>5, RestKeeps
<1>7. UNCHANGED <<graph, query, pc>>
  BY DEF FollowChild
<1>8. CASE stack' = rest /\ UNCHANGED <<found, via, visited>>
  <2>1. RecursiveInv'
    BY <1>2, <1>6, <1>7, <1>8 DEF RecursiveInv
  <2> QED
    BY <1>8, <2>1
<1>9. CASE /\ e.target \in Id \ visited
           /\ found' = found \cup {e.target} /\ via' = Append(via, e)
           /\ Call(Rule, query, e.target, Top.depth, visited, found', rest)
  <2>1. /\ Frames(stack', visited')
        /\ visited \subseteq visited' /\ visited' \subseteq visited \cup {e.target}
        /\ \A f : \A m \in visited : Spent(rest, f, m) => Spent(stack', f, m)
    <3>1. Top.depth \in Nat /\ e.target \in Id
      BY <1>3, <1>9
    <3>2. Call(Rule, query, e.target, Top.depth, visited, found', rest) /\ Frames(rest, visited)
      BY <1>6, <1>9
    <3>3. /\ graph \in Graphs /\ query \in Query /\ Rule \in RecRule
          /\ visited \in SUBSET Id /\ rest \in Seq(FrameType)
      BY <1>1, <1>2, <1>3, <1>4
    <3>4. CallKept(visited, e.target, rest)
      BY <3>1, <3>2, <3>3, CallKeeps
    <3> QED
      BY <3>4 DEF CallKept
  <2>2. e.source = Top.at /\ (e \in Top.hops => e.target = Top.at)
    BY <1>1, <1>2 DEF Frames
  <2>3. Spent(rest, e, Top.at) /\ Spent(stack', e, Top.at)
    <3>1. e \notin fr.hops \cup fr.children
      BY <1>3, <1>5, <1>9, <2>2
    <3> QED
      BY <1>3, <1>5, <1>6, <2>1, <3>1
  <2>4. /\ \A i \in DOMAIN via' : (i \in DOMAIN via /\ via'[i] = via[i]) \/ via'[i] = e
        /\ NoRepeat(via) /\ e \notin Elements(via) => NoRepeat(via')
    BY <1>2, <1>4, <1>9, Appended
  <2>5. query.op # "call_graph" => e \notin Elements(via)
    <3> SUFFICES ASSUME query.op # "call_graph", NEW i \in DOMAIN via, via[i] = e PROVE FALSE
      BY DEF Elements
    <3>1. PICK n \in visited \cap Ends(e) : Spent(stack, e, n)
      BY <1>2
    <3>2. n = Top.at
      BY <1>9, <2>2, <3>1 DEF Ends
    <3> QED
      BY <1>1, <3>1, <3>2 DEF Spent
  <2>6. ASSUME query.op # "call_graph", NEW i \in DOMAIN via'
        PROVE  \E n \in visited' \cap Ends(via'[i]) : Spent(stack', via'[i], n)
    <3>1. CASE i \in DOMAIN via /\ via'[i] = via[i]
      <4>1. PICK n \in visited \cap Ends(via[i]) : Spent(stack, via[i], n)
        BY <1>2, <2>6, <3>1
      <4> QED
        BY <1>6, <2>1, <3>1, <4>1
    <3>2. CASE via'[i] = e
      BY <1>3, <2>1, <2>2, <2>3, <3>2 DEF Ends
    <3> QED
      BY <2>4, <3>1, <3>2
  <2> QED
    BY <1>2, <1>7, <1>9, <2>1, <2>4, <2>5, <2>6 DEF RecursiveInv
<1> QED
  BY <1>4, <1>8, <1>9

LEMMA HopOnce ==
    ASSUME WalkType, RecursiveInv, Follow, query.op # "call_graph" => NoRepeat(via)
    PROVE  RecursiveInv' /\ (query.op # "call_graph" => NoRepeat(via'))
<1>1. /\ query \in Query /\ query.op \in Recursive /\ stack \in Seq(FrameType) /\ stack # <<>>
      /\ Top \in FrameType /\ 1 \in DOMAIN stack /\ Top = stack[1] /\ Top = Head(stack)
  BY TopTyped DEF Follow, Top
<1>2. /\ Frames(stack, visited) /\ graph \in Graphs /\ visited \in SUBSET Id /\ via \in Seq(Edge)
      /\ query.op \in {"impact", "hierarchy"} => visited \subseteq found
      /\ query.op # "call_graph" => \A i \in DOMAIN via : \E n \in visited \cap Ends(via[i]) : Spent(stack, via[i], n)
  BY <1>1 DEF RecursiveInv, WalkType
<1>3. Rule \in RecRule /\ Top.depth + 1 \in Nat /\ Top.at \in visited
  BY <1>1, <1>2, RuleTyped DEF Rule, FrameType, Frames
<1>4. PICK e \in Top.hops, rest \in Seq(FrameType) :
              /\ e \in Edge /\ rest = <<[Top EXCEPT !.hops = @ \ {e}]>> \o Tail(stack)
              /\ [Top EXCEPT !.hops = @ \ {e}] \in FrameType
              /\ \/ /\ Fresh(Other(e, Top.at)) /\ Other(e, Top.at) \in Id
                    /\ found' = found \cup {Other(e, Top.at)} /\ via' = Append(via, e)
                    /\ Call(Rule, query, Other(e, Top.at), Top.depth + 1, visited, found', rest)
                 \/ stack' = rest /\ UNCHANGED <<found, via, visited>>
  BY HopStep
<1> DEFINE fr == [Top EXCEPT !.hops = @ \ {e}]
           to == Other(e, Top.at)
<1>5. /\ fr \in FrameType /\ rest = <<fr>> \o Tail(stack) /\ fr.at = Top.at
      /\ fr.hops = Top.hops \ {e} /\ fr.children = {} /\ Top.children = {}
  BY <1>1, <1>4 DEF FrameType, Follow
<1> HIDE DEF fr
<1>6. /\ Frames(rest, visited)
      /\ \A f, n : Spent(stack, f, n) => Spent(rest, f, n)
      /\ \A f : f \notin fr.hops \cup fr.children => Spent(rest, f, fr.at)
  BY <1>1, <1>2, <1>5, RestKeeps
<1>7. UNCHANGED <<graph, query, pc>>
  BY DEF Follow
<1>8. CASE stack' = rest /\ UNCHANGED <<found, via, visited>>
  <2>1. RecursiveInv'
    BY <1>2, <1>6, <1>7, <1>8 DEF RecursiveInv
  <2> QED
    BY <1>8, <2>1
<1>9. CASE /\ Fresh(to) /\ to \in Id
           /\ found' = found \cup {to} /\ via' = Append(via, e)
           /\ Call(Rule, query, to, Top.depth + 1, visited, found', rest)
  <2>1. Top.at \in Ends(e) /\ Ends(e) = {Top.at, to}
    <3>1. Top.at \in Ends(e)
      BY <1>1, <1>2 DEF Frames
    <3> QED
      BY <1>4, <3>1, OtherEnd
  <2> HIDE DEF to
  <2>2. /\ Frames(stack', visited')
        /\ visited \subseteq visited' /\ visited' \subseteq visited \cup {to}
        /\ \A f : \A n \in visited : Spent(rest, f, n) => Spent(stack', f, n)
    <3>1. Top.depth + 1 \in Nat /\ to \in Id
      BY <1>3, <1>9
    <3>2. Call(Rule, query, to, Top.depth + 1, visited, found', rest) /\ Frames(rest, visited)
      BY <1>6, <1>9
    <3>3. /\ graph \in Graphs /\ query \in Query /\ Rule \in RecRule
          /\ visited \in SUBSET Id /\ rest \in Seq(FrameType)
      BY <1>1, <1>2, <1>3, <1>4
    <3> HIDE DEF to
    <3>4. CallKept(visited, to, rest)
      BY <3>1, <3>2, <3>3, CallKeeps
    <3> QED
      BY <3>4 DEF CallKept
  <2>3. Spent(stack', e, Top.at)
    BY <1>3, <1>5, <1>6, <2>2
  <2>4. /\ \A i \in DOMAIN via' : (i \in DOMAIN via /\ via'[i] = via[i]) \/ via'[i] = e
        /\ NoRepeat(via) /\ e \notin Elements(via) => NoRepeat(via')
    BY <1>2, <1>4, <1>9, Appended
  <2>5. query.op # "call_graph" => to \notin visited
    BY <1>1, <1>2, <1>9 DEF Fresh, Rule, RuleOf, Recursive
  <2>6. query.op # "call_graph" => e \notin Elements(via)
    <3> SUFFICES ASSUME query.op # "call_graph", NEW i \in DOMAIN via, via[i] = e PROVE FALSE
      BY DEF Elements
    <3>1. PICK n \in visited \cap Ends(e) : Spent(stack, e, n)
      BY <1>2
    <3>2. n = Top.at
      BY <2>1, <2>5, <3>1
    <3> QED
      BY <1>1, <3>1, <3>2 DEF Spent
  <2>7. ASSUME query.op # "call_graph", NEW i \in DOMAIN via'
        PROVE  \E n \in visited' \cap Ends(via'[i]) : Spent(stack', via'[i], n)
    <3>1. CASE i \in DOMAIN via /\ via'[i] = via[i]
      <4>1. PICK n \in visited \cap Ends(via[i]) : Spent(stack, via[i], n)
        BY <1>2, <2>7, <3>1
      <4> QED
        BY <1>6, <2>2, <3>1, <4>1
    <3>2. CASE via'[i] = e
      BY <1>3, <2>1, <2>2, <2>3, <3>2
    <3> QED
      BY <2>4, <3>1, <3>2
  <2> QED
    BY <1>2, <1>7, <1>9, <2>2, <2>4, <2>6, <2>7 DEF RecursiveInv
<1> QED
  BY <1>4, <1>8, <1>9

\* The other steps of the recursive walks.
LEMMA WalkOnce ==
    ASSUME WalkType, RecursiveInv, LoopsEnd \/ SecondWalk \/ FinishWalk
    PROVE  RecursiveInv' /\ via' = via /\ query' = query
<1>1. CASE LoopsEnd
  <2>1. stack \in Seq(FrameType) /\ stack # <<>> /\ query.op \in Recursive
    BY <1>1, TopTyped DEF LoopsEnd
  <2>2. Frames(stack, visited)
    BY <2>1 DEF RecursiveInv
  <2>3. /\ Frames(Tail(stack), visited)
        /\ \A e, m : Spent(stack, e, m) => Spent(Tail(stack), e, m)
    BY <2>1, <2>2, TailKeeps
  <2> QED
    BY <1>1, <2>1, <2>3 DEF LoopsEnd, RecursiveInv
<1>2. CASE SecondWalk
  <2> DEFINE seen == IF query.op = "call_graph" THEN {} ELSE visited
  <2>1. /\ query \in Query /\ query.op \in Recursive /\ query.start \in Id /\ graph \in Graphs
        /\ query.op \in {"call_graph", "hierarchy"}
    BY <1>2, QueryType DEF SecondWalk, Recursive, WalkType, Query
  <2>2. /\ <<>> \in Seq(FrameType) /\ seen \in SUBSET Id /\ 0 \in Nat
        /\ RuleOf(query, "second") \in RecRule
    BY <2>1, RuleTyped DEF WalkType
  <2>3. Call(RuleOf(query, "second"), query, query.start, 0, seen, found, <<>>)
    BY <1>2 DEF SecondWalk
  <2>4. Frames(<<>>, seen) /\ \A e, m : Spent(<<>>, e, m)
    BY DEF Frames, Spent
  <2> HIDE DEF seen
  <2>5. CallKept(seen, query.start, <<>>)
    BY <2>1, <2>2, <2>3, <2>4, CallKeeps
  <2>6. Frames(stack', visited')
    BY <2>5 DEF CallKept
  <2>7. UNCHANGED <<graph, query, found, via>>
    BY <1>2 DEF SecondWalk
  <2>8. ASSUME query.op = "hierarchy"
        PROVE  /\ visited \subseteq visited' /\ visited' \subseteq visited \cup {query.start}
               /\ \A e : \A m \in visited : Spent(stack', e, m)
    <3>1. seen = visited
      BY <2>8 DEF seen
    <3> QED
      BY <2>4, <2>5, <3>1 DEF CallKept
  <2>9. query.op = "hierarchy" => query.start \in found
    BY <1>2 DEF SecondWalk, RecursiveInv, Recursive
  <2> QED
    BY <2>1, <2>6, <2>7, <2>8, <2>9 DEF RecursiveInv
<1>3. CASE FinishWalk
  BY <1>3 DEF FinishWalk, RecursiveInv
<1> QED
  BY <1>1, <1>2, <1>3

\* The steps that begin a query find nothing recorded.
LEMMA AskOnce ==
    ASSUME OnceInv, NEW q \in Queries,
           AskUnknown(q) \/ StartBreadthFirst(q) \/ StartDepthFirst(q) \/ StartClimb(q)
    PROVE  OnceInv'
<1>1. WalkType' /\ q \in Query
  BY AsksTyped, WalkAssumption DEF OnceInv
<1>2. /\ query' = q /\ via' = <<>> /\ graph \in Graphs
      /\ visited = {} /\ stack = <<>> /\ queue = <<>> /\ found = {}
  BY DEF OnceInv, WalkType, AskUnknown, StartBreadthFirst, StartDepthFirst, StartClimb
<1>3. NoRepeat(via') /\ DOMAIN via' = {}
  BY <1>2 DEF NoRepeat
<1>4. RecursiveInv'
  <2>1. CASE StartDepthFirst(q)
    <3>1. /\ q.start \in Id /\ 0 \in Nat /\ <<>> \in Seq(FrameType) /\ {} \in SUBSET Id
          /\ RuleOf(q, "first") \in RecRule
      BY <1>1, <2>1, RuleTyped DEF Query, StartDepthFirst
    <3>2. Frames(<<>>, {})
      BY DEF Frames
    <3>3. Call(RuleOf(q, "first"), q, q.start, 0, {}, StartFound(q), <<>>)
      BY <2>1 DEF StartDepthFirst
    <3>4. CallKept({}, q.start, <<>>)
      BY <1>1, <1>2, <3>1, <3>2, <3>3, CallKeeps
    <3>5. Frames(stack', visited') /\ visited' \subseteq {q.start}
      BY <3>4 DEF CallKept
    <3>6. found' = StartFound(q)
      BY <2>1 DEF StartDepthFirst
    <3> QED
      BY <1>2, <1>3, <3>5, <3>6 DEF RecursiveInv, StartFound
  <2>2. CASE AskUnknown(q)
    <3>1. /\ stack' = <<>> /\ visited' = {} /\ found' = {} /\ pc' = "done"
      BY <1>2, <2>2 DEF AskUnknown
    <3>2. Frames(stack', visited')
      BY <3>1 DEF Frames
    <3> QED
      BY <1>3, <3>1, <3>2 DEF RecursiveInv
  <2>3. CASE StartBreadthFirst(q) \/ StartClimb(q)
    BY <1>2, <2>3 DEF StartBreadthFirst, StartClimb, RecursiveInv, Recursive
  <2> QED
    BY <2>1, <2>2, <2>3
<1>5. ClimbInv'
  BY <1>3 DEF ClimbInv
<1>6. ASSUME q.op \in {"bfs", "path"}, NEW x \in Elements(queue')
      PROVE  x.path = <<>>
  <2>1. CASE StartBreadthFirst(q)
    BY <1>6, <2>1 DEF StartBreadthFirst, Elements, Entry
  <2>2. CASE AskUnknown(q)
    BY <1>2, <1>6, <2>2 DEF AskUnknown, Elements
  <2>3. CASE StartDepthFirst(q) \/ StartClimb(q)
    BY <1>6, <2>3 DEF StartDepthFirst, StartClimb, Recursive
  <2> QED
    BY <2>1, <2>2, <2>3
<1>7. SearchInv' /\ PathInv'
  BY <1>2, <1>3, <1>6 DEF SearchInv, PathInv
<1> QED
  BY <1>1, <1>3, <1>4, <1>5, <1>7 DEF OnceInv

\* A breadth-first visit records the edge of its entry, which joins a node
\* visited before to one that was not.
LEMMA VisitOnce ==
    ASSUME OnceInv, Visit, query.op = "bfs"
    PROVE  SearchInv' /\ NoRepeat(via')
<1> DEFINE n == Head(queue).at
           path == Head(queue).path
           last == Last(path)
<1>1. /\ WalkType /\ SearchInv /\ NoRepeat(via) /\ via \in Seq(Edge)
      /\ UNCHANGED query
  BY DEF OnceInv, WalkType, Visit
<1>2. /\ Head(queue) \in Elements(queue) /\ Head(queue) \in EntryType
      /\ queue \in Seq(EntryType)
      /\ visited' = visited \cup {n} /\ n \notin visited
      /\ \A x \in Elements(queue') : x \in Elements(Tail(queue)) \/ Made(x, n, path)
  BY <1>1, VisitEntries
<1>3. /\ \A x \in Elements(queue) :
            x.path # <<>> => /\ x.at \in Ends(Last(x.path))
                             /\ Other(Last(x.path), x.at) \in visited \ {x.at}
      /\ \A i \in DOMAIN via : Ends(via[i]) \subseteq visited
  BY <1>1 DEF SearchInv
<1>4. Elements(Tail(queue)) \subseteq Elements(queue)
  BY <1>2, Dequeued DEF Visit, Reached
<1>5. ASSUME NEW x \in Elements(queue'), x.path # <<>>
      PROVE  /\ x.at \in Ends(Last(x.path))
             /\ Other(Last(x.path), x.at) \in visited' \ {x.at}
  <2>1. CASE x \in Elements(Tail(queue))
    BY <1>2, <1>3, <1>4, <1>5, <2>1
  <2>2. ASSUME NEW e \in Edge, n \in Ends(e), Other(e, n) \notin visited',
               x = Entry(Other(e, n), Append(path, e))
        PROVE  /\ x.at \in Ends(Last(x.path))
               /\ Other(Last(x.path), x.at) \in visited' \ {x.at}
    <3>1. Last(Append(path, e)) = e
      BY <1>2, <2>2, Appended DEF EntryType
    <3>2. Other(e, Other(e, n)) = n /\ Other(e, n) \in Ends(e)
      BY <2>2 DEF Ends, Other
    <3>3. x.at = Other(e, n) /\ x.path = Append(path, e)
      BY <2>2 DEF Entry
    <3> QED
      BY <1>2, <2>2, <3>1, <3>2, <3>3
  <2> QED
    BY <1>2, <2>1, <2>2, MadeBy
<1>6. CASE path = <<>>
  <2>1. via' = via
    BY <1>6 DEF Visit
  <2> QED
    BY <1>1, <1>2, <1>3, <1>5, <2>1 DEF SearchInv
<1>7. CASE path # <<>>
  <2>1. via' = Append(via, last)
    BY <1>7 DEF Visit
  <2>2. last \in Edge /\ path \in Seq(Edge)
    BY <1>2, <1>7 DEF EntryType, Last
  <2>3. n \in Ends(last) /\ Other(last, n) \in visited
    BY <1>2, <1>3, <1>7
  <2>4. Ends(last) = {n, Other(last, n)}
    BY <2>2, <2>3, OtherEnd
  <2> HIDE DEF last, path
  <2>5. last \notin Elements(via)
    BY <1>2, <1>3, <2>3 DEF Elements
  <2>6. /\ \A i \in DOMAIN via' : (i \in DOMAIN via /\ via'[i] = via[i]) \/ via'[i] = last
        /\ NoRepeat(via')
    BY <1>1, <2>1, <2>2, <2>5, Appended
  <2>7. \A i \in DOMAIN via' : Ends(via'[i]) \subseteq visited'
    BY <1>2, <1>3, <2>3, <2>4, <2>6
  <2> QED
    BY <1>1, <1>5, <2>6, <2>7 DEF SearchInv
<1> QED
  BY <1>6, <1>7

\* A path goes on to a node that is not visited, nor the last one on it.
LEMMA VisitPath ==
    ASSUME OnceInv, Visit, query.op = "path"
    PROVE  PathInv' /\ via' = via
<1> DEFINE n == Head(queue).at
           path == Head(queue).path
<1>1. /\ WalkType /\ PathInv /\ via' = via
      /\ UNCHANGED <<query, pc>>
  BY DEF OnceInv, WalkType, Visit
<1>2. /\ Head(queue) \in Elements(queue) /\ Head(queue) \in EntryType
      /\ queue \in Seq(EntryType)
      /\ visited' = visited \cup {n} /\ n \notin visited
      /\ \A x \in Elements(queue') : x \in Elements(Tail(queue)) \/ Made(x, n, path)
  BY <1>1, VisitEntries
<1>3. /\ pc = "first" => via = <<>>
      /\ \A x \in Elements(queue) :
            /\ \A i \in DOMAIN x.path : x.path[i].target \in visited \/ (i = Len(x.path) /\ x.path[i].target = x.at)
            /\ \A i, j \in DOMAIN x.path : x.path[i].target = x.path[j].target => i = j
  BY <1>1 DEF PathInv
<1>4. Elements(Tail(queue)) \subseteq Elements(queue)
  BY <1>2, Dequeued DEF Visit, Reached
<1>5. ASSUME NEW x \in Elements(queue')
      PROVE  /\ \A i \in DOMAIN x.path : x.path[i].target \in visited' \/ (i = Len(x.path) /\ x.path[i].target = x.at)
             /\ \A i, j \in DOMAIN x.path : x.path[i].target = x.path[j].target => i = j
  <2>1. CASE x \in Elements(Tail(queue))
    <3>1. x \in Elements(queue) /\ visited \subseteq visited'
      BY <1>2, <1>4, <2>1
    <3> QED
      BY <1>3, <3>1
  <2>2. ASSUME NEW e \in Edge, Other(e, n) \notin visited', e.target = Other(e, n),
               x = Entry(Other(e, n), Append(path, e))
        PROVE  /\ \A i \in DOMAIN x.path : x.path[i].target \in visited' \/ (i = Len(x.path) /\ x.path[i].target = x.at)
               /\ \A i, j \in DOMAIN x.path : x.path[i].target = x.path[j].target => i = j
    <3>1. x.at = e.target /\ x.path = Append(path, e) /\ path \in Seq(Edge)
      BY <1>2, <2>2 DEF Entry, EntryType
    <3>2. /\ Len(x.path) = Len(path) + 1
          /\ \A i \in DOMAIN path : i \in DOMAIN x.path /\ x.path[i] = path[i]
          /\ \A i \in DOMAIN x.path : i \in DOMAIN path \/ (i = Len(path) + 1 /\ x.path[i] = e)
      BY <3>1, Appended
    <3>3. \A i \in DOMAIN path : path[i].target \in visited'
      BY <1>2, <1>3
    <3>4. \A i, j \in DOMAIN path : path[i].target = path[j].target => i = j
      BY <1>2, <1>3
    <3>5. e.target \notin visited'
      BY <2>2
    <3> HIDE DEF path
    <3> QED
      BY <3>1, <3>2, <3>3, <3>4, <3>5
  <2> QED
    BY <1>2, <2>1, <2>2, MadeBy
<1> QED
  BY <1>1, <1>3, <1>5 DEF PathInv

\* The end of a search, and an entry that is dropped.
LEMMA SearchOnce ==
    ASSUME OnceInv, FinishSearch \/ SkipVisited
    PROVE  SearchInv' /\ PathInv' /\ (query.op # "call_graph" => NoRepeat(via'))
<1>1. /\ WalkType /\ SearchInv /\ PathInv /\ query.op \in {"bfs", "path"} /\ NoRepeat(via)
      /\ queue \in Seq(EntryType) /\ UNCHANGED <<query, visited>>
  BY DEF OnceInv, WalkType, FinishSearch, SkipVisited, Searching
<1>2. CASE SkipVisited
  <2>1. Elements(queue') \subseteq Elements(queue) /\ UNCHANGED <<pc, via>>
    BY <1>1, <1>2, Dequeued DEF SkipVisited, Reached
  <2> QED
    BY <1>1, <2>1 DEF SearchInv, PathInv
<1>3. CASE FinishSearch
  <2>1. queue' = queue /\ pc' = "done"
    BY <1>3 DEF FinishSearch
  <2>2. CASE query.op = "path" /\ queue # <<>>
    <3>1. via' = Head(queue).path /\ Head(queue) \in Elements(queue)
      BY <1>1, <1>3, <2>2, Dequeued DEF FinishSearch
    <3>2. NoRepeat(via')
      BY <1>1, <2>2, <3>1 DEF PathInv, NoRepeat
    <3> QED
      BY <1>1, <2>1, <2>2, <3>2 DEF SearchInv, PathInv
  <2>3. CASE ~(query.op = "path" /\ queue # <<>>)
    <3>1. via' = via
      BY <1>3, <2>3 DEF FinishSearch
    <3> QED
      BY <1>1, <2>1, <3>1 DEF SearchInv, PathInv
  <2> QED
    BY <2>2, <2>3
<1> QED
  BY <1>2, <1>3

\* The climb goes up from a node it has not visited.
LEMMA ClimbOnce ==
    ASSUME OnceInv, Climb \/ FinishClimb
    PROVE  ClimbInv' /\ NoRepeat(via')
<1>1. /\ query.op = "ancestors" /\ NoRepeat(via) /\ via \in Seq(Edge) /\ query' = query
      /\ \A i \in DOMAIN via : via[i].target \in visited
  BY DEF OnceInv, WalkType, ClimbInv, Climb, FinishClimb
<1>2. CASE Climb
  <2>1. Top.at \notin visited /\ visited' = visited \cup {Top.at}
    BY <1>2 DEF Climb
  <2>2. PICK e \in Incoming(Top.at, {"contains"}) : via' = Append(via, e)
    BY <1>2 DEF Climb
  <2>3. e \in Edge /\ e.target = Top.at
    BY <2>2, GraphType DEF Incoming, OnceInv, WalkType
  <2>4. e \notin Elements(via)
    BY <1>1, <2>1, <2>3 DEF Elements
  <2>5. /\ \A i \in DOMAIN via' : (i \in DOMAIN via /\ via'[i] = via[i]) \/ via'[i] = e
        /\ NoRepeat(via')
    BY <1>1, <2>2, <2>3, <2>4, Appended
  <2> QED
    BY <1>1, <2>1, <2>3, <2>5 DEF ClimbInv
<1>3. CASE FinishClimb
  BY <1>1, <1>3 DEF FinishClimb, ClimbInv
<1> QED
  BY <1>2, <1>3

\* The parts that speak of other queries hold of this one at once.
LEMMA OtherParts ==
    ASSUME query' = query
    PROVE  /\ query.op \notin Recursive => RecursiveInv'
           /\ query.op # "ancestors" => ClimbInv'
           /\ query.op # "bfs" => SearchInv'
           /\ query.op # "path" => PathInv'
BY DEF RecursiveInv, ClimbInv, SearchInv, PathInv

LEMMA OnceKept ==
    ASSUME OnceInv, [Next]_wvars
    PROVE  OnceInv'
<1>1. WalkType /\ WalkType' /\ RecursiveInv /\ (query.op # "call_graph" => NoRepeat(via))
  BY TypeKept DEF OnceInv
<1>2. CASE UNCHANGED wvars
  BY <1>1, <1>2 DEF OnceInv, wvars, RecursiveInv, ClimbInv, SearchInv, PathInv
<1>3. ASSUME NEW q \in Queries,
             AskUnknown(q) \/ StartBreadthFirst(q) \/ StartDepthFirst(q) \/ StartClimb(q)
      PROVE  OnceInv'
  BY <1>3, AskOnce
<1>4. CASE FinishSearch \/ SkipVisited
  <2>1. query' = query /\ query.op \in {"bfs", "path"}
    BY <1>4 DEF FinishSearch, SkipVisited, Searching
  <2> QED
    BY <1>1, <1>4, <2>1, SearchOnce, OtherParts DEF OnceInv, Recursive
<1>5. CASE Visit
  <2>1. query' = query /\ query.op \in {"bfs", "path"}
    BY <1>5 DEF Visit, Searching
  <2> QED
    BY <1>1, <1>5, <2>1, VisitOnce, VisitPath, OtherParts DEF OnceInv, Recursive
<1>6. CASE FollowChild \/ Follow
  <2>1. query' = query /\ query.op \in Recursive
    BY <1>6 DEF FollowChild, Follow, Recursing
  <2>2. RecursiveInv' /\ (query.op # "call_graph" => NoRepeat(via'))
    BY <1>1, <1>6, ChildOnce, HopOnce
  <2> QED
    BY <1>1, <2>1, <2>2, OtherParts DEF OnceInv, Recursive
<1>7. CASE LoopsEnd \/ SecondWalk \/ FinishWalk
  <2>1. query.op \in Recursive
    BY <1>7 DEF LoopsEnd, SecondWalk, FinishWalk, Recursing, Recursive
  <2>2. RecursiveInv' /\ via' = via /\ query' = query
    BY <1>1, <1>7, WalkOnce
  <2> QED
    BY <1>1, <2>1, <2>2, OtherParts DEF OnceInv, Recursive
<1>8. CASE Climb \/ FinishClimb
  <2>1. query' = query /\ query.op = "ancestors"
    BY <1>8 DEF Climb, FinishClimb
  <2> QED
    BY <1>1, <1>8, <2>1, ClimbOnce, OtherParts DEF OnceInv, Recursive
<1>9. CASE Return
  <2>1. query' = NoQuery /\ via' = <<>>
    BY <1>9 DEF Return
  <2>2. NoRepeat(via')
    BY <2>1 DEF NoRepeat
  <2> QED
    BY <1>1, <2>1, <2>2 DEF OnceInv, RecursiveInv, ClimbInv, SearchInv, PathInv, NoQuery, Recursive
<1> QED
  BY <1>2, <1>3, <1>4, <1>5, <1>6, <1>7, <1>8, <1>9, StepsAre DEF WalkStep

LEMMA OnceInit == Init => OnceInv
BY TypeInit DEF Init, OnceInv, RecursiveInv, ClimbInv, SearchInv, PathInv, NoQuery, Recursive, NoRepeat

\* Through cycles, parallel and dangling edges, on every graph: no query but
\* the call graph returns an edge twice.
THEOREM NoEdgeTwice == Spec => []EdgesOnce
<1>1. OnceInv => EdgesOnce
  BY DEF OnceInv, EdgesOnce, NoRepeat
<1> QED
  BY <1>1, OnceInit, OnceKept, PTL DEF Spec

-----------------------------------------------------------------------------
(* The edges of traverse_bfs are a tree. *)

\* A new edge leaves what the edges before it have reached alone, and adds
\* its own ends.
LEMMA BeforeAppended ==
    ASSUME NEW e \in Edge, NEW s \in Seq(Edge), NEW n
    PROVE  /\ \A i \in 1 .. Len(s) + 1 : Before(n, Append(s, e), i) = Before(n, s, i)
           /\ Before(n, Append(s, e), Len(s) + 2) = Before(n, s, Len(s) + 1) \cup Ends(e)
<1> DEFINE t == Append(s, e)
<1>1. /\ \A j \in 1 .. Len(s) : t[j] = s[j]
      /\ t[Len(s) + 1] = e
  BY AppendProperties
<1>2. Len(s) \in Nat
  BY LenProperties
<1> HIDE DEF t
<1>3. ASSUME NEW i \in 1 .. Len(s) + 1 PROVE Before(n, t, i) = Before(n, s, i)
  <2>1. \A j \in 1 .. i - 1 : j \in 1 .. Len(s)
    BY <1>2
  <2>2. \A j \in 1 .. i - 1 : t[j] = s[j]
    BY <1>1, <2>1
  <2> QED
    BY <2>2 DEF Before
<1>4. ASSUME NEW J, NEW k, t[k] = e
      PROVE  UNION {Ends(t[j]) : j \in J \cup {k}} = (UNION {Ends(t[j]) : j \in J}) \cup Ends(e)
  BY <1>4
<1>5. 1 .. (Len(s) + 2) - 1 = (1 .. (Len(s) + 1) - 1) \cup {Len(s) + 1}
  BY <1>2
<1>6. Before(n, t, Len(s) + 2) = Before(n, t, Len(s) + 1) \cup Ends(e)
  <2> DEFINE J == 1 .. (Len(s) + 1) - 1
  <2>1. UNION {Ends(t[j]) : j \in J \cup {Len(s) + 1}} = (UNION {Ends(t[j]) : j \in J}) \cup Ends(e)
    <3> HIDE DEF J
    <3> QED
      BY <1>1, <1>4
  <2>2. Before(n, t, Len(s) + 2) = {n} \cup UNION {Ends(t[j]) : j \in J \cup {Len(s) + 1}}
    BY <1>5 DEF Before
  <2>3. Before(n, t, Len(s) + 1) = {n} \cup UNION {Ends(t[j]) : j \in J}
    BY DEF Before
  <2> HIDE DEF J
  <2> QED
    BY <2>1, <2>2, <2>3
<1>7. Len(s) + 1 \in 1 .. Len(s) + 1
  BY <1>2
<1> QED
  BY <1>3, <1>6, <1>7 DEF t

LEMMA VisitTree ==
    ASSUME OnceInv, TreeInv, Visit, query.op = "bfs"
    PROVE  TreeInv'
<1> DEFINE n == Head(queue).at
           path == Head(queue).path
           last == Last(path)
<1>1. /\ WalkType /\ SearchInv /\ via \in Seq(Edge) /\ query' = query /\ visited \subseteq Id
      /\ queue # <<>>
  BY DEF OnceInv, WalkType, Visit, Reached
<1>2. /\ Head(queue) \in Elements(queue) /\ Head(queue) \in EntryType
      /\ queue \in Seq(EntryType) /\ query \in Query
      /\ visited' = visited \cup {n} /\ n \notin visited
      /\ \A x \in Elements(queue') : x \in Elements(Tail(queue)) \/ Made(x, n, path)
  BY <1>1, VisitEntries
<1>3. n \in Id /\ path \in Seq(Edge) /\ Elements(Tail(queue)) \subseteq Elements(queue)
  BY <1>1, <1>2, Dequeued DEF EntryType
<1>4. \A x : Made(x, n, path) => x.path # <<>>
  <2> SUFFICES ASSUME NEW x, NEW e \in Edge, x = Entry(Other(e, n), Append(path, e)) PROVE x.path # <<>>
    BY MadeBy
  <2>1. Append(path, e) # <<>>
    BY <1>3
  <2> QED
    BY <2>1 DEF Entry
<1>5. IsFiniteSet(visited) /\ Cardinality(visited) \in Nat /\ Cardinality(visited') = Cardinality(visited) + 1
  BY <1>1, <1>2, WalkAssumption, FS_Subset, FS_CardinalityType, FS_AddElement
<1>6. ASSUME visited = {}, via = <<>>, queue \in {<<>>, <<Entry(query.start, <<>>)>>}
      PROVE  TreeInv'
  <2>1. queue = <<Entry(query.start, <<>>)>>
    BY <1>1, <1>6
  <2>2. n = query.start /\ path = <<>> /\ Elements(Tail(queue)) = {}
    BY <2>1 DEF Entry, Elements
  <2>3. via' = <<>>
    BY <1>6, <2>2 DEF Visit
  <2>4. visited' = {query.start} /\ visited' # {}
    BY <1>2, <1>6, <2>2
  <2>5. Before(query.start, via', Len(via') + 1) = {query.start}
    <3>1. 1 .. (Len(via') + 1) - 1 = {}
      BY <2>3
    <3> QED
      BY <3>1 DEF Before
  <2>6. Cardinality(visited') = 1
    BY <2>4, FS_Singleton
  <2>8. Len(via') = Cardinality(visited') - 1 /\ DOMAIN via' = {}
    BY <2>3, <2>6
  <2>7. \A x \in Elements(queue') : x.path # <<>>
    BY <1>2, <1>4, <2>2
  <2> QED
    BY <1>1, <2>4, <2>5, <2>7, <2>8 DEF TreeInv
<1>7. ASSUME visited # {}, \A x \in Elements(queue) : x.path # <<>>,
             Before(query.start, via, Len(via) + 1) = visited,
             Len(via) = Cardinality(visited) - 1,
             \A i \in DOMAIN via : Cardinality(Ends(via[i]) \cap Before(query.start, via, i)) = 1
      PROVE  TreeInv'
  <2>1. path # <<>> /\ last \in Edge
    BY <1>2, <1>3, <1>7 DEF Last
  <2>2. via' = Append(via, last)
    BY <2>1 DEF Visit
  <2>3. n \in Ends(last) /\ Other(last, n) \in visited
    BY <1>1, <1>2, <2>1 DEF SearchInv
  <2>4. Ends(last) = {n, Other(last, n)}
    BY <2>1, <2>3, OtherEnd
  <2>5. \A x \in Elements(queue') : x.path # <<>>
    BY <1>2, <1>3, <1>4, <1>7
  <2> HIDE DEF last, path
  <2>6. /\ \A i \in 1 .. Len(via) + 1 : Before(query.start, via', i) = Before(query.start, via, i)
        /\ Before(query.start, via', Len(via) + 2) = Before(query.start, via, Len(via) + 1) \cup Ends(last)
    BY <1>1, <2>1, <2>2, BeforeAppended
  <2>7. /\ Len(via) \in Nat /\ DOMAIN via = 1 .. Len(via)
        /\ Len(via') = Len(via) + 1 /\ Len(via') + 1 = Len(via) + 2
        /\ \A i \in DOMAIN via' : (i \in DOMAIN via /\ via'[i] = via[i]) \/ (i = Len(via) + 1 /\ via'[i] = last)
    <3>1. Len(via) \in Nat /\ DOMAIN via = 1 .. Len(via)
      BY <1>1, LenProperties
    <3>2. /\ Len(via') = Len(via) + 1
          /\ \A i \in DOMAIN via' : i \in DOMAIN via \/ (i = Len(via) + 1 /\ via'[i] = last)
          /\ \A i \in DOMAIN via : via'[i] = via[i]
      <4> DEFINE longer == Append(via, last)
      <4>1. /\ Len(longer) = Len(via) + 1
            /\ \A i \in DOMAIN longer : i \in DOMAIN via \/ (i = Len(via) + 1 /\ longer[i] = last)
            /\ \A i \in DOMAIN via : longer[i] = via[i]
        BY <1>1, <2>1, Appended
      <4>2. via' = longer
        BY <2>2
      <4> HIDE DEF longer
      <4> QED
        BY <4>1, <4>2
    <3> QED
      BY <3>1, <3>2
  <2>8. Before(query.start, via', Len(via') + 1) = visited'
    BY <1>2, <1>7, <2>3, <2>4, <2>6, <2>7
  <2>9. ASSUME NEW i \in DOMAIN via'
        PROVE  Cardinality(Ends(via'[i]) \cap Before(query.start, via', i)) = 1
    <3>1. CASE i \in DOMAIN via /\ via'[i] = via[i]
      <4>1. i \in 1 .. Len(via) + 1
        BY <2>7, <3>1
      <4> QED
        BY <1>7, <2>6, <3>1, <4>1
    <3>2. CASE i = Len(via) + 1 /\ via'[i] = last
      <4>1. Ends(last) \cap visited = {Other(last, n)}
        BY <1>2, <2>3, <2>4
      <4>2. Len(via) + 1 \in 1 .. Len(via) + 1
        BY <2>7
      <4>3. Before(query.start, via', i) = visited
        BY <1>7, <2>6, <3>2, <4>2
      <4> QED
        BY <3>2, <4>1, <4>3, FS_Singleton
    <3> QED
      BY <2>7, <3>1, <3>2
  <2>10. Len(via') = Cardinality(visited') - 1 /\ visited' # {}
    BY <1>2, <1>5, <1>7, <2>7, SMTT(30)
  <2> QED
    BY <1>1, <2>5, <2>8, <2>9, <2>10 DEF TreeInv, Ends
<1> QED
  BY <1>1, <1>6, <1>7 DEF TreeInv

LEMMA TreeKept ==
    ASSUME OnceInv, TreeInv, [Next]_wvars
    PROVE  TreeInv'
<1>1. WalkType
  BY DEF OnceInv
<1>2. CASE UNCHANGED wvars
  BY <1>2 DEF wvars, TreeInv
<1>3. ASSUME NEW q \in Queries,
             AskUnknown(q) \/ StartBreadthFirst(q) \/ StartDepthFirst(q) \/ StartClimb(q),
             q.op = "bfs"
      PROVE  TreeInv'
  <2>1. visited' = {} /\ via' = <<>> /\ queue' \in {<<>>, <<Entry(q.start, <<>>)>>} /\ query' = q
    BY <1>1, <1>3 DEF WalkType, AskUnknown, StartBreadthFirst, StartDepthFirst, StartClimb, Recursive
  <2> QED
    BY <2>1 DEF TreeInv
<1>4. CASE Return
  BY <1>4 DEF Return, NoQuery, TreeInv
<1>5. CASE Visit
  <2>1. query' = query
    BY <1>5 DEF Visit
  <2> QED
    BY <1>5, <2>1, VisitTree DEF TreeInv
<1>6. ASSUME FinishSearch \/ SkipVisited, query.op = "bfs"
      PROVE  TreeInv'
  <2>1. UNCHANGED <<query, via, visited>> /\ queue \in Seq(EntryType)
    BY <1>1, <1>6 DEF WalkType, FinishSearch, SkipVisited
  <2>2. queue' = queue \/ (visited # {} /\ Elements(queue') \subseteq Elements(queue))
    <3>1. CASE FinishSearch
      BY <3>1 DEF FinishSearch
    <3>2. CASE SkipVisited
      BY <2>1, <3>2, Dequeued DEF SkipVisited, Reached
    <3> QED
      BY <1>6, <3>1, <3>2
  <2>5. CASE visited = {} /\ via = <<>> /\ queue \in {<<>>, <<Entry(query.start, <<>>)>>}
    BY <2>1, <2>2, <2>5 DEF TreeInv
  <2>6. CASE ~(visited = {} /\ via = <<>> /\ queue \in {<<>>, <<Entry(query.start, <<>>)>>})
    BY <1>6, <2>1, <2>2, <2>6 DEF TreeInv
  <2> QED
    BY <2>5, <2>6
<1>7. ASSUME query' = query, query.op # "bfs" PROVE TreeInv'
  BY <1>7 DEF TreeInv
<1>8. ASSUME NEW q \in Queries,
             AskUnknown(q) \/ StartBreadthFirst(q) \/ StartDepthFirst(q) \/ StartClimb(q),
             q.op # "bfs"
      PROVE  TreeInv'
  <2>1. query' = q
    BY <1>8 DEF AskUnknown, StartBreadthFirst, StartDepthFirst, StartClimb
  <2> QED
    BY <1>8, <2>1 DEF TreeInv
<1>9. CASE FinishSearch \/ SkipVisited
  BY <1>6, <1>7, <1>9 DEF FinishSearch, SkipVisited
<1>10. CASE FollowChild \/ Follow \/ LoopsEnd \/ SecondWalk \/ FinishWalk \/ Climb \/ FinishClimb
  <2>1. query' = query
    BY <1>10 DEF FollowChild, Follow, LoopsEnd, SecondWalk, FinishWalk, Climb, FinishClimb
  <2>2. query.op # "bfs"
    BY <1>10 DEF FollowChild, Follow, LoopsEnd, SecondWalk, FinishWalk, Climb, FinishClimb, Recursing, Recursive
  <2> QED
    BY <1>7, <2>1, <2>2
<1> QED
  BY <1>2, <1>3, <1>4, <1>5, <1>8, <1>9, <1>10, StepsAre DEF WalkStep

LEMMA TreeInit == Init => TreeInv
BY DEF Init, TreeInv, NoQuery

\* Whatever the graph, the edges traverse_bfs returns are a tree over the nodes
\* it has visited: one edge fewer than nodes, each reaching exactly one new one.
THEOREM SearchTree == Spec => []BreadthFirstTree
<1>1. Init => TreeInv
  BY TreeInit
<1>2. TreeInv => BreadthFirstTree
  BY DEF TreeInv, BreadthFirstTree, Before
<1>3. Spec => [](OnceInv /\ TreeInv)
  <2>1. Init => OnceInv /\ TreeInv
    BY <1>1, OnceInit
  <2>2. OnceInv /\ TreeInv /\ [Next]_wvars => (OnceInv /\ TreeInv)'
    BY OnceKept, TreeKept
  <2> QED
    BY <2>1, <2>2, PTL DEF Spec
<1> QED
  BY <1>2, <1>3, PTL

-----------------------------------------------------------------------------
(* Chains. *)

\* A chain of as many subsets as the set has elements stops growing, or ends
\* in the whole set.
LEMMA Chain ==
    ASSUME NEW A, IsFiniteSet(A), NEW N \in Nat, Cardinality(A) = N, NEW g,
           \A i \in 0 .. N : g[i] \subseteq A,
           \A i \in 0 .. N : i # N => g[i] \subseteq g[i + 1]
    PROVE  g[N] = A \/ \E i \in 0 .. N : i # N /\ g[i] = g[i + 1]
<1> SUFFICES ASSUME \A i \in 0 .. N : i # N => g[i] # g[i + 1]
             PROVE  g[N] = A
  OBVIOUS
<1> DEFINE S == {i \in Nat : i <= N => Cardinality(g[i]) >= i}
<1>1. \A i \in 0 .. N : IsFiniteSet(g[i]) /\ Cardinality(g[i]) \in Nat /\ Cardinality(g[i]) <= N
  BY FS_Subset, FS_CardinalityType
<1>2. 0 \in S
  <2>1. 0 \in 0 .. N
    OBVIOUS
  <2> QED
    BY <1>1, <2>1
<1>3. ASSUME NEW i \in Nat, i \in S PROVE i + 1 \in S
  <2> SUFFICES ASSUME i + 1 <= N PROVE Cardinality(g[i + 1]) >= i + 1
    OBVIOUS
  <2>1. i \in 0 .. N /\ i + 1 \in 0 .. N /\ i # N /\ i <= N
    OBVIOUS
  <2>2. g[i] \subseteq g[i + 1] /\ g[i] # g[i + 1]
    BY <2>1
  <2>3. Cardinality(g[i]) < Cardinality(g[i + 1])
    <3>1. IsFiniteSet(g[i + 1]) /\ Cardinality(g[i]) \in Nat /\ Cardinality(g[i + 1]) \in Nat
      BY <1>1, <2>1
    <3>2. /\ Cardinality(g[i]) <= Cardinality(g[i + 1])
          /\ Cardinality(g[i]) = Cardinality(g[i + 1]) => g[i] = g[i + 1]
      BY <2>2, <3>1, FS_Subset
    <3> QED
      BY <2>2, <3>1, <3>2
  <2>4. Cardinality(g[i]) >= i
    BY <1>3, <2>1
  <2> QED
    BY <1>1, <2>1, <2>3, <2>4
<1> HIDE DEF S
<1>4. N \in S
  BY <1>2, <1>3, SetInduction
<1>5. N \in 0 .. N /\ N <= N
  OBVIOUS
<1>6. Cardinality(g[N]) = Cardinality(A)
  BY <1>1, <1>4, <1>5 DEF S
<1> QED
  BY <1>1, <1>5, <1>6, FS_Subset

-----------------------------------------------------------------------------
(* What containers contain. *)

\* One level more.
Opened(rule, S) == S \cup ((UNION {{e.target : e \in Children(rule, n)} : n \in S}) \cap graph.nodes)

Opening(rule, S, k, g) ==
    g = [i \in 0 .. k |-> IF i = 0 THEN S ELSE Opened(rule, g[i - 1])]

LEMMA OpeningExists ==
    ASSUME NEW rule, NEW S
    PROVE  \A k \in Nat : \E g : Opening(rule, S, k, g)
<1> DEFINE K == {k \in Nat : \E g : Opening(rule, S, k, g)}
<1>1. 0 \in K
  <2>1. Opening(rule, S, 0, [i \in 0 .. 0 |-> S])
    BY DEF Opening
  <2> QED
    BY <2>1
<1>2. ASSUME NEW k \in Nat, k \in K PROVE k + 1 \in K
  <2>1. PICK g : Opening(rule, S, k, g)
    BY <1>2
  <2> DEFINE h == [i \in 0 .. k + 1 |-> IF i = k + 1 THEN Opened(rule, g[k]) ELSE g[i]]
  <2>2. \A i \in 0 .. k : g[i] = IF i = 0 THEN S ELSE Opened(rule, g[i - 1])
    BY <2>1 DEF Opening
  <2>3. ASSUME NEW i \in 0 .. k + 1
        PROVE  h[i] = IF i = 0 THEN S ELSE Opened(rule, h[i - 1])
    <3>1. CASE i = k + 1
      <4>1. k \in 0 .. k + 1 /\ k # k + 1 /\ i # 0 /\ i - 1 = k
        BY <3>1
      <4> QED
        BY <3>1, <4>1
    <3>2. CASE i # k + 1
      <4>1. i \in 0 .. k /\ (i # 0 => i - 1 \in 0 .. k + 1 /\ i - 1 # k + 1)
        BY <3>2
      <4> QED
        BY <2>2, <3>2, <4>1
    <3> QED
      BY <3>1, <3>2
  <2>4. h = [i \in 0 .. k + 1 |-> h[i]]
    OBVIOUS
  <2> HIDE DEF h
  <2>5. Opening(rule, S, k + 1, h)
    BY <2>3, <2>4 DEF Opening
  <2> QED
    BY <2>5
<1> HIDE DEF K
<1>3. \A k \in Nat : k \in K
  BY <1>1, <1>2, SetInduction
<1> QED
  BY <1>3 DEF K

\* Spread holds what it starts from, and what any container in it contains.
LEMMA SpreadClosed ==
    ASSUME graph \in Graphs, NEW rule, NEW S \in SUBSET Id
    PROVE  /\ S \subseteq Spread(rule, S) /\ Spread(rule, S) \subseteq Id
           /\ Opened(rule, Spread(rule, S)) = Spread(rule, S)
<1> DEFINE N == Cardinality(Id)
           g == CHOOSE f : Opening(rule, S, N, f)
<1>1. N \in Nat
  BY WalkAssumption, FS_CardinalityType
<1>2. Opening(rule, S, N, g)
  BY <1>1, OpeningExists
<1>3. Spread(rule, S) = g[N]
  BY DEF Spread, Opening, Opened
<1> HIDE DEF g
<1>4. \A i \in 0 .. N : g[i] = IF i = 0 THEN S ELSE Opened(rule, g[i - 1])
  BY <1>2 DEF Opening
<1> HIDE DEF N
<1>5. g[0] = S /\ \A i \in 0 .. N : i # N => g[i + 1] = Opened(rule, g[i])
  <2>1. 0 \in 0 .. N
    BY <1>1
  <2>2. \A i \in 0 .. N : i # N => i + 1 \in 0 .. N /\ i + 1 # 0 /\ (i + 1) - 1 = i
    BY <1>1
  <2> QED
    BY <1>4, <2>1, <2>2
<1>6. \A T : T \subseteq Opened(rule, T)
  BY DEF Opened
<1>7. \A T \in SUBSET Id : Opened(rule, T) \subseteq Id
  BY GraphType DEF Opened
<1>8. \A i \in 0 .. N : g[i] \subseteq Id
  <2> DEFINE K == {i \in Nat : i <= N => g[i] \subseteq Id}
  <2>1. 0 \in K
    BY <1>5
  <2>2. ASSUME NEW i \in Nat, i \in K PROVE i + 1 \in K
    <3> SUFFICES ASSUME i + 1 <= N PROVE g[i + 1] \subseteq Id
      OBVIOUS
    <3>1. i \in 0 .. N /\ i # N /\ i <= N
      BY <1>1
    <3> QED
      BY <1>5, <1>7, <2>2, <3>1
  <2> HIDE DEF K
  <2>3. \A i \in Nat : i \in K
    BY <2>1, <2>2, SetInduction
  <2> QED
    BY <1>1, <2>3 DEF K
<1>9. \A i \in 0 .. N : i # N => g[i] \subseteq g[i + 1]
  BY <1>5, <1>6
<1>10. \A i \in 0 .. N : S \subseteq g[i]
  <2> DEFINE K == {i \in Nat : i <= N => S \subseteq g[i]}
  <2>1. 0 \in K
    BY <1>5
  <2>2. ASSUME NEW i \in Nat, i \in K PROVE i + 1 \in K
    <3> SUFFICES ASSUME i + 1 <= N PROVE S \subseteq g[i + 1]
      OBVIOUS
    <3>1. i \in 0 .. N /\ i # N /\ i <= N
      BY <1>1
    <3> QED
      BY <1>9, <2>2, <3>1
  <2> HIDE DEF K
  <2>3. \A i \in Nat : i \in K
    BY <2>1, <2>2, SetInduction
  <2> QED
    BY <1>1, <2>3 DEF K
<1>11. g[N] = Id \/ \E i \in 0 .. N : i # N /\ g[i] = g[i + 1]
  BY <1>1, <1>8, <1>9, Chain, WalkAssumption DEF N
<1>12. ASSUME NEW i \in 0 .. N, i # N, g[i] = g[i + 1] PROVE Opened(rule, g[N]) = g[N]
  <2> DEFINE K == {j \in Nat : i + j <= N => g[i + j] = g[i]}
  <2>1. 0 \in K
    BY <1>1
  <2>2. ASSUME NEW j \in Nat, j \in K PROVE j + 1 \in K
    <3> SUFFICES ASSUME i + (j + 1) <= N PROVE g[i + (j + 1)] = g[i]
      OBVIOUS
    <3>1. i + j \in 0 .. N /\ i + j # N /\ i + j <= N /\ (i + j) + 1 = i + (j + 1)
      BY <1>1
    <3>2. g[i + (j + 1)] = Opened(rule, g[i + j])
      BY <1>5, <3>1
    <3>3. g[i + j] = g[i]
      BY <2>2, <3>1
    <3> QED
      BY <1>5, <1>12, <3>2, <3>3
  <2> HIDE DEF K
  <2>3. \A j \in Nat : j \in K
    BY <2>1, <2>2, SetInduction
  <2>4. N - i \in Nat /\ i + (N - i) = N /\ i + (N - i) <= N
    BY <1>1
  <2>5. g[N] = g[i]
    BY <2>3, <2>4 DEF K
  <2> QED
    BY <1>5, <1>12, <2>5
<1>13. g[N] = Id => Opened(rule, g[N]) = g[N]
  BY <1>6, <1>7
<1>14. N \in 0 .. N
  BY <1>1
<1> QED
  BY <1>3, <1>8, <1>10, <1>11, <1>12, <1>13, <1>14

-----------------------------------------------------------------------------
(* The neighbourhoods. *)

\* One hop more.
Hopped(rule, q, S) == Spread(rule, S) \cup Around(rule, q, Spread(rule, S))

Hopping(rule, q, k, g) ==
    g = [i \in 0 .. k |-> IF i = 0 THEN {q.start} ELSE Hopped(rule, q, g[i - 1])]

LEMMA HoppingExists ==
    ASSUME NEW rule, NEW q
    PROVE  \A k \in Nat : \E g : Hopping(rule, q, k, g)
<1> DEFINE K == {k \in Nat : \E g : Hopping(rule, q, k, g)}
<1>1. 0 \in K
  <2>1. Hopping(rule, q, 0, [i \in 0 .. 0 |-> {q.start}])
    BY DEF Hopping
  <2> QED
    BY <2>1
<1>2. ASSUME NEW k \in Nat, k \in K PROVE k + 1 \in K
  <2>1. PICK g : Hopping(rule, q, k, g)
    BY <1>2
  <2> DEFINE h == [i \in 0 .. k + 1 |-> IF i = k + 1 THEN Hopped(rule, q, g[k]) ELSE g[i]]
  <2>2. \A i \in 0 .. k : g[i] = IF i = 0 THEN {q.start} ELSE Hopped(rule, q, g[i - 1])
    BY <2>1 DEF Hopping
  <2>3. ASSUME NEW i \in 0 .. k + 1
        PROVE  h[i] = IF i = 0 THEN {q.start} ELSE Hopped(rule, q, h[i - 1])
    <3>1. CASE i = k + 1
      <4>1. k \in 0 .. k + 1 /\ k # k + 1 /\ i # 0 /\ i - 1 = k
        BY <3>1
      <4> QED
        BY <3>1, <4>1
    <3>2. CASE i # k + 1
      <4>1. i \in 0 .. k /\ (i # 0 => i - 1 \in 0 .. k + 1 /\ i - 1 # k + 1)
        BY <3>2
      <4> QED
        BY <2>2, <3>2, <4>1
    <3> QED
      BY <3>1, <3>2
  <2>4. h = [i \in 0 .. k + 1 |-> h[i]]
    OBVIOUS
  <2> HIDE DEF h
  <2>5. Hopping(rule, q, k + 1, h)
    BY <2>3, <2>4 DEF Hopping
  <2> QED
    BY <2>5
<1> HIDE DEF K
<1>3. \A k \in Nat : k \in K
  BY <1>1, <1>2, SetInduction
<1> QED
  BY <1>3 DEF K

\* The recursive function, unfolded.
LEMMA HoppingUnique ==
    ASSUME NEW rule, NEW q, NEW j \in Nat, NEW k \in Nat, j <= k,
           NEW g, Hopping(rule, q, j, g), NEW h, Hopping(rule, q, k, h)
    PROVE  \A i \in 0 .. j : g[i] = h[i]
<1> DEFINE K == {i \in Nat : i <= j => g[i] = h[i]}
<1>1. /\ \A i \in 0 .. j : g[i] = IF i = 0 THEN {q.start} ELSE Hopped(rule, q, g[i - 1])
      /\ \A i \in 0 .. k : h[i] = IF i = 0 THEN {q.start} ELSE Hopped(rule, q, h[i - 1])
  BY DEF Hopping
<1>2. 0 \in K
  BY <1>1
<1>3. ASSUME NEW i \in Nat, i \in K PROVE i + 1 \in K
  <2> SUFFICES ASSUME i + 1 <= j PROVE g[i + 1] = h[i + 1]
    OBVIOUS
  <2>1. i + 1 \in 0 .. j /\ i + 1 \in 0 .. k /\ i + 1 # 0 /\ (i + 1) - 1 = i /\ i <= j
    OBVIOUS
  <2> QED
    BY <1>1, <1>3, <2>1
<1> HIDE DEF K
<1>4. \A i \in Nat : i \in K
  BY <1>2, <1>3, SetInduction
<1> QED
  BY <1>4 DEF K

LEMMA WithinUnfolds ==
    ASSUME NEW rule, NEW q
    PROVE  /\ Within(rule, q, 0) = {q.start}
           /\ \A k \in Nat : Within(rule, q, k + 1) = Hopped(rule, q, Within(rule, q, k))
<1> DEFINE ball(k) == CHOOSE g : Hopping(rule, q, k, g)
<1>1. ASSUME NEW k \in Nat
      PROVE  Hopping(rule, q, k, ball(k)) /\ Within(rule, q, k) = ball(k)[k]
  <2>1. Hopping(rule, q, k, ball(k))
    BY HoppingExists
  <2>2. Within(rule, q, k) = ball(k)[k]
    BY DEF Within, Hopping, Hopped
  <2> QED
    BY <2>1, <2>2
<1> HIDE DEF ball
<1>2. ASSUME NEW k \in Nat, NEW i \in 0 .. k
      PROVE  ball(k)[i] = IF i = 0 THEN {q.start} ELSE Hopped(rule, q, ball(k)[i - 1])
  BY <1>1, <1>2 DEF Hopping
<1>3. Within(rule, q, 0) = {q.start}
  BY <1>1, <1>2
<1>4. ASSUME NEW k \in Nat
      PROVE  Within(rule, q, k + 1) = Hopped(rule, q, Within(rule, q, k))
  <2>1. k + 1 \in 0 .. k + 1 /\ k + 1 # 0 /\ (k + 1) - 1 = k /\ k + 1 \in Nat /\ k <= k + 1 /\ k \in 0 .. k
    OBVIOUS
  <2>2. ball(k + 1)[k + 1] = Hopped(rule, q, ball(k + 1)[k])
    BY <1>2, <2>1
  <2>3. ball(k)[k] = ball(k + 1)[k]
    BY <1>1, <2>1, HoppingUnique
  <2> QED
    BY <1>1, <2>1, <2>2, <2>3
<1> QED
  BY <1>3, <1>4

\* What lies within k hops lies within k + 1, with what the containers among
\* it contain and what is one accepted hop further.
LEMMA WithinGrows ==
    ASSUME graph \in Graphs, NEW rule, NEW q \in Query, NEW k \in Nat
    PROVE  /\ Within(rule, q, k) \subseteq Id
           /\ Within(rule, q, k) \subseteq Spread(rule, Within(rule, q, k))
           /\ Spread(rule, Within(rule, q, k)) \subseteq Within(rule, q, k + 1)
           /\ \A n \in Spread(rule, Within(rule, q, k)) :
                 /\ \A e \in Hops(rule, q, n) :
                       Other(e, n) \in Accepted(q) => Other(e, n) \in Within(rule, q, k + 1)
                 /\ \A e \in Children(rule, n) :
                       e.target \in graph.nodes => e.target \in Spread(rule, Within(rule, q, k))
<1> DEFINE W(i) == Within(rule, q, i)
<1>1. graph.nodes \subseteq Id /\ q.start \in Id
  BY GraphType DEF Query
<1>2. Accepted(q) \subseteq Id
  BY <1>1 DEF Accepted
<1>3. W(0) = {q.start} /\ \A i \in Nat : W(i + 1) = Hopped(rule, q, W(i))
  BY WithinUnfolds
<1> HIDE DEF W
<1>4. \A i \in Nat : W(i) \subseteq Id
  <2> DEFINE K == {i \in Nat : W(i) \subseteq Id}
  <2>1. 0 \in K
    BY <1>1, <1>3
  <2>2. ASSUME NEW i \in Nat, i \in K PROVE i + 1 \in K
    <3>1. W(i) \in SUBSET Id
      BY <2>2
    <3>2. Spread(rule, W(i)) \subseteq Id
      BY <3>1, SpreadClosed
    <3>3. Around(rule, q, Spread(rule, W(i))) \subseteq Id
      BY <1>2 DEF Around
    <3>4. W(i + 1) \subseteq Id
      BY <1>3, <3>2, <3>3 DEF Hopped
    <3> QED
      BY <3>4
  <2> HIDE DEF K
  <2>3. \A i \in Nat : i \in K
    BY <2>1, <2>2, SetInduction
  <2> QED
    BY <2>3 DEF K
<1>5. W(k) \in SUBSET Id
  BY <1>4
<1>6. /\ W(k) \subseteq Spread(rule, W(k))
      /\ Opened(rule, Spread(rule, W(k))) = Spread(rule, W(k))
  BY <1>5, SpreadClosed
<1>7. W(k + 1) = Spread(rule, W(k)) \cup Around(rule, q, Spread(rule, W(k)))
  BY <1>3 DEF Hopped
<1>8. ASSUME NEW n \in Spread(rule, W(k)), NEW e \in Hops(rule, q, n), Other(e, n) \in Accepted(q)
      PROVE  Other(e, n) \in W(k + 1)
  BY <1>7, <1>8 DEF Around
<1>9. ASSUME NEW n \in Spread(rule, W(k)), NEW e \in Children(rule, n), e.target \in graph.nodes
      PROVE  e.target \in Spread(rule, W(k))
  <2>1. e.target \in Opened(rule, Spread(rule, W(k)))
    BY <1>9 DEF Opened
  <2> QED
    BY <1>6, <2>1
<1> QED
  BY <1>5, <1>6, <1>7, <1>8, <1>9 DEF W

LEMMA WithinMonotone ==
    ASSUME graph \in Graphs, NEW rule, NEW q \in Query, NEW j \in Nat, NEW k \in Nat, j <= k
    PROVE  Within(rule, q, j) \subseteq Within(rule, q, k)
<1> DEFINE K == {i \in Nat : Within(rule, q, j) \subseteq Within(rule, q, j + i)}
<1>1. 0 \in K
  OBVIOUS
<1>2. ASSUME NEW i \in Nat, i \in K PROVE i + 1 \in K
  <2>1. j + i \in Nat /\ j + (i + 1) = (j + i) + 1
    OBVIOUS
  <2>2. Within(rule, q, j + i) \subseteq Within(rule, q, (j + i) + 1)
    BY <2>1, WithinGrows
  <2> QED
    BY <1>2, <2>1, <2>2
<1> HIDE DEF K
<1>3. \A i \in Nat : i \in K
  BY <1>1, <1>2, SetInduction
<1>4. k - j \in Nat /\ j + (k - j) = k
  OBVIOUS
<1> QED
  BY <1>3, <1>4 DEF K

\* Nothing is further away than there are nodes.
LEMMA WithinAll ==
    ASSUME graph \in Graphs, NEW rule, NEW q \in Query, NEW k \in Nat
    PROVE  Cardinality(Id) \in Nat /\ Within(rule, q, k) \subseteq Within(rule, q, Cardinality(Id))
<1> DEFINE N == Cardinality(Id)
           g == [i \in 0 .. N |-> Within(rule, q, i)]
<1>1. N \in Nat
  BY WalkAssumption, FS_CardinalityType
<1> HIDE DEF N
<1>2. \A i \in 0 .. N : i \in Nat
  BY <1>1
<1>3. \A i \in 0 .. N : g[i] \subseteq Id
  BY <1>2, WithinGrows
<1>4. ASSUME NEW i \in 0 .. N, i # N PROVE g[i] \subseteq g[i + 1]
  <2>1. i + 1 \in 0 .. N
    BY <1>1, <1>4
  <2>2. Within(rule, q, i) \subseteq Within(rule, q, i + 1)
    BY <1>2, WithinGrows
  <2> QED
    BY <2>1, <2>2
<1>5. g[N] = Id \/ \E i \in 0 .. N : i # N /\ g[i] = g[i + 1]
  <2> HIDE DEF g
  <2> QED
    BY <1>1, <1>3, <1>4, Chain, WalkAssumption DEF N
<1>6. ASSUME g[N] = Id PROVE Within(rule, q, k) \subseteq Within(rule, q, N)
  <2>1. Within(rule, q, N) = Id
    BY <1>1, <1>6
  <2> QED
    BY <2>1, WithinGrows
<1>7. ASSUME NEW i \in 0 .. N, i # N, g[i] = g[i + 1]
      PROVE  Within(rule, q, k) \subseteq Within(rule, q, N)
  <2>1. i \in Nat /\ i + 1 \in 0 .. N /\ i <= N
    BY <1>1, <1>7
  <2>2. Within(rule, q, i) = Within(rule, q, i + 1)
    BY <1>7, <2>1
  <2> DEFINE K == {j \in Nat : Within(rule, q, i + j) = Within(rule, q, i)}
  <2>3. 0 \in K
    BY <2>1
  <2>4. ASSUME NEW j \in Nat, j \in K PROVE j + 1 \in K
    <3>1. i + j \in Nat /\ i + (j + 1) = (i + j) + 1
      BY <2>1
    <3>2. /\ Within(rule, q, (i + j) + 1) = Hopped(rule, q, Within(rule, q, i + j))
          /\ Within(rule, q, i + 1) = Hopped(rule, q, Within(rule, q, i))
      BY <2>1, <3>1, WithinUnfolds
    <3>3. Within(rule, q, i + j) = Within(rule, q, i)
      BY <2>4
    <3> QED
      BY <2>2, <3>1, <3>2, <3>3
  <2> HIDE DEF K
  <2>5. \A j \in Nat : j \in K
    BY <2>3, <2>4, SetInduction
  <2>6. CASE k <= N
    BY <1>1, <2>6, WithinMonotone
  <2>7. CASE ~(k <= N)
    <3>1. k - i \in Nat /\ i + (k - i) = k
      BY <1>1, <2>1, <2>7
    <3>2. Within(rule, q, k) = Within(rule, q, i)
      BY <2>5, <3>1 DEF K
    <3> QED
      BY <1>1, <2>1, <3>2, WithinMonotone
  <2> QED
    BY <2>6, <2>7
<1> QED
  BY <1>1, <1>5, <1>6, <1>7 DEF N

\* The depth of a query's neighbourhood stands for every depth it may reach.
LEMMA WithinDeepest ==
    ASSUME graph \in Graphs, NEW rule, NEW q \in Query, NEW k \in Nat,
           q.op = "hierarchy" \/ k <= q.max_depth
    PROVE  Within(rule, q, k) \subseteq Within(rule, q, Depth(q))
<1>1. q.max_depth \in Nat
  BY DEF Query
<1>2. CASE q.op = "hierarchy" \/ q.max_depth > Cardinality(Id)
  BY <1>2, WithinAll DEF Depth
<1>3. CASE ~(q.op = "hierarchy" \/ q.max_depth > Cardinality(Id))
  BY <1>1, <1>3, WithinMonotone DEF Depth
<1> QED
  BY <1>2, <1>3

\* Nothing about distances changes while the graph stays.
LEMMA SameDistances ==
    ASSUME graph' = graph
    PROVE  /\ \A rule, q, k : Within(rule, q, k)' = Within(rule, q, k)
           /\ \A rule, S : Spread(rule, S)' = Spread(rule, S)
           /\ \A q : Neighbourhood(q)' = Neighbourhood(q)
<1>1. \A rule, S : Spread(rule, S)' = Spread(rule, S)
  BY DEF Spread, Children, Outgoing
<1>2. \A rule, q, S : Around(rule, q, S)' = Around(rule, q, S)
  BY DEF Around, Hops, AdjacentEdges, Outgoing, Incoming, Accepted
<1>3. \A rule, q, k : Within(rule, q, k)' = Within(rule, q, k)
  BY DEF Within, Spread, Children, Around, Hops, AdjacentEdges, Outgoing, Incoming, Accepted
<1>4. \A q : Neighbourhood(q)' = Neighbourhood(q)
  BY <1>3 DEF Neighbourhood
<1> QED
  BY <1>1, <1>3, <1>4

-----------------------------------------------------------------------------
(* Nothing from too far away.                                              *)
(*                                                                         *)
(* The node of a frame lies as far from the start as the frame is deep, or *)
(* is contained in one that does.  The node of an entry lies as far away   *)
(* as its path is long.                                                    *)

FrameNear(rule, q, fr) ==
    /\ fr.at \in Spread(rule, Within(rule, q, fr.depth))
    /\ q.op # "hierarchy" => fr.depth < q.max_depth
    /\ fr.hops \subseteq Hops(rule, q, fr.at)
    /\ fr.children \subseteq Children(rule, fr.at)

EntryNear(q, x) ==
    /\ x.at \in Within("dfs", q, Len(x.path))
    /\ Len(x.path) <= q.max_depth

RecursiveNear ==
    query.op \in Recursive =>
        /\ \A k \in DOMAIN stack : FrameNear(Rule, query, stack[k])
        /\ stack # <<>> => query.start \in visited
        /\ query.op = "hierarchy" /\ pc = "first" => query.start \in visited
        /\ query.op = "hierarchy" /\ pc = "second" => stack = <<>>

SearchNear == query.op = "bfs" => \A x \in Elements(queue) : EntryNear(query, x)

NearInv == RecursiveNear /\ SearchNear /\ WithinDepth

LEMMA SameNear ==
    ASSUME graph' = graph
    PROVE  /\ \A rule, q, fr : FrameNear(rule, q, fr)' = FrameNear(rule, q, fr)
           /\ \A q, x : EntryNear(q, x)' = EntryNear(q, x)
<1>1. \A rule, q, n : Hops(rule, q, n)' = Hops(rule, q, n) /\ Children(rule, n)' = Children(rule, n)
  BY DEF Hops, AdjacentEdges, Outgoing, Incoming, Children
<1>2. \A rule, q, k : Within(rule, q, k)' = Within(rule, q, k)
  BY SameDistances
<1>3. \A rule, q, fr : Spread(rule, Within(rule, q, fr.depth))' = Spread(rule, Within(rule, q, fr.depth))
  BY DEF Spread, Within, Spread, Children, Around, Hops, AdjacentEdges, Outgoing, Incoming, Accepted
<1> QED
  BY <1>1, <1>2, <1>3 DEF FrameNear, EntryNear

LEMMA RuleIs ==
    ASSUME NEW q \in Query, q.op \in Recursive, NEW pass
    PROVE  /\ q.op # "hierarchy" => /\ RuleOf(q, pass) \in Rules(q)
                                    /\ RuleOf(q, pass) \notin {"type_ancestors", "type_descendants"}
           /\ q.op = "hierarchy" /\ pass = "first" => RuleOf(q, pass) \in Rules(q)
BY DEF RuleOf, Rules, Recursive

\* What lies within a query's depth belongs to its answer.
LEMMA NearAnswer ==
    ASSUME graph \in Graphs, NEW q \in Query, NEW rule \in Rules(q), NEW k \in Nat,
           q.op = "hierarchy" \/ k <= q.max_depth,
           NEW m \in Within(rule, q, k), m = q.start => q.start \in StartFound(q)
    PROVE  m \in Neighbourhood(q)
<1>1. m \in Within(rule, q, Depth(q))
  BY WithinDeepest
<1>2. m \in UNION {Within(r, q, Depth(q)) : r \in Rules(q)}
  BY <1>1
<1> QED
  BY <1>2 DEF Neighbourhood

\* The frame a call pushes.
LEMMA CallNear ==
    ASSUME graph \in Graphs, NEW q \in Query, q.op \in Recursive, NEW pass,
           NEW n \in Id, NEW depth \in Nat, NEW seen \in SUBSET Id, NEW ns,
           NEW fs \in Seq(FrameType),
           Call(RuleOf(q, pass), q, n, depth, seen, ns, fs),
           n \in Spread(RuleOf(q, pass), Within(RuleOf(q, pass), q, depth)),
           \A k \in DOMAIN fs : FrameNear(RuleOf(q, pass), q, fs[k])
    PROVE  \A k \in DOMAIN stack' : FrameNear(RuleOf(q, pass), q, stack'[k])
<1> DEFINE rule == RuleOf(q, pass)
           fr == Frame(rule, q, n, depth)
<1>1. rule \in RecRule /\ (q.op # "hierarchy" => rule \notin {"type_ancestors", "type_descendants"})
  BY RuleTyped, RuleIs
<1> HIDE DEF rule
<1>2. fr \in FrameType
  BY <1>1, FrameTyped
<1>3. CASE Enters(rule, q, n, depth, seen, ns) /\ stack' = <<fr>> \o fs
  <2>1. FrameNear(rule, q, fr)
    BY <1>1, <1>3 DEF FrameNear, Frame, Enters, rule
  <2> HIDE DEF fr
  <2>2. \A k \in DOMAIN stack' : \/ k = 1 /\ stack'[k] = fr
                                 \/ k - 1 \in DOMAIN fs /\ stack'[k] = fs[k - 1]
    BY <1>2, <1>3, Pushed
  <2> QED
    BY <2>1, <2>2 DEF rule
<1>4. CASE stack' = fs
  BY <1>4 DEF rule
<1> QED
  BY <1>3, <1>4 DEF Call, rule

\* The two loops.
LEMMA LoopNear ==
    ASSUME WalkType, NearInv, FollowChild \/ Follow
    PROVE  NearInv'
<1>1. /\ query \in Query /\ query.op \in Recursive /\ stack \in Seq(FrameType) /\ stack # <<>>
      /\ Top \in FrameType /\ 1 \in DOMAIN stack /\ Top = stack[1] /\ Top = Head(stack)
      /\ graph \in Graphs /\ visited \in SUBSET Id /\ query.start \in visited
      /\ UNCHANGED <<graph, query, pc>>
  BY TopTyped DEF FollowChild, Follow, Top, WalkType, NearInv, RecursiveNear
<1>2. /\ \A k \in DOMAIN stack : FrameNear(Rule, query, stack[k])
      /\ found \subseteq Neighbourhood(query)
      /\ query.op = "hierarchy" => pc = "first"
  BY <1>1 DEF NearInv, RecursiveNear, WithinDepth, Bounded, FollowChild, Follow, Recursing
<1> DEFINE W(k) == Within(Rule, query, k)
<1>3. /\ Rule \in Rules(query) /\ Rule = RuleOf(query, pc) /\ Top.depth \in Nat /\ Top.depth + 1 \in Nat
      /\ query.op = "hierarchy" \/ Top.depth + 1 <= query.max_depth
      /\ Top.at \in Spread(Rule, W(Top.depth))
      /\ Top.hops \subseteq Hops(Rule, query, Top.at)
      /\ Top.children \subseteq Children(Rule, Top.at)
  <2>1. Rule \in Rules(query) /\ Rule = RuleOf(query, pc)
    BY <1>1, <1>2, RuleIs DEF Rule
  <2>2. Top.depth \in Nat /\ query.max_depth \in Nat
    BY <1>1 DEF FrameType, Query
  <2>3. FrameNear(Rule, query, Top)
    BY <1>1, <1>2
  <2> QED
    BY <2>1, <2>2, <2>3 DEF FrameNear
<1>4. /\ W(Top.depth) \subseteq Spread(Rule, W(Top.depth))
      /\ Spread(Rule, W(Top.depth)) \subseteq W(Top.depth + 1)
      /\ W(Top.depth + 1) \subseteq Spread(Rule, W(Top.depth + 1))
      /\ \A e \in Top.hops : Other(e, Top.at) \in Accepted(query) => Other(e, Top.at) \in W(Top.depth + 1)
      /\ \A e \in Top.children : e.target \in graph.nodes => e.target \in Spread(Rule, W(Top.depth))
  <2>1. /\ W(Top.depth) \subseteq Spread(Rule, W(Top.depth))
        /\ Spread(Rule, W(Top.depth)) \subseteq W(Top.depth + 1)
        /\ \A n \in Spread(Rule, W(Top.depth)) :
              /\ \A e \in Hops(Rule, query, n) :
                    Other(e, n) \in Accepted(query) => Other(e, n) \in W(Top.depth + 1)
              /\ \A e \in Children(Rule, n) :
                    e.target \in graph.nodes => e.target \in Spread(Rule, W(Top.depth))
    BY <1>1, <1>3, WithinGrows
  <2>2. W(Top.depth + 1) \subseteq Spread(Rule, W(Top.depth + 1))
    BY <1>1, <1>3, WithinGrows
  <2> QED
    BY <1>3, <2>1, <2>2
<1> HIDE DEF W
\* Either loop leaves the frames in place, takes an edge off the first, and
\* calls on a node that is near enough.
<1>5. \E fr \in FrameType, rest \in Seq(FrameType) :
         /\ fr.at = Top.at /\ fr.depth = Top.depth
         /\ fr.hops \subseteq Top.hops /\ fr.children \subseteq Top.children
         /\ rest = <<fr>> \o Tail(stack)
         /\ \/ stack' = rest /\ UNCHANGED <<found, via, visited>>
            \/ \E m \in Id, d \in Nat :
                 /\ m \in Spread(Rule, W(d)) /\ m \in W(Top.depth + 1)
                 /\ m = query.start => query.start \in StartFound(query)
                 /\ found' = found \cup {m}
                 /\ Call(Rule, query, m, d, visited, found', rest)
  <2>1. CASE FollowChild
    <3>1. PICK e \in Top.children, rest \in Seq(FrameType) :
              /\ e \in Edge /\ rest = <<[Top EXCEPT !.children = @ \ {e}]>> \o Tail(stack)
              /\ [Top EXCEPT !.children = @ \ {e}] \in FrameType
              /\ \/ /\ e.target \in Id \ visited /\ e.target \in graph.nodes
                    /\ found' = found \cup {e.target} /\ via' = Append(via, e)
                    /\ Call(Rule, query, e.target, Top.depth, visited, found', rest)
                 \/ stack' = rest /\ UNCHANGED <<found, via, visited>>
      BY <2>1, ChildStep
    <3> DEFINE fr == [Top EXCEPT !.children = @ \ {e}]
    <3>2. /\ fr \in FrameType /\ fr.at = Top.at /\ fr.depth = Top.depth
          /\ fr.hops \subseteq Top.hops /\ fr.children \subseteq Top.children
          /\ rest = <<fr>> \o Tail(stack)
      BY <1>1, <3>1 DEF FrameType
    <3> HIDE DEF fr
    <3>3. CASE stack' = rest /\ UNCHANGED <<found, via, visited>>
      BY <3>2, <3>3
    <3>4. CASE /\ e.target \in Id \ visited /\ e.target \in graph.nodes
               /\ found' = found \cup {e.target}
               /\ Call(Rule, query, e.target, Top.depth, visited, found', rest)
      <4>1. e.target \in Spread(Rule, W(Top.depth)) /\ e.target \in W(Top.depth + 1)
        BY <1>4, <3>4
      <4>2. e.target \in Id /\ e.target # query.start
        BY <1>1, <3>4
      <4> QED
        BY <1>3, <3>2, <3>4, <4>1, <4>2
    <3> QED
      BY <3>1, <3>3, <3>4
  <2>2. CASE Follow
    <3> DEFINE to(e) == Other(e, Top.at)
    <3>1. PICK e \in Top.hops, rest \in Seq(FrameType) :
              /\ e \in Edge /\ rest = <<[Top EXCEPT !.hops = @ \ {e}]>> \o Tail(stack)
              /\ [Top EXCEPT !.hops = @ \ {e}] \in FrameType
              /\ \/ /\ Fresh(to(e)) /\ to(e) \in Id
                    /\ found' = found \cup {to(e)} /\ via' = Append(via, e)
                    /\ Call(Rule, query, to(e), Top.depth + 1, visited, found', rest)
                 \/ stack' = rest /\ UNCHANGED <<found, via, visited>>
      BY <2>2, HopStep
    <3> DEFINE fr == [Top EXCEPT !.hops = @ \ {e}]
               m == to(e)
    <3>2. /\ fr \in FrameType /\ fr.at = Top.at /\ fr.depth = Top.depth
          /\ fr.hops \subseteq Top.hops /\ fr.children \subseteq Top.children
          /\ rest = <<fr>> \o Tail(stack)
      BY <1>1, <3>1 DEF FrameType
    <3> HIDE DEF fr
    <3>3. CASE stack' = rest /\ UNCHANGED <<found, via, visited>>
      BY <3>2, <3>3
    <3>4. CASE /\ Fresh(m) /\ m \in Id /\ found' = found \cup {m}
               /\ Call(Rule, query, m, Top.depth + 1, visited, found', rest)
      <4>1. m \in Accepted(query)
        BY <1>1, <3>4 DEF Accepted, Fresh, Rule, RuleOf, Recursive
      <4>2. m \in W(Top.depth + 1) /\ m \in Spread(Rule, W(Top.depth + 1))
        BY <1>4, <4>1
      <4>3. m = query.start => query.start \in StartFound(query)
        <5>1. CASE query.op \in {"call_graph", "hierarchy", "impact"}
          BY <5>1 DEF StartFound
        <5>2. CASE query.op \notin {"call_graph", "hierarchy", "impact"}
          BY <1>1, <3>4, <5>2 DEF Fresh, Rule, RuleOf, Recursive
        <5> QED
          BY <5>1, <5>2
      <4> HIDE DEF m
      <4> QED
        BY <1>3, <3>2, <3>4, <4>2, <4>3
    <3> QED
      BY <3>1, <3>3, <3>4
  <2> QED
    BY <2>1, <2>2
<1>6. PICK fr \in FrameType, rest \in Seq(FrameType) :
         /\ fr.at = Top.at /\ fr.depth = Top.depth
         /\ fr.hops \subseteq Top.hops /\ fr.children \subseteq Top.children
         /\ rest = <<fr>> \o Tail(stack)
         /\ \/ stack' = rest /\ UNCHANGED <<found, via, visited>>
            \/ \E m \in Id, d \in Nat :
                 /\ m \in Spread(Rule, W(d)) /\ m \in W(Top.depth + 1)
                 /\ m = query.start => query.start \in StartFound(query)
                 /\ found' = found \cup {m}
                 /\ Call(Rule, query, m, d, visited, found', rest)
  BY <1>5
<1>7. \A k \in DOMAIN rest : FrameNear(Rule, query, rest[k])
  <2>1. /\ DOMAIN rest = DOMAIN stack
        /\ \A i \in DOMAIN stack : rest[i] = IF i = 1 THEN fr ELSE stack[i]
    BY <1>1, <1>6, RestTyped
  <2>2. FrameNear(Rule, query, fr)
    BY <1>1, <1>2, <1>6 DEF FrameNear
  <2> QED
    BY <1>2, <2>1, <2>2
<1>8. /\ \A k \in DOMAIN stack' : FrameNear(Rule, query, stack'[k])
      /\ found' \subseteq Neighbourhood(query)
      /\ visited \subseteq visited'
  <2>1. CASE stack' = rest /\ UNCHANGED <<found, via, visited>>
    BY <1>2, <1>7, <2>1
  <2>2. ASSUME NEW m \in Id, NEW d \in Nat,
               m \in Spread(Rule, W(d)), m \in W(Top.depth + 1),
               m = query.start => query.start \in StartFound(query),
               found' = found \cup {m},
               Call(Rule, query, m, d, visited, found', rest)
        PROVE  /\ \A k \in DOMAIN stack' : FrameNear(Rule, query, stack'[k])
               /\ found' \subseteq Neighbourhood(query)
               /\ visited \subseteq visited'
    <3>1. m \in Neighbourhood(query)
      BY <1>1, <1>3, <2>2, NearAnswer DEF W
    <3>2. \A k \in DOMAIN stack' : FrameNear(Rule, query, stack'[k])
      <4>1. \A k \in DOMAIN rest : FrameNear(RuleOf(query, pc), query, rest[k])
        BY <1>3, <1>7
      <4>2. /\ Call(RuleOf(query, pc), query, m, d, visited, found', rest)
            /\ m \in Spread(RuleOf(query, pc), Within(RuleOf(query, pc), query, d))
        BY <1>3, <2>2 DEF W
      <4>3. \A k \in DOMAIN stack' : FrameNear(RuleOf(query, pc), query, stack'[k])
        BY <1>1, <4>1, <4>2, CallNear
      <4> QED
        BY <1>3, <4>3
    <3>3. visited \subseteq visited'
      BY <2>2 DEF Call
    <3> QED
      BY <1>2, <2>2, <3>1, <3>2, <3>3
  <2> QED
    BY <1>6, <2>1, <2>2
<1>9. RecursiveNear'
  <2>1. Rule' = Rule
    BY <1>1 DEF Rule, RuleOf
  <2>2. \A k \in DOMAIN stack' : FrameNear(Rule, query, stack[k])'
    BY <1>1, <1>8, <2>1, SameNear
  <2>3. query.op = "hierarchy" => pc = "first"
    BY <1>2
  <2>4. query.start \in visited'
    BY <1>1, <1>8
  <2> QED
    BY <1>1, <2>1, <2>2, <2>3, <2>4 DEF RecursiveNear
<1>10. SearchNear' /\ WithinDepth'
  BY <1>1, <1>8, SameDistances DEF SearchNear, WithinDepth, Recursive
<1> QED
  BY <1>9, <1>10 DEF NearInv

\* A query that begins is at its start.
LEMMA StartNear ==
    ASSUME graph \in Graphs, NEW q \in Query, NEW rule
    PROVE  /\ q.start \in Within(rule, q, 0)
           /\ q.start \in Spread(rule, Within(rule, q, 0))
           /\ StartFound(q) \subseteq Neighbourhood(q)
<1>1. q.start \in Within(rule, q, 0)
  BY WithinUnfolds
<1>2. q.start \in Spread(rule, Within(rule, q, 0))
  BY <1>1, WithinGrows
<1> QED
  BY <1>1, <1>2 DEF Neighbourhood

LEMMA AskNear ==
    ASSUME WalkType, NEW q \in Queries,
           AskUnknown(q) \/ StartBreadthFirst(q) \/ StartDepthFirst(q) \/ StartClimb(q)
    PROVE  NearInv'
<1>1. /\ q \in Query /\ graph \in Graphs /\ query' = q /\ graph' = graph /\ q.start \in Id
      /\ visited = {} /\ stack = <<>> /\ queue = <<>> /\ found = {} /\ q.max_depth \in Nat
  BY WalkAssumption DEF WalkType, Query, AskUnknown, StartBreadthFirst, StartDepthFirst, StartClimb
<1>2. WithinDepth'
  <2>1. found' \subseteq StartFound(q)
    BY <1>1 DEF AskUnknown, StartBreadthFirst, StartDepthFirst, StartClimb
  <2>2. found' \subseteq Neighbourhood(q)
    BY <1>1, <2>1, StartNear
  <2> QED
    BY <1>1, <2>2, SameDistances DEF WithinDepth
<1>3. SearchNear'
  <2> SUFFICES ASSUME q.op = "bfs", NEW x \in Elements(queue') PROVE EntryNear(q, x)
    BY <1>1, SameNear DEF SearchNear
  <2>1. CASE StartBreadthFirst(q)
    <3>1. x = Entry(q.start, <<>>)
      BY <2>1 DEF StartBreadthFirst, Elements
    <3>2. x.at = q.start /\ Len(x.path) = 0
      BY <3>1 DEF Entry
    <3> QED
      BY <1>1, <3>2, StartNear DEF EntryNear
  <2>2. CASE AskUnknown(q)
    BY <1>1, <2>2 DEF AskUnknown, Elements
  <2>3. CASE StartDepthFirst(q) \/ StartClimb(q)
    BY <2>3 DEF StartDepthFirst, StartClimb, Recursive
  <2> QED
    BY <2>1, <2>2, <2>3
<1>4. RecursiveNear'
  <2>1. CASE StartDepthFirst(q)
    <3> DEFINE rule == RuleOf(q, "first")
    <3>1. q.op \in Recursive /\ pc' = "first" /\ Call(rule, q, q.start, 0, {}, StartFound(q), <<>>)
      BY <2>1 DEF StartDepthFirst
    <3>2. /\ 0 \in Nat /\ {} \in SUBSET Id /\ <<>> \in Seq(FrameType)
          /\ q.start \in Spread(rule, Within(rule, q, 0))
          /\ \A k \in DOMAIN <<>> : FrameNear(rule, q, <<>>[k])
      BY <1>1, StartNear
    <3>3. \A k \in DOMAIN stack' : FrameNear(rule, q, stack'[k])
      BY <1>1, <3>1, <3>2, CallNear
    <3>4. Rule' = rule
      BY <1>1, <3>1 DEF Rule, RuleOf
    <3>5. /\ stack' # <<>> => q.start \in visited'
          /\ q.op = "hierarchy" => q.start \in visited'
      BY <3>1 DEF Call, Enters, RuleOf
    <3> HIDE DEF rule
    <3>6. \A k \in DOMAIN stack' : FrameNear(Rule, query, stack[k])'
      BY <1>1, <3>3, <3>4, SameNear
    <3> QED
      BY <1>1, <3>1, <3>5, <3>6 DEF RecursiveNear
  <2>2. CASE AskUnknown(q)
    BY <1>1, <2>2 DEF AskUnknown, RecursiveNear
  <2>3. CASE StartBreadthFirst(q) \/ StartClimb(q)
    BY <2>3 DEF StartBreadthFirst, StartClimb, RecursiveNear, Recursive
  <2> QED
    BY <2>1, <2>2, <2>3
<1> QED
  BY <1>2, <1>3, <1>4 DEF NearInv

LEMMA WalkNear ==
    ASSUME WalkType, NearInv, LoopsEnd \/ SecondWalk \/ FinishWalk
    PROVE  NearInv'
<1>1. /\ query \in Query /\ query.op \in Recursive /\ graph \in Graphs
      /\ UNCHANGED <<graph, query, found>> /\ query.start \in Id /\ visited \in SUBSET Id
      /\ stack \in Seq(FrameType)
  BY QueryType DEF WalkType, Query, LoopsEnd, SecondWalk, FinishWalk, Recursing, Recursive
<1>2. /\ \A k \in DOMAIN stack : FrameNear(Rule, query, stack[k])
      /\ stack # <<>> => query.start \in visited
      /\ query.op = "hierarchy" /\ pc = "first" => query.start \in visited
      /\ query.op = "hierarchy" /\ pc = "second" => stack = <<>>
  BY <1>1 DEF NearInv, RecursiveNear
<1>3. SearchNear' /\ WithinDepth'
  BY <1>1, SameDistances DEF NearInv, SearchNear, WithinDepth, Recursive
<1>4. CASE LoopsEnd
  <2>1. UNCHANGED <<pc, visited>> /\ stack' = Tail(stack) /\ stack # <<>> /\ Rule' = Rule
    BY <1>1, <1>4 DEF LoopsEnd, Recursing, Rule, RuleOf
  <2>2. \A k \in DOMAIN stack' : \E i \in DOMAIN stack : stack'[k] = stack[i]
    <3>1. /\ Tail(stack) \in Seq(FrameType) /\ Len(Tail(stack)) = Len(stack) - 1
          /\ \A i \in 1 .. Len(Tail(stack)) : Tail(stack)[i] = stack[i + 1]
      BY <1>1, <2>1, HeadTailProperties
    <3>2. /\ Len(stack) \in Nat \ {0} /\ DOMAIN stack = 1 .. Len(stack)
          /\ DOMAIN Tail(stack) = 1 .. Len(Tail(stack))
      BY <1>1, <2>1, <3>1, LenProperties, EmptySeq
    <3>3. \A i \in DOMAIN Tail(stack) : i + 1 \in DOMAIN stack
      BY <3>1, <3>2
    <3> QED
      BY <2>1, <3>1, <3>2, <3>3
  <2>3. \A k \in DOMAIN stack' : FrameNear(Rule, query, stack[k])'
    BY <1>1, <1>2, <2>1, <2>2, SameNear
  <2>4. query.start \in visited' /\ (query.op = "hierarchy" => pc' # "second")
    BY <1>2, <2>1
  <2> QED
    BY <1>1, <1>3, <2>3, <2>4 DEF NearInv, RecursiveNear
<1>5. CASE SecondWalk
  <2> DEFINE rule == RuleOf(query, "second")
             seen == IF query.op = "call_graph" THEN {} ELSE visited
  <2>1. /\ pc' = "second" /\ pc = "first" /\ query.op \in {"call_graph", "hierarchy"}
        /\ Call(rule, query, query.start, 0, seen, found, <<>>)
        /\ seen \in SUBSET Id /\ Rule' = rule
    BY <1>1, <1>5 DEF SecondWalk, Rule, RuleOf
  <2> HIDE DEF seen
  <2>2. /\ 0 \in Nat /\ <<>> \in Seq(FrameType)
        /\ query.start \in Spread(rule, Within(rule, query, 0))
        /\ \A k \in DOMAIN <<>> : FrameNear(rule, query, <<>>[k])
    BY <1>1, StartNear
  <2>3. \A k \in DOMAIN stack' : FrameNear(rule, query, stack'[k])
    BY <1>1, <2>1, <2>2, CallNear
  <2>4. /\ stack' # <<>> => query.start \in visited'
        /\ query.op = "hierarchy" => stack' = <<>>
    BY <1>2, <2>1 DEF Call, Enters, seen
  <2> HIDE DEF rule
  <2>5. \A k \in DOMAIN stack' : FrameNear(Rule, query, stack[k])'
    BY <1>1, <2>1, <2>3, SameNear
  <2> QED
    BY <1>1, <1>3, <2>1, <2>4, <2>5 DEF NearInv, RecursiveNear
<1>6. CASE FinishWalk
  <2>1. stack' = <<>> /\ pc' = "done"
    BY <1>6 DEF FinishWalk
  <2> QED
    BY <1>1, <1>3, <2>1 DEF NearInv, RecursiveNear
<1> QED
  BY <1>4, <1>5, <1>6

LEMMA VisitNear ==
    ASSUME WalkType, NearInv, TreeInv, Visit
    PROVE  NearInv'
<1> DEFINE n == Head(queue).at
           path == Head(queue).path
<1>1. /\ query \in Query /\ query.op \in {"bfs", "path"} /\ queue \in Seq(EntryType)
      /\ Head(queue) \in Elements(queue) /\ Head(queue) \in EntryType
      /\ graph \in Graphs /\ UNCHANGED <<graph, query, pc>> /\ query.max_depth \in Nat
      /\ \A x \in Elements(queue') : x \in Elements(Tail(queue)) \/ Made(x, n, path)
  BY VisitEntries DEF WalkType, Visit, Query
<1>2. n \in Id /\ path \in Seq(Edge) /\ Len(path) \in Nat /\ Elements(Tail(queue)) \subseteq Elements(queue)
  BY <1>1, Dequeued, LenProperties DEF EntryType, Visit, Reached
<1>3. CASE query.op = "path"
  BY <1>1, <1>3 DEF NearInv, RecursiveNear, SearchNear, WithinDepth, Bounded, Recursive
<1>4. CASE query.op = "bfs"
  <2>1. EntryNear(query, Head(queue)) /\ found \subseteq Neighbourhood(query)
    BY <1>1, <1>4 DEF NearInv, SearchNear, WithinDepth, Bounded
  <2>2. n \in Within("dfs", query, Len(path))
    BY <2>1 DEF EntryNear
  <2>3. \A e \in Leads(n) : Other(e, n) \in Within("dfs", query, Len(path) + 1)
    <3>1. \A e \in Leads(n) : /\ e \in Hops("dfs", query, n)
                              /\ Other(e, n) \in Accepted(query)
      BY <1>4 DEF Leads, Hops, Accepted
    <3>2. /\ n \in Spread("dfs", Within("dfs", query, Len(path)))
          /\ \A e \in Hops("dfs", query, n) :
                Other(e, n) \in Accepted(query) => Other(e, n) \in Within("dfs", query, Len(path) + 1)
      BY <1>1, <1>2, <2>2, WithinGrows
    <3> QED
      BY <3>1, <3>2
  <2>4. query.start \in visited \cup {n}
    <3>1. CASE visited = {}
      <4>1. queue = <<Entry(query.start, <<>>)>>
        BY <1>4, <3>1 DEF TreeInv, Visit, Reached
      <4> QED
        BY <4>1 DEF Entry
    <3>2. CASE visited # {}
      BY <1>4, <3>2 DEF TreeInv, Before
    <3> QED
      BY <3>1, <3>2
  <2>5. \A e \in Leads(n) : Other(e, n) # query.start
    BY <1>4, <2>4 DEF Leads
  <2> HIDE DEF n, path
  <2>6. ASSUME NEW x \in Elements(queue') PROVE EntryNear(query, x)
    <3>1. CASE x \in Elements(Tail(queue))
      BY <1>2, <1>4, <3>1 DEF NearInv, SearchNear
    <3>2. CASE Made(x, n, path)
      <4>1. PICK e \in Leads(n) : e \in Edge /\ x = Entry(Other(e, n), Append(path, e)) /\ Len(path) < query.max_depth
        BY <1>4, <3>2 DEF Made
      <4>2. Len(Append(path, e)) = Len(path) + 1
        BY <1>2, <4>1, Appended
      <4>3. x.at = Other(e, n) /\ Len(x.path) = Len(path) + 1 /\ Len(path) + 1 <= query.max_depth
        BY <1>1, <1>2, <4>1, <4>2 DEF Entry
      <4> QED
        BY <2>3, <4>1, <4>3 DEF EntryNear
    <3> QED
      BY <1>1, <3>1, <3>2 DEF n, path
  <2>7. \/ found' = found
        \/ Len(path) + 1 <= query.max_depth /\ found' = found \cup {Other(e, n) : e \in Leads(n)}
    <3>1. ~(Len(path) >= query.max_depth) => Len(path) + 1 <= query.max_depth
      BY <1>1, <1>2
    <3> QED
      BY <1>4, <3>1 DEF Visit, n, path
  <2>8. found' \subseteq Neighbourhood(query)
    <3> SUFFICES ASSUME NEW e \in Leads(n), Len(path) + 1 <= query.max_depth
                 PROVE  Other(e, n) \in Neighbourhood(query)
      BY <2>1, <2>7
    <3>1. "dfs" \in Rules(query)
      BY <1>4 DEF Rules
    <3>2. Other(e, n) \in Within("dfs", query, Len(path) + 1) /\ Other(e, n) # query.start
      BY <2>3, <2>5
    <3>3. Len(path) + 1 \in Nat
      BY <1>2
    <3> QED
      BY <1>1, <3>1, <3>2, <3>3, NearAnswer
  <2>9. SearchNear'
    BY <1>1, <2>6, SameNear DEF SearchNear
  <2>10. WithinDepth'
    BY <1>1, <2>8, SameDistances DEF WithinDepth
  <2> QED
    BY <1>1, <1>4, <2>9, <2>10 DEF NearInv, RecursiveNear, Recursive
<1> QED
  BY <1>1, <1>3, <1>4

LEMMA NearKept ==
    ASSUME OnceInv, TreeInv, NearInv, [Next]_wvars
    PROVE  NearInv'
<1>1. WalkType
  BY DEF OnceInv
<1>2. CASE UNCHANGED wvars
  <2>1. UNCHANGED <<graph, query, pc, found, visited, queue, stack>> /\ Rule' = Rule
    BY <1>2 DEF wvars, Rule, RuleOf
  <2>2. RecursiveNear'
    BY <2>1, SameNear DEF NearInv, RecursiveNear
  <2> QED
    BY <2>1, <2>2, SameNear, SameDistances DEF NearInv, SearchNear, WithinDepth
<1>3. CASE FinishSearch \/ SkipVisited
  <2>1. /\ UNCHANGED <<graph, query>> /\ query.op \in {"bfs", "path"} /\ queue \in Seq(EntryType)
        /\ query.op = "bfs" => found' = found
    BY <1>1, <1>3 DEF FinishSearch, SkipVisited, Searching, WalkType
  <2>2. Elements(queue') \subseteq Elements(queue)
    BY <1>3, <2>1, Dequeued DEF FinishSearch, SkipVisited, Reached
  <2>3. SearchNear'
    BY <2>1, <2>2, SameNear DEF NearInv, SearchNear
  <2> QED
    BY <2>1, <2>3, SameDistances DEF NearInv, RecursiveNear, WithinDepth, Bounded, Recursive
<1>4. CASE Climb \/ FinishClimb
  <2>1. query' = query /\ query.op = "ancestors"
    BY <1>4 DEF Climb, FinishClimb
  <2> QED
    BY <2>1 DEF NearInv, RecursiveNear, SearchNear, WithinDepth, Bounded, Recursive
<1>5. CASE Return
  <2>1. query' = NoQuery
    BY <1>5 DEF Return
  <2> QED
    BY <2>1 DEF NearInv, RecursiveNear, SearchNear, WithinDepth, Bounded, Recursive, NoQuery
<1> QED
  BY <1>1, <1>2, <1>3, <1>4, <1>5, StepsAre, AskNear, VisitNear, LoopNear, WalkNear DEF WalkStep

\* On every graph, no query collects a node that is missing, was filtered out,
\* or lies further away than it was asked to go.
THEOREM NothingTooFar == Spec => []WithinDepth
<1>1. Init => NearInv
  BY DEF Init, NearInv, RecursiveNear, SearchNear, WithinDepth, Bounded, Recursive, NoQuery
<1>2. Init => OnceInv /\ TreeInv /\ NearInv
  BY <1>1, OnceInit, TreeInit
<1>3. OnceInv /\ TreeInv /\ NearInv /\ [Next]_wvars => (OnceInv /\ TreeInv /\ NearInv)'
  BY OnceKept, TreeKept, NearKept
<1>4. NearInv => WithinDepth
  BY DEF NearInv
<1> QED
  BY <1>2, <1>3, <1>4, PTL DEF Spec

=============================================================================
