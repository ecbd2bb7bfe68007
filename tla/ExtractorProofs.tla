-------------------------- MODULE ExtractorProofs --------------------------
(***************************************************************************)
(* The visitor of one syntax tree (extraction/extractor.py), for every     *)
(* tree.                                                                   *)
(*                                                                         *)
(* The visitor's call stack is the agenda; what has already been visited   *)
(* leaves no trace in the state.  The invariants therefore speak of how    *)
(* each position was visited (did), a record of the past that exists in    *)
(* every state the visitor reaches.                                        *)
(***************************************************************************)
EXTENDS ExtractorProps, Induction, SequenceTheorems

-----------------------------------------------------------------------------
(* Positions in source order. *)

ListedTo(S, i, s) ==
    /\ s \in Seq(S)
    /\ \A k \in DOMAIN s : s[k] \in 1 .. i
    /\ \A k, l \in DOMAIN s : s[k] = s[l] => k = l
    /\ \A p \in S : p \in 1 .. i => \E k \in DOMAIN s : s[k] = p

Listing(S, n, g) ==
    g = [i \in 0 .. n |-> IF i = 0 THEN <<>> ELSE IF i \in S THEN Append(g[i - 1], i) ELSE g[i - 1]]

\* One position more.
LEMMA ListedMore ==
    ASSUME NEW S, NEW i \in Nat, i # 0, NEW s, ListedTo(S, i - 1, s)
    PROVE  ListedTo(S, i, IF i \in S THEN Append(s, i) ELSE s)
<1>1. CASE i \in S
  <2> DEFINE r == Append(s, i)
  <2>1. s \in Seq(S) /\ Len(s) \in Nat /\ DOMAIN s = 1 .. Len(s)
    BY DEF ListedTo
  <2>2. r \in Seq(S) /\ DOMAIN r = 1 .. Len(s) + 1
    BY <1>1, <2>1
  <2>3. r[Len(s) + 1] = i /\ \A k \in DOMAIN s : k \in DOMAIN r /\ r[k] = s[k]
    BY <2>1
  <2>4. \A k \in DOMAIN r : k \in DOMAIN s \/ k = Len(s) + 1
    BY <2>1, <2>2
  <2> HIDE DEF r
  <2>5. \A k \in DOMAIN r : r[k] \in 1 .. i
    BY <2>3, <2>4 DEF ListedTo
  <2>6. \A k, l \in DOMAIN r : r[k] = r[l] => k = l
    <3> SUFFICES ASSUME NEW k \in DOMAIN r, NEW l \in DOMAIN r, r[k] = r[l] PROVE k = l
      OBVIOUS
    <3>1. \A m \in DOMAIN s : s[m] # i
      BY DEF ListedTo
    <3> QED
      BY <2>3, <2>4, <3>1 DEF ListedTo
  <2>7. \A p \in S : p \in 1 .. i => \E k \in DOMAIN r : r[k] = p
    <3> SUFFICES ASSUME NEW p \in S, p \in 1 .. i PROVE \E k \in DOMAIN r : r[k] = p
      OBVIOUS
    <3>1. p = i \/ p \in 1 .. i - 1
      OBVIOUS
    <3>2. Len(s) + 1 \in DOMAIN r
      BY <2>1, <2>2
    <3> QED
      BY <2>3, <3>1, <3>2 DEF ListedTo
  <2>8. ListedTo(S, i, r)
    BY <2>2, <2>5, <2>6, <2>7 DEF ListedTo
  <2> QED
    BY <1>1, <2>8 DEF r
<1>2. CASE i \notin S
  <2>1. 1 .. i - 1 \subseteq 1 .. i /\ \A p \in S : p \in 1 .. i => p \in 1 .. i - 1
    BY <1>2
  <2> QED
    BY <1>2, <2>1 DEF ListedTo
<1> QED
  BY <1>1, <1>2

LEMMA ListingExists ==
    ASSUME NEW S
    PROVE  \A n \in Nat : \E g : Listing(S, n, g) /\ ListedTo(S, n, g[n])
<1> DEFINE K == {n \in Nat : \E g : Listing(S, n, g) /\ ListedTo(S, n, g[n])}
<1>1. 0 \in K
  <2> DEFINE g == [i \in 0 .. 0 |-> <<>>]
  <2>1. g[0] = <<>> /\ Listing(S, 0, g)
    BY DEF Listing
  <2>2. ListedTo(S, 0, <<>>)
    BY DEF ListedTo
  <2> QED
    BY <2>1, <2>2
<1>2. ASSUME NEW n \in Nat, n \in K PROVE n + 1 \in K
  <2>1. PICK g : Listing(S, n, g) /\ ListedTo(S, n, g[n])
    BY <1>2
  <2> DEFINE More(s, i) == IF i \in S THEN Append(s, i) ELSE s
             h == [i \in 0 .. n + 1 |-> IF i = n + 1 THEN More(g[n], n + 1) ELSE g[i]]
  <2>2. \A i \in 0 .. n : g[i] = IF i = 0 THEN <<>> ELSE More(g[i - 1], i)
    BY <2>1 DEF Listing
  <2> HIDE DEF More
  <2>3. ASSUME NEW i \in 0 .. n + 1
        PROVE  h[i] = IF i = 0 THEN <<>> ELSE More(h[i - 1], i)
    <3>1. CASE i = n + 1
      <4>1. n \in 0 .. n + 1 /\ n # n + 1 /\ i # 0 /\ i - 1 = n
        BY <3>1
      <4> QED
        BY <3>1, <4>1
    <3>2. CASE i # n + 1
      <4>1. i \in 0 .. n /\ (i # 0 => i - 1 \in 0 .. n + 1 /\ i - 1 # n + 1)
        BY <3>2
      <4> QED
        BY <2>2, <3>2, <4>1
    <3> QED
      BY <3>1, <3>2
  <2>4. Listing(S, n + 1, h)
    <3>1. h = [i \in 0 .. n + 1 |-> IF i = 0 THEN <<>> ELSE More(h[i - 1], i)]
      BY <2>3
    <3> QED
      BY <3>1 DEF Listing, More
  <2>5. h[n + 1] = More(g[n], n + 1) /\ n + 1 # 0 /\ (n + 1) - 1 = n
    OBVIOUS
  <2>6. ListedTo(S, n + 1, h[n + 1])
    BY <2>1, <2>5, ListedMore DEF More
  <2> QED
    BY <2>4, <2>6
<1> HIDE DEF K
<1>3. \A n \in Nat : n \in K
  BY <1>1, <1>2, SetInduction
<1> QED
  BY <1>3 DEF K

LEMMA ListingUnique ==
    ASSUME NEW S, NEW n \in Nat, NEW g, Listing(S, n, g), NEW h, Listing(S, n, h)
    PROVE  g = h
<1> DEFINE K == {i \in Nat : i \in 0 .. n => g[i] = h[i]}
           More(s, i) == IF i \in S THEN Append(s, i) ELSE s
<1>1. /\ \A i \in 0 .. n : g[i] = IF i = 0 THEN <<>> ELSE More(g[i - 1], i)
      /\ \A i \in 0 .. n : h[i] = IF i = 0 THEN <<>> ELSE More(h[i - 1], i)
  BY DEF Listing
<1> HIDE DEF More
<1>2. 0 \in K
  BY <1>1
<1>3. ASSUME NEW i \in Nat, i \in K PROVE i + 1 \in K
  <2> SUFFICES ASSUME i + 1 \in 0 .. n PROVE g[i + 1] = h[i + 1]
    OBVIOUS
  <2>1. i \in 0 .. n /\ i + 1 # 0 /\ (i + 1) - 1 = i
    OBVIOUS
  <2>2. g[i] = h[i]
    BY <1>3, <2>1
  <2> QED
    BY <1>1, <2>1, <2>2
<1> HIDE DEF K
<1>4. \A i \in Nat : i \in K
  BY <1>2, <1>3, SetInduction
<1>5. \A i \in 0 .. n : g[i] = h[i]
  BY <1>4 DEF K
<1>6. /\ g = [i \in 0 .. n |-> g[i]]
      /\ h = [i \in 0 .. n |-> h[i]]
  BY DEF Listing
<1> QED
  BY <1>5, <1>6

\* Listed gives every position in S once.
LEMMA ListedOnce ==
    ASSUME Len(tree) \in Nat, NEW S, S \subseteq 1 .. Len(tree)
    PROVE  /\ Listed(S) \in Seq(S)
           /\ \A k, l \in DOMAIN Listed(S) : Listed(S)[k] = Listed(S)[l] => k = l
           /\ \A p \in S : \E k \in DOMAIN Listed(S) : Listed(S)[k] = p
<1> DEFINE g == CHOOSE g : Listing(S, Len(tree), g)
<1>1. PICK h : Listing(S, Len(tree), h) /\ ListedTo(S, Len(tree), h[Len(tree)])
  BY ListingExists
<1>2. Listing(S, Len(tree), g) /\ Listed(S) = g[Len(tree)]
  <2>1. Listing(S, Len(tree), g)
    BY <1>1
  <2>2. Listed(S) = g[Len(tree)]
    BY DEF Listed, Listing
  <2> QED
    BY <2>1, <2>2
<1>3. g = h
  BY <1>1, <1>2, ListingUnique
<1>4. ListedTo(S, Len(tree), Listed(S))
  BY <1>1, <1>2, <1>3
<1> QED
  BY <1>4 DEF ListedTo

-----------------------------------------------------------------------------
(* Types. *)

PositionDo == {"visit", "walk", "function", "member"}

IsPosition(f) == f.do \in PositionDo

\* The name of the file stands in no tree.
Word == STRING \cup {"file"}

Id == NodeKind \X Word \X Nat

FrameType ==
    {f \in [do : PositionDo \cup {"pop", "clear"}, at : Nat] :
        /\ IsPosition(f) => f.at \in DOMAIN tree
        /\ ~IsPosition(f) => f.at = 0
        /\ f.do = "function" => tree[f.at].t = "function"
        /\ f.do = "member" => tree[f.at].t = "member"}

NodeType == {n \in [id : Id, kind : NodeKind, name : Word, at : DOMAIN tree] : n.id[1] = n.kind}

\* The references a position of each class can give.
Gives(t, kind) ==
    \/ t = "call" /\ kind = "calls"
    \/ t = "new" /\ kind = "instantiates"
    \/ t = "import" /\ kind = "imports"
    \/ t = "decorator" /\ kind = "decorates"
    \/ t \in {"base", "contract"} /\ kind \in {"extends", "implements"}
    \/ t = "impl" /\ kind = "implements"

RefType ==
    {r \in [from : Id, kind : RefKind, name : STRING, at : DOMAIN tree] : Gives(tree[r.at].t, r.kind)}

TypeInv ==
    /\ tree \in Trees
    /\ agenda \in Seq(FrameType)
    /\ node_stack \in Seq(Id)
    /\ nodes \in Seq(NodeType)
    /\ edges \in Seq(Id \X Id)
    /\ refs \in Seq(RefType)
    /\ pending \in Seq({p \in DOMAIN tree : tree[p].t = "decorator"})
    /\ outcome \in {"visiting", "ok", "partial"}

\* The file comes first, and is no position's own node.
FileFirst == nodes # <<>> /\ nodes[1].id = FileId /\ nodes[1].at = 1 /\ nodes[1].kind = "file"

-----------------------------------------------------------------------------
(* The stack and the agenda. *)

\* How much of the stack is left when the turn comes to an item of the agenda:
\* every pop takes one away, and the last item is a pop.
Heights(ag, st, d) ==
    /\ d \in [1 .. Len(ag) + 1 -> Nat]
    /\ d[1] = Len(st) /\ d[Len(ag) + 1] = 0
    /\ \A i \in DOMAIN ag : d[i] > 0 /\ d[i + 1] = IF ag[i].do = "pop" THEN d[i] - 1 ELSE d[i]
    /\ \A i, j \in DOMAIN d : i <= j => d[j] <= d[i]

\* What waits below a definition waits in its scope.
Stacked(ag, st, scope) ==
    \E d \in [1 .. Len(ag) + 1 -> Nat] :
       /\ Heights(ag, st, d)
       /\ \A i \in DOMAIN ag : IsPosition(ag[i]) => st[d[i]] = scope[ag[i].at]

Known(id) == \E j \in DOMAIN nodes : nodes[j].id = id

Hanging ==
    /\ \A i \in DOMAIN node_stack : Known(node_stack[i])
    /\ \A i \in DOMAIN edges : Known(edges[i][1]) /\ Known(edges[i][2])
    /\ \A i \in DOMAIN refs : Known(refs[i].from)

-----------------------------------------------------------------------------
(* The past. *)

CallableType == {"function", "either", "method"}

Waits(p, do) == \E i \in DOMAIN agenda : agenda[i] = Frame(do, p)

\* What waits has not been visited, but what stands around it has; nothing
\* waits twice.
Ahead(did) ==
    /\ \A i \in DOMAIN agenda :
          IsPosition(agenda[i]) =>
             /\ did[agenda[i].at] = "no"
             /\ agenda[i].at # 1 => did[tree[agenda[i].at].parent] # "no"
    /\ \A i, j \in DOMAIN agenda :
          IsPosition(agenda[i]) /\ IsPosition(agenda[j]) /\ agenda[i].at = agenda[j].at => i = j
    /\ \A p \in DOMAIN tree : p # 1 /\ did[p] # "no" => did[tree[p].parent] # "no"

\* What has been visited has left its node, one at most, and its mentions.
Behind(did) ==
    /\ \A i \in DOMAIN nodes : i # 1 => nodes[i].at # 1 /\ did[nodes[i].at] # "no"
    /\ \A i, j \in DOMAIN nodes : nodes[i].at = nodes[j].at => i = j
    /\ \A k \in DOMAIN refs : tree[refs[k].at].t \in {"call", "new", "import"} => did[refs[k].at] # "no"

\* Where calls are looked for, only types have nodes, and a function is around.
Walked(did) ==
    /\ \A p \in DOMAIN tree : did[p] = "walk" \/ Waits(p, "walk") => Scope[p][1] \in Callable
    /\ \A i \in DOMAIN nodes :
          nodes[i].kind \in ScopeKind /\ did[nodes[i].at] = "walk" => tree[nodes[i].at].t \in ClassLike
    /\ \A p \in DOMAIN tree :
          did[p] = "walk" /\ tree[p].t \notin ClassLike =>
             \A q \in Children(p) : did[q] = "walk" \/ Waits(q, "walk")
    /\ \A i \in DOMAIN nodes :
          nodes[i].kind \in Callable /\ tree[nodes[i].at].t \in CallableType =>
             \A q \in BodyOf(nodes[i].at) : did[q] = "walk" \/ Waits(q, "walk")

\* A call that has been visited has given its reference, once.
CallsGiven(did) ==
    \A q \in DOMAIN tree :
       tree[q].t = "call" /\ tree[q].name # NoName /\ did[q] # "no" =>
          \E k \in DOMAIN refs :
             /\ refs[k] = Ref(Scope[q], "calls", tree[q].name, q)
             /\ \A l \in DOMAIN refs : refs[l].at = q => l = k

Readable(w) == {d \in Children(w) : tree[d].t = "decorator" /\ tree[d].name # NoName}

\* The definition of a decorated one is next, its decorators pending.
DecoratorsNext(did) ==
    \A i \in DOMAIN agenda :
       IsPosition(agenda[i]) /\ agenda[i].at # 1 =>
          LET w == tree[agenda[i].at].parent IN
          tree[w].t = "decorated" /\ did[w] # "walk" =>
             /\ i = 1
             /\ agenda[i].do = "visit"
             /\ \A d \in Readable(w) : \E k \in DOMAIN pending : pending[k] = d

Decorating == Callable \cup ClassLike

DecoratorsGiven(did) ==
    \A i \in DOMAIN nodes : \A d \in DOMAIN tree :
       /\ nodes[i].at # 1
       /\ nodes[i].kind \in Decorating
       /\ tree[tree[nodes[i].at].parent].t = "decorated"
       /\ did[tree[nodes[i].at].parent] # "walk"
       /\ d \in Readable(tree[nodes[i].at].parent)
       => \E k \in DOMAIN refs : refs[k] = Ref(nodes[i].id, "decorates", tree[d].name, d)

-----------------------------------------------------------------------------
(* What one handler does. *)

Do == Head(agenda).do
HereType == tree[Here].t

Turn == outcome = "visiting" /\ agenda # <<>> /\ IsPosition(Head(agenda)) /\ Here \in DOMAIN tree

\* A position in the body of a function that opens no scope of its own.
Walking == Do = "walk" /\ HereType \notin ClassLike

\* New items of the agenda are children of the position, each once.
Spawned(new) ==
    /\ new \in Seq(FrameType)
    /\ \A i \in DOMAIN new : new[i].do # "pop" /\ (IsPosition(new[i]) => new[i].at \in Children(Here))
    /\ \A i, j \in DOMAIN new :
          IsPosition(new[i]) /\ IsPosition(new[j]) /\ new[i].at = new[j].at => i = j

NoWalk(new) == \A i \in DOMAIN new : new[i].do # "walk"

\* Where a new reference comes from.
Sourced(r) ==
    \/ r.kind \in {"calls", "instantiates", "imports"} /\ r.at = Here /\ r.from = Top
    \/ r.kind = "decorates" /\ \E j \in DOMAIN nodes' : nodes'[j].id = r.from
    \/ /\ tree[r.at].t \in {"base", "contract"}
       /\ tree[r.at].parent = Here
       /\ \E j \in DOMAIN nodes' :
             nodes'[j].at = Here /\ nodes'[j].id = r.from /\ nodes'[j].kind \in ClassLike
    \/ /\ tree[r.at].t = "impl"
       /\ \E j \in DOMAIN nodes : nodes[j].name = tree[r.at].name /\ nodes[j].id = r.from

Passes(new) ==
    /\ agenda' = new \o Tail(agenda)
    /\ UNCHANGED <<node_stack, nodes, edges>>
    /\ IF Walking THEN new = Frames("walk", Children(Here)) ELSE NoWalk(new)

Adds(n, new) ==
    /\ CreateNode(n)
    /\ agenda' = new \o Tail(agenda)
    /\ UNCHANGED node_stack
    /\ n.kind \in ScopeKind => new = <<>>
    /\ n.kind \in Decorating => HereType \in {"alias", "property"}
    /\ HereType \notin CallableType \cup {"plain"}
    /\ Do # "walk" /\ NoWalk(new)

Opens(n, new, more) ==
    /\ CreateNode(n)
    /\ node_stack' = Append(node_stack, n.id)
    /\ agenda' = new \o <<Pop>> \o Tail(agenda)
    /\ n.kind \in ScopeKind
    /\ HereType \notin {"plain", "decorator"}
    /\ IF HereType \in CallableType
       THEN n.kind \in Callable /\ Do # "walk" /\ new = Frames("walk", FunctionBody(Here))
       ELSE n.kind \notin Callable /\ ~Walking /\ NoWalk(new)
    /\ HereType # "alias" =>
          \A i \in DOMAIN pending :
             \E k \in DOMAIN more : more[k] = Ref(n.id, "decorates", tree[pending[i]].name, pending[i])

Undecorated == {c \in Children(Here) : tree[c].t # "decorator"}

Handles(new, more) ==
    /\ Turn
    /\ UNCHANGED <<tree, outcome>>
    /\ Spawned(new)
    /\ more \in Seq(RefType) /\ refs' = refs \o more
    /\ \A k \in DOMAIN more : Sourced(more[k])
    /\ HereType = "call" /\ tree[Here].name # NoName =>
          more = <<Ref(Top, "calls", tree[Here].name, Here)>>
    /\ IF Do = "visit" /\ HereType = "decorated"
       THEN new = Frames("visit", Undecorated) \o <<Clear>> /\ pending' = Listed(Readable(Here))
       ELSE UNCHANGED pending
    /\ \/ Passes(new)
       \/ \E n \in NodeType : n.at = Here /\ Adds(n, new)
       \/ \E n \in NodeType : n.at = Here /\ Opens(n, new, more)

LEMMA TreeShape ==
    ASSUME TypeInv
    PROVE  /\ tree \in Seq(Position) /\ Len(tree) \in Nat \ {0} /\ DOMAIN tree = 1 .. Len(tree)
           /\ tree[1].t = "plain"
           /\ \A p \in DOMAIN tree :
                 /\ tree[p] \in Position
                 /\ tree[p].t \in SyntaxType /\ tree[p].name \in STRING /\ tree[p].line \in Nat
                 /\ tree[p].parent \in Nat /\ tree[p].parent < p
                 /\ tree[p].parent = 0 <=> p = 1
                 /\ p # 1 => tree[p].parent \in DOMAIN tree
                 /\ tree[p].part = "body" => p # 1 /\ tree[tree[p].parent].hasBody
<1>1. IsTree(tree)
  BY ExtractorAssumption DEF TypeInv
<1>2. tree \in Seq(Position) /\ Len(tree) \in Nat \ {0} /\ DOMAIN tree = 1 .. Len(tree)
  BY <1>1 DEF IsTree
<1>3. \A p \in DOMAIN tree : tree[p] \in Position
  BY <1>2
<1>4. \A p \in DOMAIN tree :
         /\ tree[p].t \in SyntaxType /\ tree[p].name \in STRING /\ tree[p].line \in Nat
         /\ tree[p].parent \in Nat
  BY <1>3 DEF Position
<1> QED
  BY <1>1, <1>2, <1>3, <1>4 DEF IsTree

\* The item whose turn it is, and the class of the position that gets a handler.
LEMMA HandlerIs ==
    ASSUME TypeInv, NEW h, Handling(h)
    PROVE  /\ outcome = "visiting" /\ agenda # <<>>
           /\ Head(agenda) \in FrameType
           /\ h \in {"pop", "clear"} => Do = h
           /\ h \notin {"pop", "clear"} => Turn /\ HereType \in SyntaxType
           /\ h \in ClassLike \cup {"call", "new"} => HereType = h /\ Do \in {"visit", "walk"}
           /\ h = "plain" =>
                 /\ HereType \notin ClassLike \cup {"call"} /\ Do \in {"visit", "walk"}
                 /\ HereType = "decorated" => Do = "walk"
           /\ h \in {"function", "method", "dropped"} =>
                 HereType \in CallableType /\ Do \in {"visit", "function"}
           /\ h = "member" => HereType = "member" /\ Do = "member"
           /\ h \in {"decorated", "property", "field", "variable", "import", "alias", "impl"} =>
                 HereType = h /\ Do = "visit"
<1>1. outcome = "visiting" /\ agenda # <<>> /\ Handler(Head(agenda)) = h
  BY DEF Handling
<1>2. Head(agenda) \in FrameType
  BY <1>1 DEF TypeInv
<1> DEFINE f == Head(agenda)
<1>3. /\ f.do \in {"visit", "walk", "function", "member", "pop", "clear"}
      /\ IsPosition(f) => f.at \in DOMAIN tree /\ tree[f.at].t \in SyntaxType
      /\ f.do = "function" => tree[f.at].t = "function"
      /\ f.do = "member" => tree[f.at].t = "member"
  <2>1. IsPosition(f) => f.at \in DOMAIN tree
    BY <1>2 DEF FrameType
  <2> QED
    BY <1>2, <2>1, TreeShape DEF FrameType, PositionDo
<1> HIDE DEF f
<1>4. /\ f.do = "visit" => h = VisitHandler(f.at)
      /\ f.do = "walk" => h = WalkHandler(f.at)
      /\ f.do = "function" => h \in {"function", "method"}
      /\ f.do \in {"member", "pop", "clear"} => h = f.do
  BY <1>1, <1>3 DEF Handler, f
<1>5. CallableHandler(f.at) \in {"function", "method", "dropped"}
  BY DEF CallableHandler
<1>6. ASSUME f.do = "visit"
      PROVE  \/ h \in {"function", "method", "dropped"} /\ tree[f.at].t \in CallableType
             \/ h = "plain" /\ tree[f.at].t \notin ClassLike \cup {"call", "decorated"}
             \/ h = tree[f.at].t /\ h \notin CallableType \cup {"member"}
  <2> DEFINE t == tree[f.at].t
  <2>1. h = VisitHandler(f.at) /\ t \in SyntaxType
    BY <1>3, <1>4, <1>6 DEF IsPosition, PositionDo
  <2>2. CASE t \in {"function", "either", "method"}
    BY <1>5, <2>1, <2>2, SMTT(30) DEF VisitHandler, CallableType
  <2>3. CASE t \in {"property", "field", "variable"}
    BY <2>1, <2>3 DEF VisitHandler, ClassLike, CallableType
  <2>4. CASE t \in {"decorator", "base", "contract", "member"}
    BY <2>1, <2>4, SMTT(30) DEF VisitHandler, ClassLike
  <2>5. CASE t \in {"plain", "decorated", "class", "interface", "struct", "enum", "alias",
                     "import", "call", "new", "impl"}
    BY <2>1, <2>5 DEF VisitHandler, ClassLike, CallableType
  <2> QED
    BY <2>1, <2>2, <2>3, <2>4, <2>5 DEF SyntaxType
<1>7. ASSUME f.do = "walk"
      PROVE  \/ h = "plain" /\ tree[f.at].t \notin ClassLike \cup {"call"}
             \/ h = tree[f.at].t /\ h \in ClassLike \cup {"call", "new"}
  BY <1>4, <1>7 DEF WalkHandler
<1>8. /\ h \in {"pop", "clear"} => f.do = h
      /\ h \notin {"pop", "clear"} => IsPosition(f)
      /\ h \in ClassLike \cup {"call", "new"} => tree[f.at].t = h /\ f.do \in {"visit", "walk"}
      /\ h = "plain" =>
            /\ tree[f.at].t \notin ClassLike \cup {"call"} /\ f.do \in {"visit", "walk"}
            /\ tree[f.at].t = "decorated" => f.do = "walk"
      /\ h \in {"function", "method", "dropped"} =>
            tree[f.at].t \in CallableType /\ f.do \in {"visit", "function"}
      /\ h = "member" => tree[f.at].t = "member" /\ f.do = "member"
      /\ h \in {"decorated", "property", "field", "variable", "import", "alias", "impl"} =>
            tree[f.at].t = h /\ f.do = "visit"
  BY <1>3, <1>4, <1>6, <1>7 DEF ClassLike, CallableType, SyntaxType, IsPosition, PositionDo
<1> QED
  BY <1>1, <1>2, <1>3, <1>8 DEF Turn, Do, HereType, Here, f

LEMMA FramesSpawn ==
    ASSUME TypeInv, Here \in DOMAIN tree, NEW S \in SUBSET Children(Here), NEW do \in PositionDo,
           do = "function" => \A p \in S : tree[p].t = "function",
           do # "member"
    PROVE  /\ Spawned(Frames(do, S))
           /\ \A p \in S : \E i \in DOMAIN Frames(do, S) : Frames(do, S)[i] = Frame(do, p)
           /\ \A i \in DOMAIN Frames(do, S) : Frames(do, S)[i].do = do /\ Frames(do, S)[i].at \in S
<1>1. /\ Len(tree) \in Nat /\ DOMAIN tree = 1 .. Len(tree) /\ S \subseteq 1 .. Len(tree)
  BY TreeShape DEF Children
<1> DEFINE s == Listed(S)
<1>2. /\ s \in Seq(S)
      /\ \A k, l \in DOMAIN s : s[k] = s[l] => k = l
      /\ \A p \in S : \E k \in DOMAIN s : s[k] = p
  BY <1>1, ListedOnce
<1> DEFINE new == [i \in DOMAIN s |-> Frame(do, s[i])]
<1>3. Frames(do, S) = new
  BY DEF Frames
<1> HIDE DEF s
<1>4. DOMAIN s = 1 .. Len(s) /\ Len(s) \in Nat /\ \A i \in DOMAIN s : s[i] \in S
  BY <1>2
<1>5. ASSUME NEW p \in S PROVE Frame(do, p) \in FrameType
  BY <1>1 DEF FrameType, Frame, IsPosition, PositionDo
<1>6. /\ DOMAIN new = DOMAIN s
      /\ \A i \in DOMAIN s : new[i] = Frame(do, s[i])
  OBVIOUS
<1>7. new \in Seq(FrameType)
  BY <1>4, <1>5
<1>8. \A i \in DOMAIN new : new[i].do = do /\ new[i].at = s[i] /\ new[i].at \in S
  BY <1>4, <1>6 DEF Frame
<1>9. \A i \in DOMAIN new : new[i].do # "pop" /\ new[i].at \in Children(Here)
  BY <1>8 DEF PositionDo
<1>10. \A i, j \in DOMAIN new : new[i].at = new[j].at => i = j
  BY <1>2, <1>6, <1>8
<1>11. Spawned(new)
  BY <1>7, <1>9, <1>10 DEF Spawned
<1>12. \A p \in S : \E i \in DOMAIN new : new[i] = Frame(do, p)
  BY <1>2, <1>6
<1> HIDE DEF new
<1> QED
  BY <1>3, <1>8, <1>11, <1>12

LEMMA NothingSpawned ==
    Spawned(<<>>) /\ NoWalk(<<>>)
  BY DEF Spawned, NoWalk

LEMMA NothingMore ==
    ASSUME TypeInv
    PROVE  /\ <<>> \in Seq(RefType) /\ refs \o <<>> = refs
           /\ agenda # <<>> =>
                 Tail(agenda) \in Seq(FrameType) /\ <<>> \o Tail(agenda) = Tail(agenda)
<1>1. refs \in Seq(RefType) /\ agenda \in Seq(FrameType)
  BY DEF TypeInv
<1>2. refs \o <<>> = refs
  BY <1>1
<1>3. agenda # <<>> => Tail(agenda) \in Seq(FrameType)
  BY <1>1
<1> QED
  BY <1>1, <1>2, <1>3

LEMMA LeaveHandles ==
    ASSUME TypeInv, Turn, Leave, ~Walking, HereType # "call",
           ~ (Do = "visit" /\ HereType = "decorated")
    PROVE  Handles(<<>>, <<>>)
<1>1. agenda' = <<>> \o Tail(agenda)
  BY NothingMore DEF Leave, Turn
<1>2. Passes(<<>>)
  BY <1>1, NothingSpawned DEF Leave, Passes
<1> QED
  BY <1>2, NothingSpawned, NothingMore DEF Handles, Leave, Turn

LEMMA NodeAtType ==
    ASSUME TypeInv, Here \in DOMAIN tree, NEW kind \in NodeKind
    PROVE  LET n == NodeAt(kind, tree[Here].name, Here)
           IN  n \in NodeType /\ n.at = Here /\ n.kind = kind /\ n.name = tree[Here].name
<1> DEFINE n == NodeAt(kind, tree[Here].name, Here)
<1>1. tree[Here].name \in STRING /\ tree[Here].line \in Nat
  BY TreeShape
<1>2. n = [id |-> <<kind, tree[Here].name, tree[Here].line>>, kind |-> kind,
           name |-> tree[Here].name, at |-> Here]
  BY DEF NodeAt, NodeId
<1>3. <<kind, tree[Here].name, tree[Here].line>> \in Id
  BY <1>1 DEF Id, Word
<1> QED
  BY <1>1, <1>2, <1>3 DEF NodeType, Word

LEMMA LeafHandles ==
    ASSUME TypeInv, Turn, NEW n \in NodeType, n.at = Here, CreateLeaf(n),
           n.kind \in Decorating => HereType \in {"alias", "property"},
           HereType \notin CallableType \cup {"plain", "call", "decorated"}, Do # "walk"
    PROVE  Handles(<<>>, <<>>)
<1>1. agenda' = <<>> \o Tail(agenda)
  BY NothingMore DEF CreateLeaf, Turn
<1>2. Adds(n, <<>>)
  BY <1>1, NothingSpawned DEF CreateLeaf, Adds
<1> QED
  BY <1>2, NothingSpawned, NothingMore DEF Handles, CreateLeaf, Turn

\* The node and the containment edge of a handler that makes one.
LEMMA CreateNodeTypes ==
    ASSUME TypeInv, NEW n \in NodeType, CreateNode(n)
    PROVE  /\ Len(nodes') = Len(nodes) + 1
           /\ \A i \in DOMAIN nodes : i \in DOMAIN nodes' /\ nodes'[i] = nodes[i]
           /\ Len(nodes') \in DOMAIN nodes' /\ nodes'[Len(nodes')] = n
           /\ \A i \in DOMAIN nodes' : i \in DOMAIN nodes \/ i = Len(nodes')
           /\ nodes' \in Seq(NodeType)
<1>1. nodes \in Seq(NodeType) /\ nodes' = Append(nodes, n)
  BY DEF TypeInv, CreateNode
<1> QED
  BY <1>1

LEMMA EmitsType ==
    ASSUME TypeInv, NEW n \in NodeType
    PROVE  /\ EmitDecoratesRefs(n.id) \in Seq(RefType)
           /\ DOMAIN EmitDecoratesRefs(n.id) = DOMAIN pending
           /\ \A i \in DOMAIN pending :
                 EmitDecoratesRefs(n.id)[i] = Ref(n.id, "decorates", tree[pending[i]].name, pending[i])
<1>1. pending \in Seq({p \in DOMAIN tree : tree[p].t = "decorator"})
  BY DEF TypeInv
<1>2. DOMAIN pending = 1 .. Len(pending) /\ Len(pending) \in Nat
  BY <1>1
<1>3. \A i \in DOMAIN pending : pending[i] \in DOMAIN tree /\ tree[pending[i]].t = "decorator"
  BY <1>1
<1>4. n.id \in Id
  BY DEF NodeType
<1>5. ASSUME NEW i \in DOMAIN pending
      PROVE  Ref(n.id, "decorates", tree[pending[i]].name, pending[i]) \in RefType
  <2>1. tree[pending[i]].name \in STRING
    BY <1>3, TreeShape
  <2> QED
    BY <1>3, <1>4, <2>1 DEF Ref, RefType, RefKind, Gives
<1> QED
  BY <1>2, <1>5 DEF EmitDecoratesRefs

LEMMA InheritanceType ==
    ASSUME TypeInv, Here \in DOMAIN tree, NEW n \in NodeType
    PROVE  /\ ExtractInheritance(n.id, Here) \in Seq(RefType)
           /\ \A i \in DOMAIN ExtractInheritance(n.id, Here) :
                 LET r == ExtractInheritance(n.id, Here)[i]
                 IN  /\ r.from = n.id
                     /\ tree[r.at].t \in {"base", "contract"}
                     /\ tree[r.at].parent = Here
<1> DEFINE S == OfType(Children(Here), {"base", "contract"})
           bases == Listed(S)
<1>1. Len(tree) \in Nat /\ DOMAIN tree = 1 .. Len(tree) /\ S \subseteq 1 .. Len(tree)
  BY TreeShape DEF Children, OfType
<1>2. bases \in Seq(S)
  BY <1>1, ListedOnce
<1>3. \A p \in S : p \in DOMAIN tree /\ tree[p].t \in {"base", "contract"} /\ tree[p].parent = Here
  BY DEF OfType, Children
<1> DEFINE RelationTo(i) == IF tree[i].t = "base" THEN "extends" ELSE "implements"
           all == [i \in DOMAIN bases |-> Ref(n.id, RelationTo(bases[i]), tree[bases[i]].name, bases[i])]
<1>4. ExtractInheritance(n.id, Here) = all
  BY DEF ExtractInheritance
<1>5. n.id \in Id
  BY DEF NodeType
<1>6. ASSUME NEW p \in S
      PROVE  LET r == Ref(n.id, RelationTo(p), tree[p].name, p)
             IN  r \in RefType /\ r.from = n.id /\ r.at = p
  <2>1. tree[p].name \in STRING
    BY <1>3, TreeShape
  <2> QED
    BY <1>3, <1>5, <2>1 DEF Ref, RefType, RefKind, Gives
<1> HIDE DEF S, bases, RelationTo
<1>7. DOMAIN bases = 1 .. Len(bases) /\ Len(bases) \in Nat /\ \A i \in DOMAIN bases : bases[i] \in S
  BY <1>2
<1>8. all \in Seq(RefType)
  BY <1>6, <1>7
<1>9. \A i \in DOMAIN all :
         all[i].from = n.id /\ tree[all[i].at].t \in {"base", "contract"} /\ tree[all[i].at].parent = Here
  BY <1>3, <1>6, <1>7
<1> HIDE DEF all
<1> QED
  BY <1>4, <1>8, <1>9

\* A handler that opens a scope.
LEMMA EnterHandles ==
    ASSUME TypeInv, Turn, NEW n \in NodeType, n.at = Here, n.kind \in ScopeKind,
           NEW new, Spawned(new),
           NEW mentions, mentions = <<>> \/ (n.kind \in ClassLike /\ mentions = ExtractInheritance(n.id, Here)),
           CreateNode(n),
           refs' = refs \o EmitDecoratesRefs(n.id) \o mentions,
           node_stack' = Append(node_stack, n.id),
           agenda' = new \o <<Pop>> \o Tail(agenda),
           UNCHANGED <<tree, pending, outcome>>,
           HereType \notin {"plain", "decorator", "call", "decorated"},
           IF HereType \in CallableType
           THEN n.kind \in Callable /\ Do # "walk" /\ new = Frames("walk", FunctionBody(Here))
           ELSE n.kind \notin Callable /\ ~Walking /\ NoWalk(new)
    PROVE  \E more : Handles(new, more)
<1> DEFINE emits == EmitDecoratesRefs(n.id)
           more == emits \o mentions
<1>1. /\ emits \in Seq(RefType) /\ DOMAIN emits = DOMAIN pending
      /\ \A i \in DOMAIN pending :
            emits[i] = Ref(n.id, "decorates", tree[pending[i]].name, pending[i])
  BY EmitsType
<1>2. /\ mentions \in Seq(RefType)
      /\ \A i \in DOMAIN mentions :
            /\ n.kind \in ClassLike
            /\ mentions[i].from = n.id
            /\ tree[mentions[i].at].t \in {"base", "contract"}
            /\ tree[mentions[i].at].parent = Here
  <2>1. CASE mentions = <<>>
    BY <2>1
  <2>2. CASE n.kind \in ClassLike /\ mentions = ExtractInheritance(n.id, Here)
    BY <2>2, InheritanceType DEF Turn
  <2> QED
    BY <2>1, <2>2
<1>3. /\ Len(nodes') \in DOMAIN nodes'
      /\ nodes'[Len(nodes')] = n
  BY CreateNodeTypes
<1> HIDE DEF emits
<1>4. /\ more \in Seq(RefType) /\ Len(more) = Len(emits) + Len(mentions)
      /\ DOMAIN emits = 1 .. Len(emits) /\ Len(emits) \in Nat
      /\ DOMAIN mentions = 1 .. Len(mentions) /\ Len(mentions) \in Nat
      /\ DOMAIN more = 1 .. Len(emits) + Len(mentions)
      /\ \A i \in DOMAIN more : more[i] = IF i <= Len(emits) THEN emits[i] ELSE mentions[i - Len(emits)]
  BY <1>1, <1>2, ConcatProperties, LenProperties
<1>5. refs' = refs \o more
  <2>1. refs \in Seq(RefType)
    BY DEF TypeInv
  <2>2. emits \in Seq(RefType) /\ mentions \in Seq(RefType)
    BY <1>1, <1>2
  <2>3. (refs \o emits) \o mentions = refs \o (emits \o mentions)
    BY <2>1, <2>2, ConcatAssociative, SMTT(30)
  <2> QED
    BY <2>3 DEF emits
<1> HIDE DEF more
<1>6. \A i \in DOMAIN more : \/ i \in DOMAIN emits /\ more[i] = emits[i]
                             \/ \E j \in DOMAIN mentions : more[i] = mentions[j]
  <2> SUFFICES ASSUME NEW i \in DOMAIN more, ~ (i <= Len(emits))
               PROVE  i - Len(emits) \in DOMAIN mentions
    BY <1>4
  <2> QED
    BY <1>4
<1>7. ASSUME NEW i \in DOMAIN more PROVE Sourced(more[i])
  <2>1. CASE i \in DOMAIN emits /\ more[i] = emits[i]
    <3>1. more[i].kind = "decorates" /\ more[i].from = n.id
      BY <1>1, <2>1 DEF Ref
    <3> QED
      BY <1>3, <3>1 DEF Sourced
  <2>2. ASSUME NEW j \in DOMAIN mentions, more[i] = mentions[j] PROVE Sourced(more[i])
    <3>1. /\ more[i].from = n.id /\ n.kind \in ClassLike
          /\ tree[more[i].at].t \in {"base", "contract"} /\ tree[more[i].at].parent = Here
      BY <1>2, <2>2
    <3> QED
      BY <1>3, <3>1 DEF Sourced
  <2> QED
    BY <1>6, <2>1, <2>2
<1>8. \A i \in DOMAIN pending :
         \E k \in DOMAIN more : more[k] = Ref(n.id, "decorates", tree[pending[i]].name, pending[i])
  <2> SUFFICES ASSUME NEW i \in DOMAIN pending
               PROVE  i \in DOMAIN more /\ more[i] = emits[i]
    BY <1>1
  <2> QED
    BY <1>1, <1>4
<1>9. Opens(n, new, more)
  BY <1>8 DEF Opens
<1> QED
  BY <1>4, <1>5, <1>7, <1>9 DEF Handles

-----------------------------------------------------------------------------
(* The handlers. *)

LEMMA PlainHandles ==
    ASSUME TypeInv, VisitPlain
    PROVE  \E new, more : Handles(new, more)
<1> DEFINE new == Frames(Do, Children(Here))
<1>1. Turn /\ HereType \notin ClassLike \cup {"call"} /\ Do \in {"visit", "walk"}
      /\ (HereType = "decorated" => Do = "walk")
  BY HandlerIs DEF VisitPlain
<1>2. Spawned(new) /\ \A i \in DOMAIN new : new[i].do = Do
  BY <1>1, FramesSpawn DEF Turn, PositionDo
<1>3. agenda' = new \o Tail(agenda) /\ UNCHANGED <<tree, node_stack, nodes, edges, refs, pending, outcome>>
  BY DEF VisitPlain, Do
<1>4. Passes(new)
  <2>1. Walking => new = Frames("walk", Children(Here))
    BY DEF Walking
  <2> HIDE DEF new
  <2>2. ~Walking => NoWalk(new)
    BY <1>1, <1>2 DEF Walking, NoWalk
  <2> QED
    BY <1>3, <2>1, <2>2 DEF Passes
<1> HIDE DEF new
<1>5. Handles(new, <<>>)
  BY <1>1, <1>2, <1>3, <1>4, NothingMore DEF Handles
<1> QED
  BY <1>5

LEMMA DecoratedHandles ==
    ASSUME TypeInv, HandleDecorated
    PROVE  \E new, more : Handles(new, more)
<1> DEFINE visits == Frames("visit", Undecorated)
           new == visits \o <<Clear>>
<1>1. Turn /\ HereType = "decorated" /\ Do = "visit"
  BY HandlerIs DEF HandleDecorated
<1>2. /\ Spawned(visits)
      /\ \A i \in DOMAIN visits : visits[i].do = "visit"
  <2>1. Undecorated \in SUBSET Children(Here)
    BY DEF Undecorated
  <2> QED
    BY <1>1, <2>1, FramesSpawn DEF Turn, PositionDo
<1>3. /\ agenda' = new \o Tail(agenda)
      /\ pending' = Listed(Readable(Here))
      /\ UNCHANGED <<tree, node_stack, nodes, edges, refs, outcome>>
  <2>1. {i \in OfType(Children(Here), {"decorator"}) : tree[i].name # NoName} = Readable(Here)
    BY DEF OfType, Readable
  <2> QED
    BY <2>1 DEF HandleDecorated, Undecorated
<1>4. Clear \in FrameType /\ Clear.do = "clear" /\ ~IsPosition(Clear)
  BY DEF Clear, Frame, FrameType, IsPosition, PositionDo
<1> HIDE DEF visits
<1>5. /\ visits \in Seq(FrameType) /\ DOMAIN visits = 1 .. Len(visits) /\ Len(visits) \in Nat
      /\ new \in Seq(FrameType) /\ DOMAIN new = 1 .. Len(visits) + 1
      /\ new[Len(visits) + 1] = Clear
      /\ \A i \in DOMAIN visits : new[i] = visits[i]
  BY <1>2, <1>4 DEF Spawned
<1>6. \A i \in DOMAIN new : (i \in DOMAIN visits /\ new[i] = visits[i]) \/ new[i] = Clear
  BY <1>5
<1> HIDE DEF new
<1>7. Spawned(new) /\ NoWalk(new)
  <2>1. \A i \in DOMAIN new : IsPosition(new[i]) => i \in DOMAIN visits /\ new[i] = visits[i]
    BY <1>4, <1>6
  <2>2. \A i \in DOMAIN new : new[i].do # "pop" /\ new[i].do # "walk"
    BY <1>2, <1>4, <1>6
  <2>3. \A i \in DOMAIN new : IsPosition(new[i]) => new[i].at \in Children(Here)
    BY <1>2, <2>1 DEF Spawned
  <2>4. \A i, j \in DOMAIN new :
           IsPosition(new[i]) /\ IsPosition(new[j]) /\ new[i].at = new[j].at => i = j
    BY <1>2, <2>1 DEF Spawned
  <2> QED
    BY <1>5, <2>2, <2>3, <2>4 DEF Spawned, NoWalk
<1>8. Passes(new)
  BY <1>1, <1>3, <1>7 DEF Passes, Walking
<1>9. Handles(new, <<>>)
  <2>1. new = Frames("visit", Undecorated) \o <<Clear>>
    BY DEF new, visits
  <2> QED
    BY <1>1, <1>3, <1>7, <1>8, <2>1, NothingMore DEF Handles
<1> QED
  BY <1>9

LEMMA TopType ==
    ASSUME TypeInv, node_stack # <<>>
    PROVE  Top \in Id /\ Len(node_stack) \in DOMAIN node_stack
<1>1. node_stack \in Seq(Id)
  BY DEF TypeInv
<1>2. Len(node_stack) \in Nat /\ Len(node_stack) > 0 /\ DOMAIN node_stack = 1 .. Len(node_stack)
  BY <1>1
<1> QED
  BY <1>1, <1>2 DEF Top

LEMMA MentionHandles ==
    ASSUME TypeInv, node_stack # <<>>, NEW kind, kind \in {"calls", "instantiates"},
           Mention(kind),
           IF kind = "calls" THEN Handling("call") ELSE Handling("new")
    PROVE  \E new, more : Handles(new, more)
<1> DEFINE new == Frames(Do, Children(Here))
           r == Ref(Top, kind, tree[Here].name, Here)
           more == IF tree[Here].name = NoName THEN <<>> ELSE <<r>>
<1>1. /\ Turn /\ HereType \in {"call", "new"} /\ Do \in {"visit", "walk"}
      /\ HereType = "call" <=> kind = "calls"
  BY HandlerIs DEF ClassLike
<1>2. Spawned(new) /\ \A i \in DOMAIN new : new[i].do = Do
  BY <1>1, FramesSpawn DEF Turn, PositionDo
<1>3. agenda' = new \o Tail(agenda) /\ UNCHANGED <<tree, node_stack, nodes, edges, pending, outcome>>
  BY DEF Mention, Do
<1>4. Passes(new)
  <2>1. Walking => new = Frames("walk", Children(Here))
    BY DEF Walking
  <2> HIDE DEF new
  <2>2. ~Walking => NoWalk(new)
    BY <1>1, <1>2 DEF Walking, NoWalk, ClassLike
  <2> QED
    BY <1>3, <2>1, <2>2 DEF Passes
<1>5. r \in RefType /\ r.kind = kind /\ r.at = Here /\ r.from = Top
  <2>1. tree[Here].name \in STRING /\ Here \in DOMAIN tree
    BY <1>1, TreeShape DEF Turn
  <2> QED
    BY <1>1, <2>1, TopType DEF Ref, RefType, RefKind, Gives, HereType
<1>6. more \in Seq(RefType) /\ refs' = refs \o more
  <2>1. refs \in Seq(RefType)
    BY DEF TypeInv
  <2>2. CASE tree[Here].name = NoName
    BY <2>1, <2>2, NothingMore DEF Mention
  <2>3. CASE tree[Here].name # NoName
    <3>1. refs' = Append(refs, r) /\ more = <<r>>
      BY <2>3 DEF Mention
    <3> HIDE DEF r, more
    <3> QED
      BY <1>5, <2>1, <3>1
  <2> QED
    BY <2>2, <2>3
<1>7. \A k \in DOMAIN more : more[k] = r
  OBVIOUS
<1> HIDE DEF r
<1>8. \A k \in DOMAIN more : Sourced(more[k])
  BY <1>5, <1>7 DEF Sourced
<1>9. HereType = "call" /\ tree[Here].name # NoName =>
          more = <<Ref(Top, "calls", tree[Here].name, Here)>>
  BY <1>1 DEF r
<1> HIDE DEF new, more
<1>10. Handles(new, more)
  BY <1>1, <1>2, <1>3, <1>4, <1>6, <1>8, <1>9 DEF Handles
<1> QED
  BY <1>10

LEMMA FunctionHandles ==
    ASSUME TypeInv, ExtractFunction \/ ExtractMethod \/ DropMethod
    PROVE  \E new, more : Handles(new, more)
<1>1. Turn /\ HereType \in CallableType /\ Do \in {"visit", "function"}
  BY HandlerIs DEF ExtractFunction, ExtractMethod, DropMethod
<1>2. ASSUME Leave PROVE \E new, more : Handles(new, more)
  <2>1. Handles(<<>>, <<>>)
    BY <1>1, <1>2, LeaveHandles DEF Walking, CallableType
  <2> QED
    BY <2>1
<1> DEFINE new == Frames("walk", FunctionBody(Here))
<1>3. ASSUME NEW kind \in Callable,
             Enter(NodeAt(kind, tree[Here].name, Here), "walk", FunctionBody(Here), <<>>)
      PROVE  \E more : Handles(new, more)
  <2> DEFINE n == NodeAt(kind, tree[Here].name, Here)
  <2>1. n \in NodeType /\ n.at = Here /\ n.kind = kind
    BY <1>1, NodeAtType DEF Turn, Callable, NodeKind
  <2> HIDE DEF n
  <2>2. Enter(n, "walk", FunctionBody(Here), <<>>)
    BY <1>3 DEF n
  <2>3. Spawned(new)
    <3>1. FunctionBody(Here) \in SUBSET Children(Here)
      BY DEF FunctionBody, BodyOf
    <3> QED
      BY <1>1, <3>1, FramesSpawn DEF Turn, PositionDo
  <2>4. HereType \notin {"plain", "decorator", "call", "decorated"} /\ Do # "walk"
    BY <1>1 DEF CallableType
  <2>5. n.kind \in ScopeKind /\ n.kind \in Callable
    BY <2>1 DEF Callable, ScopeKind
  <2>6. /\ CreateNode(n)
        /\ refs' = refs \o EmitDecoratesRefs(n.id) \o <<>>
        /\ node_stack' = Append(node_stack, n.id)
        /\ agenda' = new \o <<Pop>> \o Tail(agenda)
        /\ UNCHANGED <<tree, pending, outcome>>
    BY <2>2 DEF Enter
  <2> HIDE DEF new
  <2>7. new = Frames("walk", FunctionBody(Here))
    BY DEF new
  <2> QED
    BY <1>1, <2>1, <2>3, <2>4, <2>5, <2>6, <2>7, EnterHandles
<1>4. \/ Leave
      \/ \E kind \in Callable : Enter(NodeAt(kind, tree[Here].name, Here), "walk", FunctionBody(Here), <<>>)
  BY DEF ExtractFunction, ExtractMethod, DropMethod, Callable
<1> QED
  BY <1>2, <1>3, <1>4

\* A type without a name, or without a body where it needs one, is given up.
LEMMA GivenUp ==
    ASSUME TypeInv, Turn, Leave, HereType \in ClassLike
    PROVE  \E new, more : Handles(new, more)
<1>1. Handles(<<>>, <<>>)
  BY LeaveHandles DEF Walking, ClassLike
<1> QED
  BY <1>1

LEMMA TypeHandles ==
    ASSUME TypeInv, ExtractClass \/ ExtractInterface \/ ExtractStruct
    PROVE  \E new, more : Handles(new, more)
<1>1. Turn /\ HereType \in {"class", "interface", "struct"}
  BY HandlerIs DEF ExtractClass, ExtractInterface, ExtractStruct, ClassLike
<1>2. ASSUME NEW kind \in {"class", "interface", "struct"}, NEW S \in SUBSET Children(Here),
             Enter(NodeAt(kind, tree[Here].name, Here), "visit", S,
                   ExtractInheritance(NodeAt(kind, tree[Here].name, Here).id, Here))
      PROVE  \E new, more : Handles(new, more)
  <2> DEFINE n == NodeAt(kind, tree[Here].name, Here)
             new == Frames("visit", S)
             mentions == ExtractInheritance(n.id, Here)
  <2>1. n \in NodeType /\ n.at = Here /\ n.kind = kind
    BY <1>1, NodeAtType DEF Turn, NodeKind
  <2> HIDE DEF n
  <2>2. Enter(n, "visit", S, ExtractInheritance(n.id, Here))
    BY <1>2 DEF n
  <2>3. Spawned(new) /\ \A i \in DOMAIN new : new[i].do = "visit"
    BY <1>1, FramesSpawn DEF Turn, PositionDo
  <2>4. /\ HereType \notin {"plain", "decorator", "call", "decorated"} /\ HereType \notin CallableType
        /\ ~Walking /\ NoWalk(new)
    BY <1>1, <2>3 DEF CallableType, Walking, ClassLike, NoWalk
  <2>5. n.kind \in ScopeKind /\ n.kind \notin Callable /\ n.kind \in ClassLike
    BY <2>1 DEF Callable, ScopeKind, ClassLike
  <2>6. /\ CreateNode(n)
        /\ refs' = refs \o EmitDecoratesRefs(n.id) \o mentions
        /\ node_stack' = Append(node_stack, n.id)
        /\ agenda' = new \o <<Pop>> \o Tail(agenda)
        /\ UNCHANGED <<tree, pending, outcome>>
    BY <2>2 DEF Enter
  <2>7. mentions = ExtractInheritance(n.id, Here)
    OBVIOUS
  <2> HIDE DEF new, mentions
  <2> QED
    BY <1>1, <2>1, <2>3, <2>4, <2>5, <2>6, <2>7, EnterHandles
<1>3. BodyOf(Here) \in SUBSET Children(Here) /\ BodyOrNode(Here) \in SUBSET Children(Here)
  BY DEF BodyOf, BodyOrNode
<1>4. \/ Leave
      \/ \E kind \in {"class", "interface", "struct"} : \E S \in SUBSET Children(Here) :
            Enter(NodeAt(kind, tree[Here].name, Here), "visit", S,
                  ExtractInheritance(NodeAt(kind, tree[Here].name, Here).id, Here))
  <2>1. CASE ExtractClass
    BY <1>3, <2>1 DEF ExtractClass
  <2>2. CASE ExtractInterface
    BY <1>3, <2>2 DEF ExtractInterface
  <2>3. CASE ExtractStruct
    BY <1>3, <2>3 DEF ExtractStruct
  <2> QED
    BY <2>1, <2>2, <2>3
<1>5. HereType \in ClassLike
  BY <1>1 DEF ClassLike
<1> QED
  BY <1>1, <1>2, <1>4, <1>5, GivenUp

\* The body of an enum: its members, and whatever else stands there.
LEMMA EnumSpawn ==
    ASSUME TypeInv, Here \in DOMAIN tree
    PROVE  LET body == Listed(BodyOf(Here))
               How(i) == IF tree[i].t = "member" THEN "member" ELSE "visit"
               new == [i \in DOMAIN body |-> Frame(How(body[i]), body[i])]
           IN  Spawned(new) /\ NoWalk(new)
<1> DEFINE S == BodyOf(Here)
           body == Listed(S)
           How(i) == IF tree[i].t = "member" THEN "member" ELSE "visit"
           new == [i \in DOMAIN body |-> Frame(How(body[i]), body[i])]
<1>1. Len(tree) \in Nat /\ DOMAIN tree = 1 .. Len(tree) /\ S \subseteq 1 .. Len(tree)
      /\ S \subseteq Children(Here)
  BY TreeShape DEF Children, BodyOf
<1>2. body \in Seq(S) /\ \A k, l \in DOMAIN body : body[k] = body[l] => k = l
  BY <1>1, ListedOnce
<1> HIDE DEF S, body
<1>3. DOMAIN body = 1 .. Len(body) /\ Len(body) \in Nat /\ \A i \in DOMAIN body : body[i] \in S
  BY <1>2
<1>4. ASSUME NEW p \in S
      PROVE  /\ Frame(How(p), p) \in FrameType
             /\ Frame(How(p), p).at = p /\ Frame(How(p), p).do \in {"member", "visit"}
  BY <1>1 DEF FrameType, Frame, IsPosition, PositionDo
<1> HIDE DEF How
<1>5. new \in Seq(FrameType)
  BY <1>3, <1>4
<1>6. \A i \in DOMAIN new :
         new[i].at = body[i] /\ new[i].do \in {"member", "visit"} /\ new[i].at \in Children(Here)
  BY <1>1, <1>3, <1>4
<1>7. \A i, j \in DOMAIN new : new[i].at = new[j].at => i = j
  BY <1>2, <1>6
<1>8. Spawned(new) /\ NoWalk(new)
  <2>1. \A i \in DOMAIN new : new[i].do # "pop" /\ new[i].do # "walk"
    BY <1>6
  <2> HIDE DEF new
  <2> QED
    BY <1>5, <1>6, <1>7, <2>1 DEF Spawned, NoWalk
<1> QED
  BY <1>8 DEF new, How, body, S

LEMMA EnumHandles ==
    ASSUME TypeInv, ExtractEnum
    PROVE  \E new, more : Handles(new, more)
<1>1. Turn /\ HereType = "enum"
  BY HandlerIs DEF ExtractEnum, ClassLike
<1> DEFINE body == Listed(BodyOf(Here))
           How(i) == IF tree[i].t = "member" THEN "member" ELSE "visit"
           new == [i \in DOMAIN body |-> Frame(How(body[i]), body[i])]
           n == NodeAt("enum", tree[Here].name, Here)
           mentions == ExtractInheritance(n.id, Here)
<1>2. Spawned(new) /\ NoWalk(new)
  BY <1>1, EnumSpawn DEF Turn
<1>3. CASE Leave
  BY <1>1, <1>3, GivenUp DEF ClassLike
<1>4. CASE ~Leave
  <2>1. /\ CreateNode(n)
        /\ refs' = refs \o EmitDecoratesRefs(n.id) \o mentions
        /\ node_stack' = Append(node_stack, n.id)
        /\ agenda' = new \o <<Pop>> \o Tail(agenda)
        /\ UNCHANGED <<tree, pending, outcome>>
    BY <1>4 DEF ExtractEnum
  <2>2. n \in NodeType /\ n.at = Here /\ n.kind = "enum"
    BY <1>1, NodeAtType DEF Turn, NodeKind
  <2>3. mentions = ExtractInheritance(n.id, Here)
    OBVIOUS
  <2> HIDE DEF n, new, mentions
  <2>4. /\ HereType \notin {"plain", "decorator", "call", "decorated"} /\ HereType \notin CallableType /\ ~Walking
        /\ n.kind \in ScopeKind /\ n.kind \notin Callable /\ n.kind \in ClassLike
    BY <1>1, <2>2 DEF CallableType, Walking, ClassLike, ScopeKind, Callable
  <2> QED
    BY <1>1, <1>2, <2>1, <2>2, <2>3, <2>4, EnterHandles
<1> QED
  BY <1>3, <1>4

LEMMA LeafHandlers ==
    ASSUME TypeInv, ExtractEnumMember \/ ExtractProperty \/ ExtractField
    PROVE  \E new, more : Handles(new, more)
<1>1. Turn /\ HereType \in {"member", "property", "field"} /\ Do # "walk"
  BY HandlerIs DEF ExtractEnumMember, ExtractProperty, ExtractField
<1>2. /\ HereType \notin CallableType \cup {"plain", "call", "decorated"}
      /\ ~Walking
  BY <1>1 DEF CallableType, Walking
<1>3. ASSUME Leave PROVE Handles(<<>>, <<>>)
  BY <1>1, <1>2, <1>3, LeaveHandles
<1>4. ASSUME NEW kind \in {"enum_member", "property", "field"},
             kind = "property" => HereType = "property",
             CreateLeaf(NodeAt(kind, tree[Here].name, Here))
      PROVE  Handles(<<>>, <<>>)
  <2> DEFINE n == NodeAt(kind, tree[Here].name, Here)
  <2>1. n \in NodeType /\ n.at = Here /\ n.kind = kind
    BY <1>1, NodeAtType DEF Turn, NodeKind
  <2> HIDE DEF n
  <2>2. CreateLeaf(n)
    BY <1>4 DEF n
  <2>3. n.kind \in Decorating => HereType \in {"alias", "property"}
    BY <1>4, <2>1 DEF Decorating, Callable, ClassLike
  <2> QED
    BY <1>1, <1>2, <2>1, <2>2, <2>3, LeafHandles
<1>5. \/ Leave
      \/ \E kind \in {"enum_member", "property", "field"} :
            /\ kind = "property" => HereType = "property"
            /\ CreateLeaf(NodeAt(kind, tree[Here].name, Here))
  <2>1. CASE ExtractEnumMember
    BY <2>1 DEF ExtractEnumMember
  <2>2. CASE ExtractProperty
    <3>1. HereType = "property"
      BY <2>2, HandlerIs DEF ExtractProperty
    <3> QED
      BY <2>2, <3>1 DEF ExtractProperty
  <2>3. CASE ExtractField
    BY <2>3 DEF ExtractField
  <2> QED
    BY <2>1, <2>2, <2>3
<1>6. Handles(<<>>, <<>>)
  BY <1>3, <1>4, <1>5
<1> QED
  BY <1>6

LEMMA VariableHandles ==
    ASSUME TypeInv, ExtractVariable
    PROVE  \E new, more : Handles(new, more)
<1> DEFINE values == OfType(Children(Here), {"function"})
           new == Frames("function", values)
<1>1. Turn /\ HereType = "variable" /\ Do = "visit"
  BY HandlerIs DEF ExtractVariable
<1>2. ~Walking /\ HereType \notin CallableType \cup {"plain", "call", "decorated"}
  BY <1>1 DEF Walking, CallableType
<1>3. ASSUME agenda' = new \o Tail(agenda),
             UNCHANGED <<tree, node_stack, nodes, edges, refs, pending, outcome>>
      PROVE  Handles(new, <<>>)
  <2>1. Spawned(new) /\ \A i \in DOMAIN new : new[i].do = "function"
    <3>1. values \in SUBSET Children(Here) /\ \A p \in values : tree[p].t = "function"
      BY DEF OfType
    <3> HIDE DEF values
    <3> QED
      BY <1>1, <3>1, FramesSpawn DEF Turn, PositionDo
  <2> HIDE DEF new
  <2>2. Passes(new)
    BY <1>2, <1>3, <2>1 DEF Passes, NoWalk
  <2> QED
    BY <1>1, <1>3, <2>1, <2>2, NothingMore DEF Handles
<1>4. ASSUME Leave PROVE Handles(<<>>, <<>>)
  BY <1>1, <1>2, <1>4, LeaveHandles
<1>5. ASSUME CreateLeaf(NodeAt("variable", tree[Here].name, Here))
      PROVE  Handles(<<>>, <<>>)
  <2> DEFINE n == NodeAt("variable", tree[Here].name, Here)
  <2>1. n \in NodeType /\ n.at = Here /\ n.kind = "variable"
    BY <1>1, NodeAtType DEF Turn, NodeKind
  <2> HIDE DEF n
  <2>2. CreateLeaf(n)
    BY <1>5 DEF n
  <2>3. n.kind \in Decorating => HereType \in {"alias", "property"}
    BY <2>1 DEF Decorating, Callable, ClassLike
  <2> QED
    BY <1>1, <1>2, <2>1, <2>2, <2>3, LeafHandles
<1>6. \/ agenda' = new \o Tail(agenda) /\ UNCHANGED <<tree, node_stack, nodes, edges, refs, pending, outcome>>
      \/ Leave
      \/ CreateLeaf(NodeAt("variable", tree[Here].name, Here))
  <2>1. CASE values # {}
    BY <2>1 DEF ExtractVariable
  <2>2. CASE values = {} /\ tree[Here].name = NoName
    BY <2>2 DEF ExtractVariable
  <2>3. CASE values = {} /\ tree[Here].name # NoName
    BY <2>3 DEF ExtractVariable
  <2> QED
    BY <2>1, <2>2, <2>3
<1> HIDE DEF new
<1> QED
  BY <1>3, <1>4, <1>5, <1>6

\* A node that opens no scope, with the position's children next.
LEMMA AddHandles ==
    ASSUME TypeInv, Turn, NEW kind \in {"import", "type_alias"},
           CreateNode(NodeAt(kind, tree[Here].name, Here)),
           NEW more \in Seq(RefType), refs' = refs \o more,
           \A k \in DOMAIN more : Sourced(more[k]),
           agenda' = Frames("visit", Children(Here)) \o Tail(agenda),
           UNCHANGED <<tree, node_stack, pending, outcome>>,
           HereType \in {"import", "alias"}, Do = "visit"
    PROVE  \E new : Handles(new, more)
<1> DEFINE new == Frames("visit", Children(Here))
           n == NodeAt(kind, tree[Here].name, Here)
<1>1. n \in NodeType /\ n.at = Here /\ n.kind = kind
  BY NodeAtType DEF Turn, NodeKind
<1>2. Spawned(new) /\ NoWalk(new)
  <2>1. Spawned(new) /\ \A i \in DOMAIN new : new[i].do = "visit"
    BY FramesSpawn DEF Turn, PositionDo
  <2> HIDE DEF new
  <2> QED
    BY <2>1 DEF NoWalk
<1> HIDE DEF n
<1>3. CreateNode(n)
  BY DEF n
<1>4. agenda' = new \o Tail(agenda)
  OBVIOUS
<1> HIDE DEF new
<1>5. Adds(n, new)
  BY <1>1, <1>2, <1>3, <1>4 DEF Adds, ScopeKind, Decorating, Callable, ClassLike, CallableType
<1>6. Handles(new, more)
  BY <1>1, <1>2, <1>5 DEF Handles
<1> QED
  BY <1>6

\* No node, with the position's children next.
LEMMA PassHandles ==
    ASSUME TypeInv, Turn,
           NEW more \in Seq(RefType), refs' = refs \o more,
           \A k \in DOMAIN more : Sourced(more[k]),
           agenda' = Frames("visit", Children(Here)) \o Tail(agenda),
           UNCHANGED <<tree, node_stack, nodes, edges, pending, outcome>>,
           HereType \notin {"call", "decorated"}, Do = "visit"
    PROVE  \E new : Handles(new, more)
<1> DEFINE new == Frames("visit", Children(Here))
<1>1. Spawned(new) /\ NoWalk(new)
  <2>1. Spawned(new) /\ \A i \in DOMAIN new : new[i].do = "visit"
    BY FramesSpawn DEF Turn, PositionDo
  <2> HIDE DEF new
  <2> QED
    BY <2>1 DEF NoWalk
<1>2. agenda' = new \o Tail(agenda)
  OBVIOUS
<1> HIDE DEF new
<1>3. Passes(new)
  BY <1>1, <1>2 DEF Passes, Walking
<1>4. Handles(new, more)
  BY <1>1, <1>3 DEF Handles
<1> QED
  BY <1>4

LEMMA ImportHandles ==
    ASSUME TypeInv, node_stack # <<>>, ExtractImport
    PROVE  \E new, more : Handles(new, more)
<1> DEFINE mentions == tree[Here].mentions
           more == [i \in DOMAIN mentions |-> Ref(Top, "imports", mentions[i], Here)]
<1>1. Turn /\ HereType = "import" /\ Do = "visit"
  BY HandlerIs DEF ExtractImport
<1>2. Here \in DOMAIN tree /\ mentions \in Seq(STRING)
  <2>1. Here \in DOMAIN tree /\ tree[Here] \in Position
    BY <1>1, TreeShape DEF Turn
  <2> QED
    BY <2>1 DEF Position
<1>3. /\ refs' = refs \o more
      /\ agenda' = Frames("visit", Children(Here)) \o Tail(agenda)
      /\ UNCHANGED <<tree, node_stack, pending, outcome>>
      /\ UNCHANGED <<nodes, edges>> \/ CreateNode(NodeAt("import", tree[Here].name, Here))
  BY DEF ExtractImport
<1>4. ASSUME NEW name \in STRING
      PROVE  LET r == Ref(Top, "imports", name, Here)
             IN  r \in RefType /\ r.kind = "imports" /\ r.at = Here /\ r.from = Top
  BY <1>1, <1>2, TopType DEF Ref, RefType, RefKind, Gives, HereType
<1> HIDE DEF mentions
<1>5. DOMAIN mentions = 1 .. Len(mentions) /\ Len(mentions) \in Nat
      /\ \A i \in DOMAIN mentions : mentions[i] \in STRING
  BY <1>2
<1>6. \A i \in DOMAIN mentions : Ref(Top, "imports", mentions[i], Here) \in RefType
  BY <1>4, <1>5
<1>7. more \in Seq(RefType)
  BY <1>5, <1>6
<1>8. \A k \in DOMAIN more : Sourced(more[k])
  BY <1>4, <1>5 DEF Sourced
<1> HIDE DEF more
<1> QED
  BY <1>1, <1>3, <1>7, <1>8, AddHandles, PassHandles

LEMMA AliasHandles ==
    ASSUME TypeInv, ExtractTypeAlias
    PROVE  \E new, more : Handles(new, more)
<1>1. Turn /\ HereType = "alias" /\ Do = "visit"
  BY HandlerIs DEF ExtractTypeAlias
<1>2. ~Walking /\ HereType \notin CallableType \cup {"plain", "call", "decorated"}
  BY <1>1 DEF Walking, CallableType
<1> DEFINE n == NodeAt("struct", tree[Here].name, Here)
           new == Frames("visit", BodyOrNode(Here))
<1>3. ASSUME CreateNode(n),
             node_stack' = Append(node_stack, n.id),
             agenda' = new \o <<Pop>> \o Tail(agenda),
             UNCHANGED <<tree, refs, pending, outcome>>
      PROVE  Handles(new, <<>>)
  <2>1. n \in NodeType /\ n.at = Here /\ n.kind = "struct"
    BY <1>1, NodeAtType DEF Turn, NodeKind
  <2> HIDE DEF n
  <2>2. Spawned(new) /\ NoWalk(new)
    <3>1. BodyOrNode(Here) \in SUBSET Children(Here)
      BY DEF BodyOrNode, BodyOf
    <3>2. Spawned(new) /\ \A i \in DOMAIN new : new[i].do = "visit"
      BY <1>1, <3>1, FramesSpawn DEF Turn, PositionDo
    <3> HIDE DEF new
    <3> QED
      BY <3>2 DEF NoWalk
  <2> HIDE DEF new
  <2>3. Opens(n, new, <<>>)
    BY <1>1, <1>2, <1>3, <2>1, <2>2 DEF Opens, ScopeKind, Callable
  <2> QED
    BY <1>1, <1>3, <2>1, <2>2, <2>3, NothingMore DEF Handles
<1>4. ASSUME CreateLeaf(NodeAt("interface", tree[Here].name, Here))
      PROVE  Handles(<<>>, <<>>)
  <2> DEFINE m == NodeAt("interface", tree[Here].name, Here)
  <2>1. m \in NodeType /\ m.at = Here
    BY <1>1, NodeAtType DEF Turn, NodeKind
  <2> HIDE DEF m
  <2>2. CreateLeaf(m)
    BY <1>4 DEF m
  <2> QED
    BY <1>1, <1>2, <2>1, <2>2, LeafHandles
<1>5. ASSUME Leave PROVE Handles(<<>>, <<>>)
  BY <1>1, <1>2, <1>5, LeaveHandles
<1>6. ASSUME UNCHANGED <<nodes, edges>> \/ CreateNode(NodeAt("type_alias", tree[Here].name, Here)),
             agenda' = Frames("visit", Children(Here)) \o Tail(agenda),
             UNCHANGED <<tree, node_stack, refs, pending, outcome>>
      PROVE  \E s : Handles(s, <<>>)
  <2>1. /\ <<>> \in Seq(RefType) /\ refs' = refs \o <<>>
        /\ \A k \in DOMAIN <<>> : Sourced(<<>>[k])
    BY <1>6, NothingMore
  <2> QED
    BY <1>1, <1>2, <1>6, <2>1, AddHandles, PassHandles
<1>7. \/ CreateNode(n) /\ node_stack' = Append(node_stack, n.id)
         /\ agenda' = new \o <<Pop>> \o Tail(agenda) /\ UNCHANGED <<tree, refs, pending, outcome>>
      \/ CreateLeaf(NodeAt("interface", tree[Here].name, Here))
      \/ Leave
      \/ /\ UNCHANGED <<nodes, edges>> \/ CreateNode(NodeAt("type_alias", tree[Here].name, Here))
         /\ agenda' = Frames("visit", Children(Here)) \o Tail(agenda)
         /\ UNCHANGED <<tree, node_stack, refs, pending, outcome>>
  BY DEF ExtractTypeAlias
<1> HIDE DEF n, new
<1> QED
  BY <1>3, <1>4, <1>5, <1>6, <1>7

LEMMA ImplHandles ==
    ASSUME TypeInv, ExtractImpl
    PROVE  \E new, more : Handles(new, more)
<1> DEFINE named == FindNodeByName(tree[Here].name)
           first == CHOOSE i \in named : \A j \in named : i <= j
           r == Ref(nodes[first].id, "implements", tree[Here].mentions[1], Here)
           found == named # {} /\ tree[Here].mentions # <<>>
<1>1. Turn /\ HereType = "impl" /\ Do = "visit"
  BY HandlerIs DEF ExtractImpl
<1>2. Here \in DOMAIN tree /\ tree[Here].mentions \in Seq(STRING)
  <2>1. Here \in DOMAIN tree /\ tree[Here] \in Position
    BY <1>1, TreeShape DEF Turn
  <2> QED
    BY <2>1 DEF Position
<1>3. /\ refs' = IF found THEN Append(refs, r) ELSE refs
      /\ agenda' = Frames("visit", Children(Here)) \o Tail(agenda)
      /\ UNCHANGED <<tree, node_stack, nodes, edges, pending, outcome>>
  BY DEF ExtractImpl
<1>4. refs \in Seq(RefType) /\ nodes \in Seq(NodeType)
  BY DEF TypeInv
<1>5. CASE found
  <2>1. named \in SUBSET Nat /\ named # {} /\ named \subseteq DOMAIN nodes
        /\ \A i \in named : nodes[i].name = tree[Here].name
    BY <1>4, <1>5 DEF FindNodeByName
  <2>2. \E i \in named : \A j \in named : i <= j
    BY <2>1, Smallest
  <2>3. first \in named
    BY <2>2
  <2> HIDE DEF named, first
  <2>4. first \in DOMAIN nodes /\ nodes[first].name = tree[Here].name
    BY <2>1, <2>3
  <2>5. nodes[first] \in NodeType
    BY <1>4, <2>4
  <2>6. nodes[first].id \in Id
    BY <2>5 DEF NodeType
  <2>7. tree[Here].mentions[1] \in STRING
    <3>1. Len(tree[Here].mentions) \in Nat /\ Len(tree[Here].mentions) > 0
      BY <1>2, <1>5
    <3> QED
      BY <1>2, <3>1
  <2>8. r \in RefType /\ r.at = Here /\ r.from = nodes[first].id
    BY <1>1, <1>2, <2>6, <2>7 DEF Ref, RefType, RefKind, Gives, HereType
  <2>9. Sourced(r)
    BY <1>1, <2>4, <2>8 DEF Sourced, HereType
  <2>10. refs' = Append(refs, r)
    BY <1>3, <1>5
  <2> HIDE DEF r, found
  <2>11. /\ <<r>> \in Seq(RefType) /\ refs' = refs \o <<r>>
         /\ \A k \in DOMAIN <<r>> : Sourced(<<r>>[k])
    BY <1>4, <2>8, <2>9, <2>10
  <2> QED
    BY <1>1, <1>3, <2>11, PassHandles
<1>6. CASE ~found
  <2>1. /\ <<>> \in Seq(RefType) /\ refs' = refs \o <<>>
        /\ \A k \in DOMAIN <<>> : Sourced(<<>>[k])
    BY <1>3, <1>6, NothingMore
  <2> HIDE DEF found, r
  <2> QED
    BY <1>1, <1>3, <2>1, PassHandles
<1> QED
  BY <1>5, <1>6

\* Every step of the visitor: a handler, a pop, the end of a decorated
\* definition, an exception, or the end.
LEMMA EveryStep ==
    ASSUME TypeInv, Next, outcome = "visiting" /\ agenda # <<>> /\ IsPosition(Head(agenda)) => node_stack # <<>>
    PROVE  \/ \E new, more : Handles(new, more)
           \/ LeaveScope \/ ClearPending \/ Raise \/ Finish
<1>1. CASE ExtractCall
  <2>1. node_stack # <<>>
    BY <1>1, HandlerIs DEF ExtractCall, Turn
  <2> QED
    BY <1>1, <2>1, MentionHandles DEF ExtractCall
<1>2. CASE ExtractInstantiation
  <2>1. node_stack # <<>>
    BY <1>2, HandlerIs DEF ExtractInstantiation, Turn
  <2> QED
    BY <1>2, <2>1, MentionHandles DEF ExtractInstantiation
<1>3. CASE ExtractImport
  <2>1. node_stack # <<>>
    BY <1>3, HandlerIs DEF ExtractImport, Turn
  <2> QED
    BY <1>3, <2>1, ImportHandles
<1> QED
  BY <1>1, <1>2, <1>3, PlainHandles, DecoratedHandles, FunctionHandles, TypeHandles, EnumHandles,
     LeafHandlers, VariableHandles, AliasHandles, ImplHandles DEF Next, Visit

-----------------------------------------------------------------------------
(* The heights of the agenda. *)

\* e, the heights after new has taken the place of the first item.
Passed(ag, st, d, new, e) ==
    /\ Heights(new \o Tail(ag), st, e)
    /\ \A i \in DOMAIN new : e[i] = Len(st)
    /\ \A i \in DOMAIN Tail(ag) : e[Len(new) + i] = d[i + 1]

\* e, the heights after id has opened a scope for new.
Opened(ag, st, d, new, id, e) ==
    /\ Heights(new \o <<Pop>> \o Tail(ag), Append(st, id), e)
    /\ \A i \in DOMAIN new : e[i] = Len(st) + 1
    /\ \A i \in DOMAIN Tail(ag) : e[Len(new) + 1 + i] = d[i + 1]

\* The stack stays while an item that is no pop is replaced.
LEMMA HeightsPass ==
    ASSUME NEW F, NEW ag \in Seq(F), ag # <<>>, NEW I, NEW st \in Seq(I), NEW d, Heights(ag, st, d),
           ag[1].do # "pop", NEW new \in Seq(F), \A i \in DOMAIN new : new[i].do # "pop"
    PROVE  \E e : Passed(ag, st, d, new, e)
<1> DEFINE n == Len(new)
           m == Len(ag)
           r == new \o Tail(ag)
           e == [i \in 1 .. n + m |-> IF i <= n THEN d[1] ELSE d[i - n + 1]]
<1>1. /\ n \in Nat /\ m \in Nat /\ m > 0 /\ DOMAIN new = 1 .. n /\ DOMAIN ag = 1 .. m
      /\ Len(st) \in Nat
  BY LenProperties, EmptySeq
<1>2. /\ d \in [1 .. m + 1 -> Nat] /\ d[1] = Len(st) /\ d[m + 1] = 0
      /\ \A i \in 1 .. m : d[i] > 0 /\ d[i + 1] = IF ag[i].do = "pop" THEN d[i] - 1 ELSE d[i]
      /\ \A i, j \in 1 .. m + 1 : i <= j => d[j] <= d[i]
  BY <1>1 DEF Heights
<1>3. /\ Tail(ag) \in Seq(F) /\ Len(Tail(ag)) = m - 1 /\ DOMAIN Tail(ag) = 1 .. m - 1
      /\ \A i \in 1 .. m - 1 : Tail(ag)[i] = ag[i + 1]
  BY <1>1, HeadTailProperties, LenProperties
<1>4. /\ r \in Seq(F) /\ Len(r) = n + (m - 1) /\ DOMAIN r = 1 .. n + (m - 1)
      /\ \A i \in 1 .. n + (m - 1) : r[i] = IF i <= n THEN new[i] ELSE Tail(ag)[i - n]
  BY <1>1, <1>3, ConcatProperties, LenProperties
<1>5. d[2] = d[1] /\ d[1] > 0 /\ d[1] \in Nat
  <2>1. 1 \in 1 .. m /\ 1 \in 1 .. m + 1 /\ 1 + 1 = 2
    BY <1>1
  <2> QED
    BY <1>2, <2>1
<1> HIDE DEF r, n, m
<1>6. \A i \in 1 .. n + m : e[i] = IF i <= n THEN d[1] ELSE d[i - n + 1]
  OBVIOUS
<1>7. ASSUME NEW i \in 1 .. n + m PROVE i <= n \/ (i - n + 1 \in 1 .. m + 1 /\ i - n + 1 >= 2)
  BY <1>1
<1>8. e \in [1 .. n + m -> Nat]
  <2>1. \A i \in 1 .. n + m : e[i] \in Nat
    BY <1>1, <1>2, <1>6, <1>7
  <2> QED
    BY <2>1
<1> HIDE DEF e
<1>9. e[1] = Len(st)
  <2>1. 1 \in 1 .. n + m /\ (~ (1 <= n) => 1 - n + 1 = 2)
    BY <1>1
  <2> QED
    BY <1>1, <1>2, <1>5, <1>6, <2>1
<1>10. e[n + m] = 0
  <2>1. n + m \in 1 .. n + m /\ ~ (n + m <= n) /\ n + m - n + 1 = m + 1
    BY <1>1
  <2>2. e[n + m] = d[n + m - n + 1]
    BY <1>1, <1>6, <2>1
  <2> QED
    BY <1>2, <2>1, <2>2
<1>11. ASSUME NEW i \in 1 .. n + (m - 1)
       PROVE  e[i] > 0 /\ e[i + 1] = IF r[i].do = "pop" THEN e[i] - 1 ELSE e[i]
  <2>1. i \in 1 .. n + m /\ i + 1 \in 1 .. n + m
    BY <1>1
  <2>2. CASE i < n
    <3>1. i <= n /\ i + 1 <= n /\ i \in 1 .. n
      BY <1>1, <2>2
    <3>2. e[i] = d[1] /\ e[i + 1] = d[1] /\ r[i] = new[i]
      BY <1>4, <1>6, <2>1, <3>1
    <3> QED
      BY <1>1, <1>5, <3>1, <3>2
  <2>3. CASE i = n
    <3>1. i <= n /\ ~ (i + 1 <= n) /\ i + 1 - n + 1 = 2 /\ i \in 1 .. n
      BY <1>1, <2>3
    <3>2. e[i] = d[1] /\ e[i + 1] = d[2] /\ r[i] = new[i]
      BY <1>1, <1>4, <1>6, <2>1, <3>1
    <3> QED
      BY <1>1, <1>5, <3>1, <3>2
  <2>4. CASE i > n
    <3> DEFINE k == i - n + 1
    <3>1. ~ (i <= n) /\ ~ (i + 1 <= n) /\ i + 1 - n + 1 = k + 1 /\ k \in 1 .. m
          /\ i - n \in 1 .. m - 1 /\ (i - n) + 1 = k
      BY <1>1, <2>4
    <3>2. e[i] = d[k] /\ e[i + 1] = d[k + 1] /\ r[i] = ag[k]
      BY <1>1, <1>3, <1>4, <1>6, <2>1, <3>1
    <3> QED
      BY <1>2, <3>1, <3>2
  <2>5. i < n \/ i = n \/ i > n
    BY <1>1, <2>1
  <2> QED
    BY <2>2, <2>3, <2>4, <2>5
<1>12. ASSUME NEW i \in 1 .. n + m, NEW j \in 1 .. n + m, i <= j PROVE e[j] <= e[i]
  <2>1. CASE j <= n
    <3>1. i <= n
      BY <1>1, <1>12, <2>1
    <3>2. e[i] = d[1] /\ e[j] = d[1]
      BY <1>6, <2>1, <3>1
    <3> QED
      BY <1>5, <3>2
  <2>2. CASE ~ (j <= n)
    <3> DEFINE k == j - n + 1
    <3>1. k \in 1 .. m + 1 /\ e[j] = d[k]
      BY <1>1, <1>6, <1>7, <2>2
    <3>2. CASE i <= n
      <4>1. 1 \in 1 .. m + 1 /\ 1 <= k
        BY <1>1, <3>1
      <4> QED
        BY <1>2, <1>6, <3>1, <3>2, <4>1
    <3>3. CASE ~ (i <= n)
      <4>1. i - n + 1 \in 1 .. m + 1 /\ i - n + 1 <= k /\ e[i] = d[i - n + 1]
        BY <1>1, <1>6, <1>7, <1>12, <3>3
      <4> QED
        BY <1>2, <3>1, <4>1
    <3> QED
      BY <3>2, <3>3
  <2> QED
    BY <2>1, <2>2
<1>13. Heights(r, st, e)
  <2>1. Len(r) + 1 = n + m
    BY <1>1, <1>4
  <2>2. DOMAIN e = 1 .. n + m
    BY <1>8
  <2> QED
    BY <1>4, <1>8, <1>9, <1>10, <1>11, <1>12, <2>1, <2>2 DEF Heights
<1>14. \A i \in DOMAIN new : e[i] = Len(st)
  <2> SUFFICES ASSUME NEW i \in 1 .. n PROVE e[i] = Len(st)
    BY <1>1
  <2>1. i \in 1 .. n + m /\ i <= n
    BY <1>1
  <2> QED
    BY <1>1, <1>2, <1>6, <2>1
<1>15. \A i \in DOMAIN Tail(ag) : e[n + i] = d[i + 1]
  <2> SUFFICES ASSUME NEW i \in 1 .. m - 1 PROVE e[n + i] = d[i + 1]
    BY <1>3
  <2>1. n + i \in 1 .. n + m /\ ~ (n + i <= n) /\ n + i - n + 1 = i + 1
    BY <1>1
  <2> QED
    BY <1>1, <1>6, <2>1
<1> QED
  BY <1>13, <1>14, <1>15 DEF r, n, m, Passed

\* A pop takes one item and one scope.
LEMMA HeightsPop ==
    ASSUME NEW F, NEW ag \in Seq(F), ag # <<>>, NEW I, NEW st \in Seq(I), NEW d, Heights(ag, st, d),
           ag[1].do = "pop"
    PROVE  /\ Len(st) > 0
           /\ \E e : /\ Heights(Tail(ag), SubSeq(st, 1, Len(st) - 1), e)
                     /\ \A i \in DOMAIN Tail(ag) : e[i] = d[i + 1] /\ d[i + 1] \in 1 .. Len(st) - 1
<1> DEFINE m == Len(ag)
           r == Tail(ag)
           e == [i \in 1 .. m |-> d[i + 1]]
           rest == SubSeq(st, 1, Len(st) - 1)
<1>1. m \in Nat /\ m > 0 /\ DOMAIN ag = 1 .. m /\ Len(st) \in Nat
  BY LenProperties, EmptySeq
<1>2. /\ d \in [1 .. m + 1 -> Nat] /\ d[1] = Len(st) /\ d[m + 1] = 0
      /\ \A i \in 1 .. m : d[i] > 0 /\ d[i + 1] = IF ag[i].do = "pop" THEN d[i] - 1 ELSE d[i]
      /\ \A i, j \in 1 .. m + 1 : i <= j => d[j] <= d[i]
  BY <1>1 DEF Heights
<1>3. /\ Len(r) = m - 1 /\ DOMAIN r = 1 .. m - 1
      /\ \A i \in 1 .. m - 1 : r[i] = ag[i + 1]
  BY <1>1, HeadTailProperties, LenProperties
<1>4. d[2] = Len(st) - 1 /\ Len(st) > 0
  <2>1. 1 \in 1 .. m /\ 1 + 1 = 2
    BY <1>1
  <2> QED
    BY <1>2, <2>1
<1>5. Len(rest) = Len(st) - 1
  <2>1. \A i \in 1 .. Len(st) - 1 : st[i] \in I
    BY <1>1, ElementOfSeq
  <2>2. Len(rest) = IF 1 <= Len(st) - 1 THEN Len(st) - 1 - 1 + 1 ELSE 0
    BY <1>1, <2>1, SubSeqProperties
  <2>3. \A k \in Nat : k > 0 => (k - 1) - 1 + 1 = k - 1 /\ (~ (1 <= k - 1) => k - 1 = 0)
    OBVIOUS
  <2>4. (Len(st) - 1) - 1 + 1 = Len(st) - 1 /\ (~ (1 <= Len(st) - 1) => Len(st) - 1 = 0)
    BY <1>1, <1>4, <2>3
  <2> HIDE DEF rest
  <2> QED
    BY <2>2, <2>4
<1> HIDE DEF r, m, rest
<1>6. \A i \in 1 .. m : e[i] = d[i + 1] /\ i + 1 \in 1 .. m + 1
  BY <1>1
<1>7. e \in [1 .. m -> Nat]
  <2>1. \A i \in 1 .. m : e[i] \in Nat
    BY <1>2, <1>6
  <2> QED
    BY <2>1
<1> HIDE DEF e
<1>8. e[1] = Len(rest) /\ e[m] = 0
  <2>1. 1 \in 1 .. m /\ m \in 1 .. m /\ 1 + 1 = 2
    BY <1>1
  <2> QED
    BY <1>2, <1>4, <1>5, <1>6, <2>1
<1>9. ASSUME NEW i \in 1 .. m - 1
      PROVE  e[i] > 0 /\ e[i + 1] = IF r[i].do = "pop" THEN e[i] - 1 ELSE e[i]
  <2>1. i \in 1 .. m /\ i + 1 \in 1 .. m
    BY <1>1
  <2>2. e[i] = d[i + 1] /\ e[i + 1] = d[(i + 1) + 1] /\ r[i] = ag[i + 1]
    BY <1>3, <1>6, <2>1
  <2> QED
    BY <1>2, <2>1, <2>2
<1>10. ASSUME NEW i \in 1 .. m, NEW j \in 1 .. m, i <= j PROVE e[j] <= e[i]
  <2>1. i + 1 \in 1 .. m + 1 /\ j + 1 \in 1 .. m + 1 /\ i + 1 <= j + 1
    BY <1>1, <1>10
  <2> QED
    BY <1>2, <1>6, <2>1
<1>11. Heights(r, rest, e)
  <2>1. Len(r) + 1 = m
    BY <1>1, <1>3
  <2>2. DOMAIN e = 1 .. m
    BY <1>7
  <2> QED
    BY <1>3, <1>7, <1>8, <1>9, <1>10, <2>1, <2>2 DEF Heights
<1>12. ASSUME NEW i \in DOMAIN r PROVE e[i] = d[i + 1] /\ d[i + 1] \in 1 .. Len(st) - 1
  <2>1. i \in 1 .. m /\ i + 1 \in 1 .. m /\ i + 1 \in 1 .. m + 1 /\ 2 \in 1 .. m + 1 /\ 2 <= i + 1
    BY <1>1, <1>3
  <2>2. e[i] = d[i + 1] /\ d[i + 1] > 0 /\ d[i + 1] <= d[2] /\ d[i + 1] \in Nat
    BY <1>2, <1>6, <2>1
  <2> QED
    BY <1>1, <1>4, <2>2
<1> QED
  BY <1>4, <1>11, <1>12 DEF r, rest

\* A scope that opens is left when what waits in it is done.
LEMMA HeightsOpen ==
    ASSUME NEW F, NEW ag \in Seq(F), ag # <<>>, NEW I, NEW st \in Seq(I), NEW d, Heights(ag, st, d),
           ag[1].do # "pop", NEW new \in Seq(F), \A i \in DOMAIN new : new[i].do # "pop",
           Pop \in F, NEW id \in I
    PROVE  \E e : Opened(ag, st, d, new, id, e)
<1> DEFINE n == Len(new)
           m == Len(ag)
           front == new \o <<Pop>>
           r == front \o Tail(ag)
           e == [i \in 1 .. n + 1 + m |-> IF i <= n + 1 THEN d[1] + 1 ELSE d[i - n]]
<1>1. /\ n \in Nat /\ m \in Nat /\ m > 0 /\ DOMAIN new = 1 .. n /\ DOMAIN ag = 1 .. m
      /\ Len(st) \in Nat
  BY LenProperties, EmptySeq
<1>2. /\ d \in [1 .. m + 1 -> Nat] /\ d[1] = Len(st) /\ d[m + 1] = 0
      /\ \A i \in 1 .. m : d[i] > 0 /\ d[i + 1] = IF ag[i].do = "pop" THEN d[i] - 1 ELSE d[i]
      /\ \A i, j \in 1 .. m + 1 : i <= j => d[j] <= d[i]
  BY <1>1 DEF Heights
<1>3. /\ Tail(ag) \in Seq(F) /\ Len(Tail(ag)) = m - 1 /\ DOMAIN Tail(ag) = 1 .. m - 1
      /\ \A i \in 1 .. m - 1 : Tail(ag)[i] = ag[i + 1]
  BY <1>1, HeadTailProperties, LenProperties
<1>4. /\ front \in Seq(F) /\ Len(front) = n + 1
      /\ \A i \in 1 .. n : front[i] = new[i]
      /\ front[n + 1] = Pop
  BY <1>1
<1>5. /\ r \in Seq(F) /\ Len(r) = n + 1 + (m - 1) /\ DOMAIN r = 1 .. n + m
      /\ \A i \in 1 .. n + m : r[i] = IF i <= n + 1 THEN front[i] ELSE Tail(ag)[i - (n + 1)]
  <2>1. DOMAIN r = 1 .. Len(r) /\ r \in Seq(F) /\ Len(r) = (n + 1) + (m - 1)
        /\ \A i \in 1 .. (n + 1) + (m - 1) :
              r[i] = IF i <= n + 1 THEN front[i] ELSE Tail(ag)[i - (n + 1)]
    BY <1>3, <1>4, ConcatProperties, LenProperties
  <2>2. (n + 1) + (m - 1) = n + m
    BY <1>1
  <2> QED
    BY <2>1, <2>2
<1>6. d[2] = d[1] /\ d[1] > 0 /\ d[1] \in Nat
  <2>1. 1 \in 1 .. m /\ 1 \in 1 .. m + 1 /\ 1 + 1 = 2
    BY <1>1
  <2> QED
    BY <1>2, <2>1
<1>7. Len(Append(st, id)) = Len(st) + 1
  OBVIOUS
<1> HIDE DEF r, n, m, front
<1>8. \A i \in 1 .. n + 1 + m : e[i] = IF i <= n + 1 THEN d[1] + 1 ELSE d[i - n]
  OBVIOUS
<1>9. ASSUME NEW i \in 1 .. n + 1 + m, ~ (i <= n + 1)
      PROVE  i - n \in 1 .. m + 1 /\ i - n >= 2 /\ e[i] = d[i - n] /\ d[i - n] \in Nat
  <2>1. i - n \in 1 .. m + 1 /\ i - n >= 2
    BY <1>1, <1>9
  <2> QED
    BY <1>1, <1>2, <1>8, <1>9, <2>1
<1>10. ASSUME NEW i \in 1 .. n + 1 + m, i <= n + 1 PROVE e[i] = d[1] + 1
  BY <1>8, <1>10
<1>11. e \in [1 .. n + 1 + m -> Nat]
  <2>1. \A i \in 1 .. n + 1 + m : e[i] \in Nat
    BY <1>6, <1>9, <1>10
  <2> QED
    BY <2>1
<1> HIDE DEF e
<1>12. e[1] = Len(st) + 1 /\ e[n + 1 + m] = 0
  <2>1. /\ 1 \in 1 .. n + 1 + m /\ 1 <= n + 1
        /\ n + 1 + m \in 1 .. n + 1 + m /\ ~ (n + 1 + m <= n + 1) /\ (n + 1 + m) - n = m + 1
    BY <1>1
  <2> QED
    BY <1>2, <1>9, <1>10, <2>1
<1>13. ASSUME NEW i \in 1 .. n + m
       PROVE  e[i] > 0 /\ e[i + 1] = IF r[i].do = "pop" THEN e[i] - 1 ELSE e[i]
  <2>1. i \in 1 .. n + 1 + m /\ i + 1 \in 1 .. n + 1 + m
    BY <1>1
  <2>2. CASE i \in 1 .. n
    <3>1. i <= n + 1 /\ i + 1 <= n + 1
      BY <1>1, <2>2
    <3>2. e[i] = d[1] + 1 /\ e[i + 1] = d[1] + 1 /\ r[i] = new[i]
      BY <1>4, <1>5, <1>10, <2>1, <2>2, <3>1
    <3> QED
      BY <1>1, <1>6, <2>2, <3>2
  <2>3. CASE i = n + 1
    <3>1. i <= n + 1 /\ ~ (i + 1 <= n + 1) /\ (i + 1) - n = 2
      BY <1>1, <2>3
    <3>2. e[i] = d[1] + 1 /\ e[i + 1] = d[2] /\ r[i] = Pop
      BY <1>4, <1>5, <1>9, <1>10, <2>1, <2>3, <3>1
    <3> QED
      BY <1>6, <3>2 DEF Pop, Frame
  <2>4. CASE i \notin 1 .. n /\ i # n + 1
    <3>1. /\ ~ (i <= n + 1) /\ ~ (i + 1 <= n + 1) /\ (i + 1) - n = (i - n) + 1 /\ i - n \in 1 .. m
          /\ i - (n + 1) \in 1 .. m - 1 /\ (i - (n + 1)) + 1 = i - n
      BY <1>1, <2>4
    <3>2. e[i] = d[i - n] /\ e[i + 1] = d[(i - n) + 1] /\ r[i] = ag[i - n]
      <4>1. e[i] = d[i - n] /\ e[i + 1] = d[(i + 1) - n]
        BY <1>9, <2>1, <3>1
      <4>2. r[i] = Tail(ag)[i - (n + 1)]
        BY <1>5, <3>1
      <4>3. Tail(ag)[i - (n + 1)] = ag[(i - (n + 1)) + 1]
        BY <1>3, <3>1
      <4> QED
        BY <3>1, <4>1, <4>2, <4>3
    <3> QED
      BY <1>2, <3>1, <3>2
  <2> QED
    BY <2>2, <2>3, <2>4
<1>14. ASSUME NEW i \in 1 .. n + 1 + m, NEW j \in 1 .. n + 1 + m, i <= j PROVE e[j] <= e[i]
  <2>1. CASE j <= n + 1
    <3>1. i <= n + 1
      BY <1>1, <1>14, <2>1
    <3> QED
      BY <1>6, <1>10, <2>1, <3>1
  <2>2. CASE ~ (j <= n + 1)
    <3>1. j - n \in 1 .. m + 1 /\ e[j] = d[j - n] /\ d[j - n] \in Nat
      BY <1>9, <2>2
    <3>2. CASE i <= n + 1
      <4>1. 1 \in 1 .. m + 1 /\ 1 <= j - n
        BY <1>1, <3>1
      <4>2. d[j - n] <= d[1] /\ e[i] = d[1] + 1
        BY <1>2, <1>10, <3>1, <3>2, <4>1
      <4> QED
        BY <1>6, <3>1, <4>2
    <3>3. CASE ~ (i <= n + 1)
      <4>1. i - n \in 1 .. m + 1 /\ i - n <= j - n /\ e[i] = d[i - n]
        BY <1>1, <1>9, <1>14, <3>3
      <4> QED
        BY <1>2, <3>1, <4>1
    <3> QED
      BY <3>2, <3>3
  <2> QED
    BY <2>1, <2>2
<1>15. Heights(r, Append(st, id), e)
  <2>1. Len(r) + 1 = n + 1 + m
    BY <1>1, <1>5
  <2>2. DOMAIN e = 1 .. n + 1 + m
    BY <1>11
  <2> QED
    BY <1>5, <1>7, <1>11, <1>12, <1>13, <1>14, <2>1, <2>2 DEF Heights
<1>16. ASSUME NEW i \in DOMAIN new PROVE e[i] = Len(st) + 1
  <2>1. i \in 1 .. n + 1 + m /\ i <= n + 1
    BY <1>1
  <2> QED
    BY <1>2, <1>10, <2>1
<1>17. ASSUME NEW i \in DOMAIN Tail(ag) PROVE e[n + 1 + i] = d[i + 1]
  <2>1. n + 1 + i \in 1 .. n + 1 + m /\ ~ (n + 1 + i <= n + 1) /\ (n + 1 + i) - n = i + 1
    BY <1>1, <1>3
  <2> QED
    BY <1>9, <2>1
<1> QED
  BY <1>15, <1>16, <1>17 DEF r, n, front, Opened

-----------------------------------------------------------------------------
(* The scope a position stands in. *)

Standing(ns, q) == {i \in DOMAIN ns : ns[i].at = q /\ ns[i].kind \in ScopeKind}

Above(tr, ns, s, p) ==
    IF tr[p].parent = 0 THEN FileId
    ELSE IF Standing(ns, tr[p].parent) # {}
         THEN ns[CHOOSE i \in Standing(ns, tr[p].parent) : TRUE].id
         ELSE s[tr[p].parent]

Scoping(tr, ns, s) == s = [p \in DOMAIN tr |-> Above(tr, ns, s, p)]

ScopeIn(tr, ns) == CHOOSE s : Scoping(tr, ns, s)

LEMMA ScopeIs == Scope = ScopeIn(tree, nodes)
  BY DEF Scope, ScopeIn, Scoping, Above, Standing

LEMMA ScopeIsNext == Scope' = ScopeIn(tree', nodes')
  BY DEF Scope, ScopeIn, Scoping, Above, Standing

LEMMA Parents ==
    ASSUME NEW tr, IsTree(tr)
    PROVE  /\ DOMAIN tr = 1 .. Len(tr) /\ Len(tr) \in Nat
           /\ \A p \in DOMAIN tr : tr[p].parent \in Nat /\ tr[p].parent < p
                                   /\ (tr[p].parent # 0 => tr[p].parent \in DOMAIN tr)
<1>1. tr \in Seq(Position)
  BY DEF IsTree
<1>2. DOMAIN tr = 1 .. Len(tr) /\ Len(tr) \in Nat
  BY <1>1
<1>3. \A p \in DOMAIN tr : tr[p] \in Position
  BY <1>1
<1>4. \A p \in DOMAIN tr : tr[p].parent \in Nat
  BY <1>3 DEF Position
<1> QED
  BY <1>2, <1>4 DEF IsTree

LEMMA ScopingExists ==
    ASSUME NEW tr, IsTree(tr), NEW ns
    PROVE  \E s : Scoping(tr, ns, s)
<1> DEFINE Upto(g, k) == /\ g = [p \in DOMAIN tr |-> g[p]]
                         /\ \A p \in DOMAIN tr : p <= k => g[p] = Above(tr, ns, g, p)
           K == {k \in Nat : \E g : Upto(g, k)}
<1>1. 0 \in K
  <2> DEFINE g == [p \in DOMAIN tr |-> FileId]
  <2>1. Upto(g, 0)
    BY Parents
  <2> QED
    BY <2>1
<1>2. ASSUME NEW k \in Nat, k \in K PROVE k + 1 \in K
  <2>1. PICK g : Upto(g, k)
    BY <1>2
  <2> DEFINE h == [p \in DOMAIN tr |-> IF p = k + 1 THEN Above(tr, ns, g, p) ELSE g[p]]
  <2>2. ASSUME NEW p \in DOMAIN tr, p <= k + 1 PROVE Above(tr, ns, h, p) = Above(tr, ns, g, p)
    <3>1. /\ tr[p].parent \in Nat /\ tr[p].parent < p
          /\ tr[p].parent # 0 => tr[p].parent \in DOMAIN tr
      BY Parents
    <3>2. p \in Nat /\ tr[p].parent # k + 1
      BY <2>2, <3>1, Parents
    <3>3. tr[p].parent # 0 => h[tr[p].parent] = g[tr[p].parent]
      BY <3>1, <3>2
    <3> HIDE DEF h
    <3> QED
      BY <3>3 DEF Above
  <2>3. ASSUME NEW p \in DOMAIN tr, p <= k + 1 PROVE h[p] = Above(tr, ns, h, p)
    <3>1. CASE p = k + 1
      BY <2>2, <2>3, <3>1
    <3>2. CASE p # k + 1
      <4>1. p <= k
        BY <2>3, <3>2, Parents
      <4> QED
        BY <2>1, <2>2, <2>3, <3>2, <4>1
    <3> QED
      BY <3>1, <3>2
  <2>4. h = [p \in DOMAIN tr |-> h[p]]
    OBVIOUS
  <2> HIDE DEF h
  <2>5. Upto(h, k + 1)
    BY <2>3, <2>4
  <2> QED
    BY <2>5
<1> HIDE DEF K
<1>3. \A k \in Nat : k \in K
  BY <1>1, <1>2, SetInduction
<1>4. PICK g : Upto(g, Len(tr))
  BY <1>3, Parents DEF K
<1>5. \A p \in DOMAIN tr : g[p] = Above(tr, ns, g, p)
  BY <1>4, Parents
<1>6. g = [p \in DOMAIN tr |-> g[p]]
  BY <1>4
<1>7. [p \in DOMAIN tr |-> g[p]] = [p \in DOMAIN tr |-> Above(tr, ns, g, p)]
  BY <1>5
<1>8. Scoping(tr, ns, g)
  BY <1>6, <1>7 DEF Scoping
<1> QED
  BY <1>8

LEMMA ScopeUnfolds ==
    ASSUME NEW tr, IsTree(tr), NEW ns
    PROVE  \A p \in DOMAIN tr : ScopeIn(tr, ns)[p] = Above(tr, ns, ScopeIn(tr, ns), p)
<1>1. Scoping(tr, ns, ScopeIn(tr, ns))
  BY ScopingExists DEF ScopeIn
<1> QED
  BY <1>1 DEF Scoping

\* Two lists of nodes agree on the scopes of the positions in C, when C holds
\* what stands around a position of C, and they have the same nodes there.
LEMMA SameScopes ==
    ASSUME NEW tr, IsTree(tr), NEW ns, NEW ms, NEW C, C \subseteq DOMAIN tr,
           \A p \in C : tr[p].parent # 0 =>
              /\ tr[p].parent \in C
              /\ Standing(ns, tr[p].parent) = Standing(ms, tr[p].parent)
              /\ \A i \in Standing(ns, tr[p].parent) : ns[i] = ms[i]
    PROVE  \A p \in C : ScopeIn(tr, ns)[p] = ScopeIn(tr, ms)[p]
<1> DEFINE S == {p \in Nat : p \in C => ScopeIn(tr, ns)[p] = ScopeIn(tr, ms)[p]}
<1>1. ASSUME NEW p \in Nat, \A q \in 0 .. p - 1 : q \in S PROVE p \in S
  <2> SUFFICES ASSUME p \in C PROVE ScopeIn(tr, ns)[p] = ScopeIn(tr, ms)[p]
    OBVIOUS
  <2>1. p \in DOMAIN tr /\ tr[p].parent \in Nat /\ tr[p].parent \in 0 .. p - 1
    BY Parents
  <2>2. /\ ScopeIn(tr, ns)[p] = Above(tr, ns, ScopeIn(tr, ns), p)
        /\ ScopeIn(tr, ms)[p] = Above(tr, ms, ScopeIn(tr, ms), p)
    BY <2>1, ScopeUnfolds
  <2> DEFINE q == tr[p].parent
  <2>3. CASE q = 0
    BY <2>2, <2>3 DEF Above
  <2>4. CASE q # 0
    <3>1. ScopeIn(tr, ns)[q] = ScopeIn(tr, ms)[q]
      BY <1>1, <2>1, <2>4
    <3>2. Standing(ns, q) = Standing(ms, q) /\ \A i \in Standing(ns, q) : ns[i] = ms[i]
      BY <2>4
    <3> DEFINE i == CHOOSE k \in Standing(ns, q) : TRUE
               j == CHOOSE k \in Standing(ms, q) : TRUE
    <3>3. i = j
      BY <3>2
    <3>4. Standing(ns, q) # {} => ns[i].id = ms[j].id
      <4>1. Standing(ns, q) # {} => i \in Standing(ns, q)
        OBVIOUS
      <4> HIDE DEF i, j
      <4> QED
        BY <3>2, <3>3, <4>1
    <3> QED
      BY <2>2, <2>4, <3>1, <3>2, <3>4 DEF Above
  <2> QED
    BY <2>3, <2>4
<1> HIDE DEF S
<1>2. \A p \in Nat : p \in S
  BY <1>1, CourseOfValues
<1>3. C \subseteq Nat
  BY Parents
<1> QED
  BY <1>2, <1>3 DEF S

-----------------------------------------------------------------------------
(* Types. *)

LEMMA SameTypes ==
    ASSUME tree' = tree
    PROVE  /\ FrameType' = FrameType
           /\ NodeType' = NodeType
           /\ RefType' = RefType
<1>1. FrameType' = FrameType
  BY DEF FrameType
<1>2. NodeType' = NodeType
  BY DEF NodeType
<1>3. RefType' = RefType
  BY DEF RefType
<1> QED
  BY <1>1, <1>2, <1>3

LEMMA PopType == Pop \in FrameType /\ Pop.do = "pop" /\ ~IsPosition(Pop)
  BY DEF Pop, Frame, FrameType, IsPosition, PositionDo

\* The three forms of the next agenda.
LEMMA HandlesForm ==
    ASSUME NEW new, NEW more, Handles(new, more)
    PROVE  \/ Passes(new) /\ agenda' = new \o Tail(agenda)
           \/ \E n \in NodeType :
                 /\ n.at = Here /\ CreateNode(n) /\ HereType # "plain"
                 /\ \/ Adds(n, new) /\ agenda' = new \o Tail(agenda)
                    \/ Opens(n, new, more) /\ agenda' = new \o <<Pop>> \o Tail(agenda)
<1>1. CASE Passes(new)
  BY <1>1 DEF Passes
<1>2. ASSUME NEW n \in NodeType, n.at = Here, Adds(n, new)
      PROVE  CreateNode(n) /\ HereType # "plain" /\ agenda' = new \o Tail(agenda)
  BY <1>2 DEF Adds
<1>3. ASSUME NEW n \in NodeType, n.at = Here, Opens(n, new, more)
      PROVE  CreateNode(n) /\ HereType # "plain" /\ agenda' = new \o <<Pop>> \o Tail(agenda)
  BY <1>3 DEF Opens
<1>4. \/ Passes(new)
      \/ \E n \in NodeType : n.at = Here /\ Adds(n, new)
      \/ \E n \in NodeType : n.at = Here /\ Opens(n, new, more)
  BY DEF Handles
<1> QED
  BY <1>1, <1>2, <1>3, <1>4

LEMMA TypesNext ==
    ASSUME TypeInv, node_stack # <<>>, NEW new, NEW more, Handles(new, more)
    PROVE  TypeInv'
<1>1. /\ tree' = tree /\ outcome' = outcome
      /\ new \in Seq(FrameType) /\ more \in Seq(RefType) /\ refs' = refs \o more
      /\ agenda # <<>>
  BY DEF Handles, Spawned, Turn
<1>2. FrameType' = FrameType /\ NodeType' = NodeType /\ RefType' = RefType
  BY <1>1, SameTypes
<1>3. Tail(agenda) \in Seq(FrameType) /\ Pop \in FrameType
  BY <1>1, NothingMore, PopType
<1>4. agenda' \in Seq(FrameType)
  <2>1. agenda' = new \o Tail(agenda) \/ agenda' = new \o <<Pop>> \o Tail(agenda)
    BY HandlesForm
  <2>2. new \o <<Pop>> \in Seq(FrameType)
    BY <1>1, <1>3
  <2> QED
    BY <1>1, <1>3, <2>1, <2>2, ConcatProperties
<1>5. refs' \in Seq(RefType)
  BY <1>1 DEF TypeInv
<1>6. Top \in Id /\ edges \in Seq(Id \X Id) /\ node_stack \in Seq(Id)
  BY TopType DEF TypeInv
<1>7. /\ nodes' \in Seq(NodeType) /\ edges' \in Seq(Id \X Id) /\ node_stack' \in Seq(Id)
  <2>1. CASE Passes(new)
    BY <1>6, <2>1 DEF Passes, TypeInv
  <2>2. ASSUME NEW n \in NodeType, CreateNode(n)
        PROVE  nodes' \in Seq(NodeType) /\ edges' \in Seq(Id \X Id) /\ n.id \in Id
    <3>1. n.id \in Id
      BY DEF NodeType
    <3>2. edges' = Append(edges, <<Top, n.id>>)
      BY <2>2 DEF CreateNode
    <3> QED
      BY <1>6, <2>2, <3>1, <3>2, CreateNodeTypes
  <2>3. ASSUME NEW n \in NodeType, Adds(n, new)
        PROVE  node_stack' = node_stack
    BY <2>3 DEF Adds
  <2>4. ASSUME NEW n \in NodeType, Opens(n, new, more)
        PROVE  node_stack' = Append(node_stack, n.id)
    BY <2>4 DEF Opens
  <2>5. CASE \E n \in NodeType : CreateNode(n) /\ (Adds(n, new) \/ Opens(n, new, more))
    <3>1. PICK n \in NodeType : CreateNode(n) /\ (Adds(n, new) \/ Opens(n, new, more))
      BY <2>5
    <3>2. nodes' \in Seq(NodeType) /\ edges' \in Seq(Id \X Id) /\ n.id \in Id
      BY <2>2, <3>1
    <3>3. node_stack' = node_stack \/ node_stack' = Append(node_stack, n.id)
      BY <2>3, <2>4, <3>1
    <3>4. Append(node_stack, n.id) \in Seq(Id)
      BY <1>6, <3>2
    <3>5. node_stack' \in Seq(Id)
      BY <1>6, <3>3, <3>4
    <3> QED
      BY <3>2, <3>5
  <2> QED
    BY <2>1, <2>5, HandlesForm
<1>8. pending' \in Seq({p \in DOMAIN tree : tree[p].t = "decorator"})
  <2>1. CASE pending' = pending
    BY <2>1 DEF TypeInv
  <2>2. CASE pending' = Listed(Readable(Here))
    <3> DEFINE D == {p \in DOMAIN tree : tree[p].t = "decorator"}
    <3>1. Len(tree) \in Nat /\ Readable(Here) \subseteq 1 .. Len(tree) /\ Readable(Here) \subseteq D
      BY TreeShape DEF Readable, Children
    <3>2. Listed(Readable(Here)) \in Seq(Readable(Here))
      BY <3>1, ListedOnce
    <3> HIDE DEF D
    <3>3. Listed(Readable(Here)) \in Seq(D)
      BY <3>1, <3>2, SeqMonotonic
    <3> QED
      BY <2>2, <3>3 DEF D
  <2> QED
    BY <2>1, <2>2 DEF Handles
<1> QED
  BY <1>1, <1>2, <1>4, <1>5, <1>7, <1>8 DEF TypeInv

-----------------------------------------------------------------------------
(* The next agenda, item by item. *)

AgendaNext(new, o) ==
    /\ o \in Nat
    /\ \A i \in DOMAIN agenda' :
          \/ i \in DOMAIN new /\ agenda'[i] = new[i]
          \/ agenda'[i] = Pop
          \/ \E j \in DOMAIN agenda : j # 1 /\ i = o + j - 1 /\ agenda'[i] = agenda[j]
    /\ \A i \in DOMAIN new : i \in DOMAIN agenda' /\ agenda'[i] = new[i]
    /\ \A j \in DOMAIN agenda : j # 1 => o + j - 1 \in DOMAIN agenda' /\ agenda'[o + j - 1] = agenda[j]

\* r is ag with front in the place of its first item.
Replaces(ag, front, r) ==
    /\ Len(front) \in Nat
    /\ \A i \in DOMAIN r :
          \/ i \in DOMAIN front /\ r[i] = front[i]
          \/ \E j \in DOMAIN ag : j # 1 /\ i = Len(front) + j - 1 /\ r[i] = ag[j]
    /\ \A i \in DOMAIN front : i \in DOMAIN r /\ r[i] = front[i]
    /\ \A j \in DOMAIN ag :
          j # 1 => Len(front) + j - 1 \in DOMAIN r /\ r[Len(front) + j - 1] = ag[j]

LEMMA AgendaForm ==
    ASSUME NEW F, NEW ag \in Seq(F), ag # <<>>, NEW front \in Seq(F)
    PROVE  Replaces(ag, front, front \o Tail(ag))
<1> DEFINE r == front \o Tail(ag)
           o == Len(front)
           m == Len(ag)
<1>1. o \in Nat /\ m \in Nat /\ m > 0 /\ DOMAIN front = 1 .. o /\ DOMAIN ag = 1 .. m
  BY LenProperties, EmptySeq
<1>2. /\ Tail(ag) \in Seq(F) /\ Len(Tail(ag)) = m - 1
      /\ \A i \in 1 .. m - 1 : Tail(ag)[i] = ag[i + 1]
  BY <1>1, HeadTailProperties
<1>3. /\ DOMAIN r = 1 .. o + (m - 1)
      /\ \A i \in 1 .. o + (m - 1) : r[i] = IF i <= o THEN front[i] ELSE Tail(ag)[i - o]
  BY <1>1, <1>2, ConcatProperties, LenProperties
<1> HIDE DEF r, o, m
<1>4. ASSUME NEW i \in DOMAIN r
      PROVE  \/ i \in DOMAIN front /\ r[i] = front[i]
             \/ \E j \in DOMAIN ag : j # 1 /\ i = o + j - 1 /\ r[i] = ag[j]
  <2>1. CASE i <= o
    <3>1. i \in 1 .. o
      BY <1>1, <1>3, <2>1
    <3> QED
      BY <1>1, <1>3, <2>1, <3>1
  <2>2. CASE ~ (i <= o)
    <3>1. /\ i - o \in 1 .. m - 1 /\ (i - o) + 1 \in 1 .. m /\ (i - o) + 1 # 1
          /\ i = o + ((i - o) + 1) - 1
      BY <1>1, <1>3, <2>2
    <3>2. r[i] = ag[(i - o) + 1]
      BY <1>2, <1>3, <2>2, <3>1
    <3> QED
      BY <1>1, <3>1, <3>2
  <2> QED
    BY <2>1, <2>2
<1>5. ASSUME NEW i \in DOMAIN front PROVE i \in DOMAIN r /\ r[i] = front[i]
  <2>1. i \in 1 .. o + (m - 1) /\ i <= o
    BY <1>1
  <2> QED
    BY <1>3, <2>1
<1>6. ASSUME NEW j \in DOMAIN ag, j # 1 PROVE o + j - 1 \in DOMAIN r /\ r[o + j - 1] = ag[j]
  <2>1. /\ o + j - 1 \in 1 .. o + (m - 1) /\ ~ (o + j - 1 <= o)
        /\ (o + j - 1) - o = j - 1 /\ j - 1 \in 1 .. m - 1 /\ (j - 1) + 1 = j
    BY <1>1, <1>6
  <2> QED
    BY <1>2, <1>3, <2>1
<1> QED
  BY <1>1, <1>4, <1>5, <1>6 DEF r, o, Replaces

LEMMA AgendaAfter ==
    ASSUME TypeInv, NEW new, NEW more, Handles(new, more)
    PROVE  \E o : AgendaNext(new, o)
<1>1. new \in Seq(FrameType) /\ agenda \in Seq(FrameType) /\ agenda # <<>> /\ Pop \in FrameType
  BY PopType DEF Handles, Spawned, Turn, TypeInv
<1>2. CASE agenda' = new \o Tail(agenda)
  <2>1. AgendaNext(new, Len(new))
    <3>1. Replaces(agenda, new, new \o Tail(agenda))
      BY <1>1, AgendaForm
    <3> QED
      BY <1>2, <3>1 DEF AgendaNext, Replaces
  <2> QED
    BY <2>1
<1>3. CASE agenda' = new \o <<Pop>> \o Tail(agenda)
  <2> DEFINE front == new \o <<Pop>>
  <2>1. /\ front \in Seq(FrameType) /\ DOMAIN front = 1 .. Len(new) + 1 /\ Len(new) \in Nat
        /\ DOMAIN new = 1 .. Len(new) /\ front[Len(new) + 1] = Pop
        /\ \A i \in DOMAIN new : i \in DOMAIN front /\ front[i] = new[i]
    BY <1>1
  <2>2. \A i \in DOMAIN front : (i \in DOMAIN new /\ front[i] = new[i]) \/ front[i] = Pop
    BY <2>1
  <2>3. agenda' = front \o Tail(agenda)
    BY <1>3
  <2> HIDE DEF front
  <2>4. Replaces(agenda, front, front \o Tail(agenda))
    BY <1>1, <2>1, AgendaForm
  <2>5. AgendaNext(new, Len(front))
    BY <2>1, <2>2, <2>3, <2>4 DEF AgendaNext, Replaces
  <2> QED
    BY <2>5
<1> QED
  BY <1>2, <1>3, HandlesForm

-----------------------------------------------------------------------------
(* What has been visited and what waits. *)

DidType == [DOMAIN tree -> PositionDo \cup {"no"}]

\* did, with the position whose turn it is.
Now(did, e) == e = [did EXCEPT ![Here] = Do]

LEMMA TurnIs ==
    ASSUME TypeInv, Turn, NEW did \in DidType, Ahead(did), NEW e, Now(did, e)
    PROVE  /\ 1 \in DOMAIN agenda /\ agenda[1] = Head(agenda) /\ IsPosition(agenda[1])
           /\ Here = agenda[1].at /\ Here \in DOMAIN tree /\ Do \in PositionDo /\ Do # "no"
           /\ did[Here] = "no"
           /\ Here # 1 => did[tree[Here].parent] # "no" /\ tree[Here].parent \in DOMAIN tree
           /\ e \in DidType
           /\ \A p \in DOMAIN tree : e[p] = IF p = Here THEN Do ELSE did[p]
           /\ \A p \in DOMAIN tree : e[p] # "no" <=> p = Here \/ did[p] # "no"
<1>1. agenda \in Seq(FrameType) /\ agenda # <<>>
  BY DEF TypeInv, Turn
<1>2. 1 \in DOMAIN agenda /\ agenda[1] = Head(agenda)
  BY <1>1
<1>3. IsPosition(agenda[1]) /\ Here = agenda[1].at /\ Here \in DOMAIN tree /\ Do = agenda[1].do
  BY <1>2 DEF Turn, Here, Do
<1>4. Do \in PositionDo /\ Do # "no"
  BY <1>3 DEF IsPosition, PositionDo
<1>5. did[Here] = "no" /\ (Here # 1 => did[tree[Here].parent] # "no")
  BY <1>2, <1>3 DEF Ahead
<1>6. Here # 1 => tree[Here].parent \in DOMAIN tree
  BY <1>3, TreeShape
<1>7. /\ e \in DidType
      /\ \A p \in DOMAIN tree : e[p] = IF p = Here THEN Do ELSE did[p]
  BY <1>3, <1>4 DEF Now, DidType
<1> QED
  BY <1>2, <1>3, <1>4, <1>5, <1>6, <1>7

\* An item of the next agenda: new, or old and not this position's.
LEMMA NextItem ==
    ASSUME TypeInv, NEW new, NEW more, Handles(new, more), NEW o, AgendaNext(new, o),
           NEW did \in DidType, Ahead(did),
           NEW i \in DOMAIN agenda', IsPosition(agenda'[i])
    PROVE  \/ /\ i \in DOMAIN new /\ agenda'[i] = new[i]
              /\ agenda'[i].at \in Children(Here) /\ agenda'[i].at # 1 /\ agenda'[i].at # Here
              /\ did[agenda'[i].at] = "no"
           \/ \E j \in DOMAIN agenda :
                 /\ j # 1 /\ i = o + j - 1 /\ agenda'[i] = agenda[j]
                 /\ agenda'[i].at \in DOMAIN tree /\ agenda'[i].at # Here
                 /\ did[agenda'[i].at] = "no"
                 /\ agenda'[i].at # 1 =>
                       did[tree[agenda'[i].at].parent] # "no" /\ tree[agenda'[i].at].parent # Here
<1> PICK e : Now(did, e)
  BY DEF Now
<1>1. /\ 1 \in DOMAIN agenda /\ IsPosition(agenda[1]) /\ Here = agenda[1].at
      /\ Here \in DOMAIN tree /\ did[Here] = "no"
  BY TurnIs DEF Handles
<1>2. CASE i \in DOMAIN new /\ agenda'[i] = new[i]
  <2> DEFINE p == new[i].at
  <2>1. p \in Children(Here)
    BY <1>2 DEF Handles, Spawned
  <2>2. p \in DOMAIN tree /\ tree[p].parent = Here
    BY <2>1 DEF Children
  <2>3. p # 1 /\ p # Here
    BY <1>1, <2>2, TreeShape
  <2>4. did[p] = "no"
    BY <1>1, <2>2, <2>3 DEF Ahead
  <2> QED
    BY <1>2, <2>1, <2>3, <2>4
<1>3. ASSUME NEW j \in DOMAIN agenda, j # 1, i = o + j - 1, agenda'[i] = agenda[j]
      PROVE  /\ agenda[j].at \in DOMAIN tree /\ agenda[j].at # Here
             /\ did[agenda[j].at] = "no"
             /\ agenda[j].at # 1 => did[tree[agenda[j].at].parent] # "no" /\ tree[agenda[j].at].parent # Here
  <2>1. agenda[j] \in FrameType
    BY DEF TypeInv
  <2>2. agenda[j].at \in DOMAIN tree
    BY <1>3, <2>1 DEF FrameType
  <2>3. agenda[j].at # Here
    BY <1>1, <1>3 DEF Ahead
  <2> QED
    BY <1>1, <1>3, <2>2, <2>3 DEF Ahead
<1>4. agenda'[i] # Pop
  BY PopType
<1> QED
  BY <1>2, <1>3, <1>4 DEF AgendaNext

LEMMA AheadNext ==
    ASSUME TypeInv, NEW new, NEW more, Handles(new, more),
           NEW did \in DidType, Ahead(did), NEW e, Now(did, e)
    PROVE  Ahead(e)'
<1> PICK o : AgendaNext(new, o)
  BY AgendaAfter
<1>1. /\ Here \in DOMAIN tree /\ did[Here] = "no"
      /\ Here # 1 => did[tree[Here].parent] # "no" /\ tree[Here].parent \in DOMAIN tree
      /\ \A p \in DOMAIN tree : e[p] # "no" <=> p = Here \/ did[p] # "no"
  BY TurnIs DEF Handles
<1>2. tree' = tree
  BY DEF Handles
<1>3. ASSUME NEW i \in DOMAIN agenda', IsPosition(agenda'[i])
      PROVE  /\ agenda'[i].at \in DOMAIN tree
             /\ e[agenda'[i].at] = "no"
             /\ agenda'[i].at # 1 => e[tree[agenda'[i].at].parent] # "no"
  <2> DEFINE p == agenda'[i].at
  <2>1. CASE p \in Children(Here) /\ p # Here /\ did[p] = "no"
    <3>1. p \in DOMAIN tree /\ tree[p].parent = Here
      BY <2>1 DEF Children
    <3> QED
      BY <1>1, <2>1, <3>1
  <2>2. CASE p \in DOMAIN tree /\ p # Here /\ did[p] = "no" /\ (p # 1 => did[tree[p].parent] # "no")
    <3>1. p # 1 => tree[p].parent \in DOMAIN tree
      BY <2>2, TreeShape
    <3> QED
      BY <1>1, <2>2, <3>1
  <2> QED
    BY <1>3, <2>1, <2>2, NextItem
<1>4. ASSUME NEW i \in DOMAIN agenda', NEW k \in DOMAIN agenda',
             IsPosition(agenda'[i]), IsPosition(agenda'[k]), agenda'[i].at = agenda'[k].at
      PROVE  i = k
  <2> DEFINE p == agenda'[i].at
             New(l) == /\ l \in DOMAIN new /\ agenda'[l] = new[l]
                       /\ agenda'[l].at \in Children(Here) /\ agenda'[l].at # 1
             Old(l) == \E j \in DOMAIN agenda :
                          /\ j # 1 /\ l = o + j - 1 /\ agenda'[l] = agenda[j]
                          /\ agenda'[l].at # 1 => tree[agenda'[l].at].parent # Here
  <2>1. (New(i) \/ Old(i)) /\ (New(k) \/ Old(k))
    BY <1>4, NextItem
  <2>2. CASE New(i) /\ New(k)
    BY <1>4, <2>2 DEF Handles, Spawned
  <2>3. ~ (New(i) /\ Old(k)) /\ ~ (New(k) /\ Old(i))
    BY <1>4 DEF Children
  <2>4. CASE Old(i) /\ Old(k)
    <3>1. PICK j \in DOMAIN agenda : j # 1 /\ i = o + j - 1 /\ agenda'[i] = agenda[j]
      BY <2>4
    <3>2. PICK l \in DOMAIN agenda : l # 1 /\ k = o + l - 1 /\ agenda'[k] = agenda[l]
      BY <2>4
    <3>3. j = l
      BY <1>4, <3>1, <3>2 DEF Ahead
    <3> QED
      BY <3>1, <3>2, <3>3
  <2> HIDE DEF New, Old
  <2> QED
    BY <2>1, <2>2, <2>3, <2>4
<1>5. ASSUME NEW p \in DOMAIN tree, p # 1, e[p] # "no"
      PROVE  e[tree[p].parent] # "no"
  <2>1. tree[p].parent \in DOMAIN tree
    BY <1>5, TreeShape
  <2>2. did[tree[p].parent] # "no"
    BY <1>1, <1>5 DEF Ahead
  <2> QED
    BY <1>1, <2>1, <2>2
<1>6. /\ \A i \in DOMAIN agenda' :
            IsPosition(agenda'[i]) =>
               e[agenda'[i].at] = "no" /\ (agenda'[i].at # 1 => e[tree'[agenda'[i].at].parent] # "no")
      /\ \A i, k \in DOMAIN agenda' :
            IsPosition(agenda'[i]) /\ IsPosition(agenda'[k]) /\ agenda'[i].at = agenda'[k].at => i = k
      /\ \A p \in DOMAIN tree' : p # 1 /\ e[p] # "no" => e[tree'[p].parent] # "no"
  BY <1>2, <1>3, <1>4, <1>5
<1> QED
  BY <1>6 DEF Ahead, IsPosition

\* The node made at the position, if any, is the only one there.
LEMMA BehindNext ==
    ASSUME TypeInv, FileFirst, NEW new, NEW more, Handles(new, more),
           NEW did \in DidType, Ahead(did), Behind(did), NEW e, Now(did, e)
    PROVE  Behind(e)'
<1>1. /\ Here \in DOMAIN tree /\ did[Here] = "no"
      /\ \A p \in DOMAIN tree : e[p] # "no" <=> p = Here \/ did[p] # "no"
  BY TurnIs DEF Handles
<1>2. tree' = tree /\ nodes \in Seq(NodeType) /\ refs \in Seq(RefType)
  BY DEF Handles, TypeInv
<1>3. \A i \in DOMAIN nodes : nodes[i].at \in DOMAIN tree
  <2>1. \A i \in DOMAIN nodes : nodes[i] \in NodeType
    BY <1>2
  <2> QED
    BY <2>1 DEF NodeType
<1>4. /\ \A i \in DOMAIN nodes' : i # 1 => nodes'[i].at # 1 /\ e[nodes'[i].at] # "no"
      /\ \A i, j \in DOMAIN nodes' : nodes'[i].at = nodes'[j].at => i = j
  <2>1. CASE nodes' = nodes
    BY <1>1, <1>3, <2>1 DEF Behind
  <2>2. CASE \E n \in NodeType : n.at = Here /\ CreateNode(n) /\ HereType # "plain"
    <3>1. PICK n \in NodeType : n.at = Here /\ CreateNode(n) /\ HereType # "plain"
      BY <2>2
    <3>2. /\ \A i \in DOMAIN nodes : i \in DOMAIN nodes' /\ nodes'[i] = nodes[i]
          /\ nodes'[Len(nodes')] = n
          /\ \A i \in DOMAIN nodes' : i \in DOMAIN nodes \/ i = Len(nodes')
      BY <3>1, CreateNodeTypes
    <3>3. Here # 1
      BY <3>1, TreeShape DEF HereType
    <3>4. \A i \in DOMAIN nodes : nodes[i].at # Here
      BY <1>1, <3>3 DEF Behind, FileFirst
    <3>5. ASSUME NEW i \in DOMAIN nodes', i # 1 PROVE nodes'[i].at # 1 /\ e[nodes'[i].at] # "no"
      <4>1. CASE i \in DOMAIN nodes
        BY <1>1, <1>3, <3>2, <3>5, <4>1 DEF Behind
      <4>2. CASE i = Len(nodes')
        BY <1>1, <3>1, <3>2, <3>3, <4>2
      <4> QED
        BY <3>2, <4>1, <4>2
    <3>6. ASSUME NEW i \in DOMAIN nodes', NEW j \in DOMAIN nodes', nodes'[i].at = nodes'[j].at
          PROVE  i = j
      BY <3>1, <3>2, <3>4, <3>6 DEF Behind
    <3> QED
      BY <3>5, <3>6
  <2> QED
    BY <2>1, <2>2, HandlesForm DEF Passes
<1>5. ASSUME NEW k \in DOMAIN refs', tree[refs'[k].at].t \in {"call", "new", "import"}
      PROVE  e[refs'[k].at] # "no"
  <2>1. more \in Seq(RefType) /\ refs' = refs \o more /\ \A l \in DOMAIN more : Sourced(more[l])
    BY DEF Handles
  <2>2. (k \in DOMAIN refs /\ refs'[k] = refs[k]) \/ \E l \in DOMAIN more : refs'[k] = more[l]
    <3>1. /\ DOMAIN refs' = 1 .. Len(refs) + Len(more) /\ Len(refs) \in Nat /\ Len(more) \in Nat
          /\ DOMAIN refs = 1 .. Len(refs) /\ DOMAIN more = 1 .. Len(more)
          /\ \A l \in 1 .. Len(refs) + Len(more) :
                refs'[l] = IF l <= Len(refs) THEN refs[l] ELSE more[l - Len(refs)]
      BY <1>2, <2>1, ConcatProperties, LenProperties
    <3>2. CASE k <= Len(refs)
      BY <3>1, <3>2
    <3>3. CASE ~ (k <= Len(refs))
      <4>1. k - Len(refs) \in DOMAIN more
        BY <3>1, <3>3
      <4> QED
        BY <3>1, <3>3, <4>1
    <3> QED
      BY <3>2, <3>3
  <2>3. CASE k \in DOMAIN refs /\ refs'[k] = refs[k]
    <3>1. refs[k] \in RefType
      BY <1>2, <2>3
    <3>2. refs[k].at \in DOMAIN tree
      BY <3>1 DEF RefType
    <3> QED
      BY <1>1, <1>5, <2>3, <3>2 DEF Behind
  <2>4. ASSUME NEW l \in DOMAIN more, refs'[k] = more[l] PROVE e[refs'[k].at] # "no"
    <3>1. more[l] \in RefType /\ Sourced(more[l])
      BY <2>1
    <3>2. Gives(tree[more[l].at].t, more[l].kind)
      BY <3>1 DEF RefType
    <3>3. more[l].at = Here
      BY <1>5, <2>4, <3>1, <3>2 DEF Sourced, Gives
    <3> QED
      BY <1>1, <2>4, <3>3
  <2> QED
    BY <2>2, <2>3, <2>4
<1>6. \A k \in DOMAIN refs' : tree'[refs'[k].at].t \in {"call", "new", "import"} => e[refs'[k].at] # "no"
  BY <1>2, <1>5
<1> QED
  BY <1>4, <1>6 DEF Behind

-----------------------------------------------------------------------------
(* How scopes change. *)

LEMMA ScopeValue ==
    ASSUME TypeInv
    PROVE  \A p \in DOMAIN tree : Scope[p] = Above(tree, nodes, Scope, p)
  BY ExtractorAssumption, ScopeIs, ScopeUnfolds DEF TypeInv

LEMMA ScopeValueNext ==
    ASSUME TypeInv, tree' = tree
    PROVE  \A p \in DOMAIN tree : Scope'[p] = Above(tree, nodes', Scope', p)
  BY ExtractorAssumption, ScopeIsNext, ScopeUnfolds DEF TypeInv

LEMMA ScopeStays ==
    ASSUME tree' = tree, nodes' = nodes
    PROVE  Scope' = Scope
  BY ScopeIs, ScopeIsNext

\* What stands in the position whose turn it is, after a handler.
Inside(new, more) ==
    /\ \A n \in NodeType : n.at = Here /\ Opens(n, new, more) => \A c \in Children(Here) : Scope'[c] = n.id
    /\ node_stack' = node_stack /\ new # <<>> => \A c \in Children(Here) : Scope'[c] = Scope[Here]

LEMMA FileAlone ==
    ASSUME TypeInv, FileFirst, NEW did, Behind(did)
    PROVE  Standing(nodes, 1) = {1}
<1>1. 1 \in DOMAIN nodes
  BY DEF TypeInv, FileFirst
<1> QED
  BY <1>1 DEF FileFirst, Behind, Standing, ScopeKind

\* A handler leaves the scopes of what has been reached as they are.
LEMMA ScopeReached ==
    ASSUME TypeInv, NEW new, NEW more, Handles(new, more),
           NEW did \in DidType, Ahead(did), Behind(did)
    PROVE  \A p \in DOMAIN tree : p = 1 \/ did[tree[p].parent] # "no" => Scope'[p] = Scope[p]
<1> DEFINE C == {p \in DOMAIN tree : p = 1 \/ did[tree[p].parent] # "no"}
<1> PICK e : Now(did, e)
  BY DEF Now
<1>1. Here \in DOMAIN tree /\ did[Here] = "no"
  BY TurnIs DEF Handles
<1>2. tree' = tree /\ IsTree(tree)
  BY ExtractorAssumption DEF Handles, TypeInv
<1>3. ASSUME NEW q \in DOMAIN tree, q # Here
      PROVE  /\ Standing(nodes, q) = Standing(nodes', q)
             /\ \A i \in Standing(nodes, q) : nodes[i] = nodes'[i]
  <2>1. CASE nodes' = nodes
    BY <2>1
  <2>2. CASE \E n \in NodeType : n.at = Here /\ CreateNode(n)
    <3>1. PICK n \in NodeType : n.at = Here /\ CreateNode(n)
      BY <2>2
    <3>2. /\ \A i \in DOMAIN nodes : i \in DOMAIN nodes' /\ nodes'[i] = nodes[i]
          /\ nodes'[Len(nodes')] = n
          /\ \A i \in DOMAIN nodes' : i \in DOMAIN nodes \/ i = Len(nodes')
      BY <3>1, CreateNodeTypes
    <3> QED
      BY <1>3, <3>1, <3>2 DEF Standing
  <2> QED
    BY <2>1, <2>2, HandlesForm DEF Passes
<1>4. ASSUME NEW p \in C, tree[p].parent # 0
      PROVE  /\ tree[p].parent \in C
             /\ Standing(nodes, tree[p].parent) = Standing(nodes', tree[p].parent)
             /\ \A i \in Standing(nodes, tree[p].parent) : nodes[i] = nodes'[i]
  <2>1. p # 1 /\ tree[p].parent \in DOMAIN tree
    BY <1>4, TreeShape
  <2>2. did[tree[p].parent] # "no"
    BY <2>1
  <2>3. tree[p].parent \in C
    BY <2>1, <2>2 DEF Ahead
  <2>4. tree[p].parent # Here
    BY <1>1, <2>2
  <2> QED
    BY <1>3, <2>1, <2>3, <2>4
<1>5. \A p \in C : ScopeIn(tree, nodes)[p] = ScopeIn(tree, nodes')[p]
  <2>1. C \subseteq DOMAIN tree
    OBVIOUS
  <2> HIDE DEF C
  <2> QED
    BY <1>2, <1>4, <2>1, SameScopes
<1> QED
  BY <1>2, <1>5, ScopeIs, ScopeIsNext

LEMMA ScopeInside ==
    ASSUME TypeInv, FileFirst, NEW new, NEW more, Handles(new, more),
           NEW did \in DidType, Ahead(did), Behind(did)
    PROVE  Inside(new, more)
<1> PICK e : Now(did, e)
  BY DEF Now
<1>1. /\ Here \in DOMAIN tree /\ did[Here] = "no" /\ tree' = tree
      /\ Here # 1 => did[tree[Here].parent] # "no"
  BY TurnIs DEF Handles
<1>2. Scope'[Here] = Scope[Here]
  BY <1>1, ScopeReached
<1>3. ASSUME NEW c \in Children(Here)
      PROVE  Scope'[c] = IF Standing(nodes', Here) # {}
                         THEN nodes'[CHOOSE i \in Standing(nodes', Here) : TRUE].id ELSE Scope'[Here]
  <2>1. c \in DOMAIN tree /\ tree[c].parent = Here /\ Here # 0
    BY <1>1, TreeShape DEF Children
  <2> QED
    BY <1>1, <2>1, ScopeValueNext DEF Above
<1>4. Here # 1 => \A i \in DOMAIN nodes : nodes[i].at # Here
  BY <1>1 DEF Behind, FileFirst
<1>5. ASSUME NEW n \in NodeType, n.at = Here, Opens(n, new, more), NEW c \in Children(Here)
      PROVE  Scope'[c] = n.id
  <2>1. CreateNode(n) /\ n.kind \in ScopeKind /\ Here # 1
    BY <1>5, TreeShape DEF Opens, HereType
  <2>2. /\ \A i \in DOMAIN nodes : i \in DOMAIN nodes' /\ nodes'[i] = nodes[i]
        /\ Len(nodes') \in DOMAIN nodes' /\ nodes'[Len(nodes')] = n
        /\ \A i \in DOMAIN nodes' : i \in DOMAIN nodes \/ i = Len(nodes')
    BY <2>1, CreateNodeTypes
  <2>3. Standing(nodes', Here) = {Len(nodes')}
    BY <1>4, <1>5, <2>1, <2>2 DEF Standing
  <2>4. (CHOOSE i \in Standing(nodes', Here) : TRUE) = Len(nodes')
    BY <2>3
  <2> QED
    BY <1>3, <2>2, <2>3, <2>4
<1>6. ASSUME node_stack' = node_stack, new # <<>>, NEW c \in Children(Here)
      PROVE  Scope'[c] = Scope[Here]
  <2>1. ~ \E n \in NodeType : n.at = Here /\ Opens(n, new, more)
    <3> SUFFICES ASSUME NEW n \in NodeType, Opens(n, new, more) PROVE FALSE
      OBVIOUS
    <3>1. node_stack' = Append(node_stack, n.id) /\ node_stack \in Seq(Id) /\ n.id \in Id
      BY DEF Opens, TypeInv, NodeType
    <3>2. Len(node_stack') = Len(node_stack) + 1 /\ Len(node_stack) \in Nat
      BY <3>1
    <3> QED
      BY <1>6, <3>2
  <2>2. CASE Here = 1
    <3>1. nodes' = nodes
      BY <1>1, <2>1, <2>2, TreeShape, HandlesForm DEF HereType, Passes
    <3>2. Standing(nodes', Here) = {1}
      BY <2>2, <3>1, FileAlone
    <3>3. (CHOOSE i \in Standing(nodes', Here) : TRUE) = 1
      BY <3>2
    <3>4. Scope[1] = FileId
      BY <1>1, <2>2, ScopeValue, TreeShape DEF Above
    <3> QED
      BY <1>3, <2>2, <3>1, <3>2, <3>3, <3>4 DEF FileFirst
  <2>3. CASE Here # 1
    <3>1. Standing(nodes', Here) = {}
      <4>1. CASE nodes' = nodes
        BY <1>4, <2>3, <4>1 DEF Standing
      <4>2. ASSUME NEW n \in NodeType, n.at = Here, Adds(n, new)
            PROVE  Standing(nodes', Here) = {}
        <5>1. CreateNode(n) /\ n.kind \notin ScopeKind
          BY <1>6, <4>2 DEF Adds
        <5>2. /\ \A i \in DOMAIN nodes : i \in DOMAIN nodes' /\ nodes'[i] = nodes[i]
              /\ nodes'[Len(nodes')] = n
              /\ \A i \in DOMAIN nodes' : i \in DOMAIN nodes \/ i = Len(nodes')
          BY <5>1, CreateNodeTypes
        <5> QED
          BY <1>4, <2>3, <5>1, <5>2 DEF Standing
      <4> QED
        BY <2>1, <4>1, <4>2 DEF Handles, Passes
    <3> QED
      BY <1>2, <1>3, <3>1
  <2> QED
    BY <2>2, <2>3
<1> QED
  BY <1>5, <1>6 DEF Inside

-----------------------------------------------------------------------------
(* The stack follows the nesting. *)

\* At a position's turn the innermost definition is the one it stands in.
LEMMA TopScope ==
    ASSUME TypeInv, Turn, Stacked(agenda, node_stack, Scope)
    PROVE  node_stack # <<>> /\ Top = Scope[Here]
<1>1. PICK d \in [1 .. Len(agenda) + 1 -> Nat] :
         /\ Heights(agenda, node_stack, d)
         /\ \A i \in DOMAIN agenda : IsPosition(agenda[i]) => node_stack[d[i]] = Scope[agenda[i].at]
  BY DEF Stacked
<1>2. agenda \in Seq(FrameType) /\ agenda # <<>> /\ node_stack \in Seq(Id)
  BY DEF TypeInv, Turn
<1>3. 1 \in DOMAIN agenda /\ agenda[1] = Head(agenda)
  BY <1>2
<1>4. d[1] = Len(node_stack) /\ d[1] > 0
  BY <1>1, <1>3 DEF Heights
<1>5. node_stack # <<>>
  BY <1>2, <1>4, EmptySeq
<1>6. node_stack[d[1]] = Scope[Here]
  BY <1>1, <1>3 DEF Turn, Here
<1> QED
  BY <1>4, <1>5, <1>6 DEF Top

LEMMA OldScope ==
    ASSUME TypeInv, NEW new, NEW more, Handles(new, more),
           NEW did \in DidType, Ahead(did), Behind(did),
           NEW j \in DOMAIN agenda, IsPosition(agenda[j])
    PROVE  Scope'[agenda[j].at] = Scope[agenda[j].at]
<1>1. agenda[j] \in FrameType
  BY DEF TypeInv
<1>2. agenda[j].at \in DOMAIN tree
  BY <1>1 DEF FrameType
<1> QED
  BY <1>2, ScopeReached DEF Ahead

LEMMA StackedNext ==
    ASSUME TypeInv, FileFirst, NEW new, NEW more, Handles(new, more),
           NEW did \in DidType, Ahead(did), Behind(did),
           Stacked(agenda, node_stack, Scope)
    PROVE  Stacked(agenda', node_stack', Scope')
<1>1. PICK d \in [1 .. Len(agenda) + 1 -> Nat] :
         /\ Heights(agenda, node_stack, d)
         /\ \A i \in DOMAIN agenda : IsPosition(agenda[i]) => node_stack[d[i]] = Scope[agenda[i].at]
  BY DEF Stacked
<1>2. /\ agenda \in Seq(FrameType) /\ agenda # <<>> /\ node_stack \in Seq(Id)
      /\ new \in Seq(FrameType) /\ \A i \in DOMAIN new : new[i].do # "pop"
  BY DEF TypeInv, Turn, Handles, Spawned
<1>3. agenda[1].do # "pop" /\ 1 \in DOMAIN agenda
  BY <1>2 DEF Handles, Turn, IsPosition, PositionDo
<1>4. /\ Len(agenda) \in Nat /\ Len(new) \in Nat /\ Len(node_stack) \in Nat
      /\ DOMAIN agenda = 1 .. Len(agenda) /\ DOMAIN new = 1 .. Len(new)
      /\ DOMAIN Tail(agenda) = 1 .. Len(agenda) - 1
  BY <1>2, LenProperties, HeadTailProperties
<1>5. Top = Scope[Here] /\ node_stack # <<>>
  BY TopScope DEF Handles
<1>6. Inside(new, more)
  BY ScopeInside
<1>7. \A i \in DOMAIN new : IsPosition(new[i]) => new[i].at \in Children(Here)
  BY DEF Handles, Spawned
<1>8. \A j \in DOMAIN agenda : IsPosition(agenda[j]) => Scope'[agenda[j].at] = Scope[agenda[j].at]
  BY OldScope
<1>9. ASSUME agenda' = new \o Tail(agenda), node_stack' = node_stack
      PROVE  Stacked(agenda', node_stack', Scope')
  <2>10. PICK e : Passed(agenda, node_stack, d, new, e)
    BY <1>1, <1>2, <1>3, HeightsPass
  <2>1. /\ Heights(new \o Tail(agenda), node_stack, e)
        /\ \A i \in DOMAIN new : e[i] = Len(node_stack)
        /\ \A i \in DOMAIN Tail(agenda) : e[Len(new) + i] = d[i + 1]
    BY <2>10 DEF Passed
  <2>2. Replaces(agenda, new, new \o Tail(agenda))
    BY <1>2, AgendaForm
  <2>3. ASSUME NEW i \in DOMAIN agenda', IsPosition(agenda'[i])
        PROVE  node_stack[e[i]] = Scope'[agenda'[i].at]
    <3>1. CASE i \in DOMAIN new /\ agenda'[i] = new[i]
      <4>1. new # <<>> /\ agenda'[i].at \in Children(Here) /\ e[i] = Len(node_stack)
        BY <1>7, <2>1, <2>3, <3>1
      <4> QED
        BY <1>5, <1>6, <1>9, <4>1 DEF Inside, Top
    <3>2. ASSUME NEW j \in DOMAIN agenda, j # 1, i = Len(new) + j - 1, agenda'[i] = agenda[j]
          PROVE  node_stack[e[i]] = Scope'[agenda'[i].at]
      <4>1. j - 1 \in DOMAIN Tail(agenda) /\ i = Len(new) + (j - 1) /\ (j - 1) + 1 = j
        BY <1>4, <3>2
      <4>2. e[i] = d[j]
        BY <2>1, <4>1
      <4> QED
        BY <1>1, <1>8, <2>3, <3>2, <4>2
    <3> QED
      BY <1>9, <2>2, <3>1, <3>2 DEF Replaces
  <2>4. e \in [1 .. Len(agenda') + 1 -> Nat]
    BY <1>9, <2>1 DEF Heights
  <2> QED
    BY <1>9, <2>1, <2>3, <2>4 DEF Stacked
<1>10. ASSUME NEW n \in NodeType, n.at = Here, Opens(n, new, more)
       PROVE  Stacked(agenda', node_stack', Scope')
  <2> DEFINE front == new \o <<Pop>>
  <2>1. /\ node_stack' = Append(node_stack, n.id) /\ agenda' = new \o <<Pop>> \o Tail(agenda)
        /\ n.id \in Id /\ Pop \in FrameType /\ Pop.do = "pop" /\ ~IsPosition(Pop)
    BY <1>10, PopType DEF Opens, NodeType
  <2>20. PICK e : Opened(agenda, node_stack, d, new, n.id, e)
    BY <1>1, <1>2, <1>3, <2>1, HeightsOpen
  <2>2. /\ Heights(new \o <<Pop>> \o Tail(agenda), Append(node_stack, n.id), e)
        /\ \A i \in DOMAIN new : e[i] = Len(node_stack) + 1
        /\ \A i \in DOMAIN Tail(agenda) : e[Len(new) + 1 + i] = d[i + 1]
    BY <2>20 DEF Opened
  <2>3. /\ front \in Seq(FrameType) /\ Len(front) = Len(new) + 1
        /\ DOMAIN front = 1 .. Len(new) + 1 /\ front[Len(new) + 1] = Pop
        /\ \A i \in DOMAIN new : front[i] = new[i]
    BY <1>2, <1>4, <2>1
  <2>4. \A i \in DOMAIN front : (i \in DOMAIN new /\ front[i] = new[i]) \/ front[i] = Pop
    BY <1>4, <2>3
  <2>5. agenda' = front \o Tail(agenda)
    BY <2>1
  <2> HIDE DEF front
  <2>6. Replaces(agenda, front, front \o Tail(agenda))
    BY <1>2, <2>3, AgendaForm
  <2>7. /\ node_stack'[Len(node_stack) + 1] = n.id
        /\ \A k \in 1 .. Len(node_stack) : node_stack'[k] = node_stack[k]
    BY <1>2, <1>4, <2>1
  <2>8. \A j \in DOMAIN agenda : d[j] \in 1 .. Len(node_stack)
    <3>1. DOMAIN d = 1 .. Len(agenda) + 1 /\ \A j \in DOMAIN agenda : j \in DOMAIN d /\ 1 \in DOMAIN d /\ 1 <= j
      BY <1>1, <1>4
    <3>2. \A j \in DOMAIN agenda : d[j] \in Nat /\ d[j] > 0 /\ d[j] <= d[1] /\ d[1] = Len(node_stack)
      BY <1>1, <3>1 DEF Heights
    <3> QED
      BY <1>4, <3>2
  <2>9. ASSUME NEW i \in DOMAIN agenda', IsPosition(agenda'[i])
        PROVE  node_stack'[e[i]] = Scope'[agenda'[i].at]
    <3>1. CASE i \in DOMAIN new /\ agenda'[i] = new[i]
      <4>1. agenda'[i].at \in Children(Here) /\ e[i] = Len(node_stack) + 1
        BY <1>7, <2>2, <2>9, <3>1
      <4> QED
        BY <1>6, <1>10, <2>7, <4>1 DEF Inside
    <3>2. ASSUME NEW j \in DOMAIN agenda, j # 1, i = Len(front) + j - 1, agenda'[i] = agenda[j]
          PROVE  node_stack'[e[i]] = Scope'[agenda'[i].at]
      <4>1. j - 1 \in DOMAIN Tail(agenda) /\ i = Len(new) + 1 + (j - 1) /\ (j - 1) + 1 = j
        BY <1>4, <2>3, <3>2
      <4>2. e[i] = d[j]
        BY <2>2, <4>1
      <4>3. node_stack'[d[j]] = node_stack[d[j]]
        BY <2>7, <2>8
      <4> QED
        BY <1>1, <1>8, <2>9, <3>2, <4>2, <4>3
    <3>3. agenda'[i] # Pop
      BY <2>1, <2>9
    <3> QED
      BY <2>4, <2>5, <2>6, <3>1, <3>2, <3>3 DEF Replaces
  <2>10. e \in [1 .. Len(agenda') + 1 -> Nat]
    BY <2>1, <2>2 DEF Heights
  <2> QED
    BY <2>1, <2>2, <2>9, <2>10 DEF Stacked
<1> QED
  BY <1>9, <1>10 DEF Handles, Passes, Adds

\* A pop, the end of a decorated definition.
LEMMA StackedLeft ==
    ASSUME TypeInv, Stacked(agenda, node_stack, Scope), LeaveScope \/ ClearPending
    PROVE  Stacked(agenda', node_stack', Scope') /\ (LeaveScope => Len(node_stack) > 0)
<1>1. PICK d \in [1 .. Len(agenda) + 1 -> Nat] :
         /\ Heights(agenda, node_stack, d)
         /\ \A i \in DOMAIN agenda : IsPosition(agenda[i]) => node_stack[d[i]] = Scope[agenda[i].at]
  BY DEF Stacked
<1>2. /\ agenda \in Seq(FrameType) /\ agenda # <<>> /\ node_stack \in Seq(Id)
      /\ agenda' = Tail(agenda)
  BY DEF TypeInv, LeaveScope, ClearPending, Handling
<1>3. agenda[1] = Head(agenda) /\ (LeaveScope => Do = "pop") /\ (ClearPending => Do = "clear")
  BY <1>2, HandlerIs DEF LeaveScope, ClearPending
<1>4. Scope' = Scope
  BY ScopeStays DEF LeaveScope, ClearPending
<1>5. /\ Tail(agenda) \in Seq(FrameType) /\ Len(agenda) \in Nat /\ DOMAIN agenda = 1 .. Len(agenda)
      /\ Len(Tail(agenda)) = Len(agenda) - 1 /\ DOMAIN Tail(agenda) = 1 .. Len(agenda) - 1
      /\ \A i \in 1 .. Len(agenda) - 1 : Tail(agenda)[i] = agenda[i + 1]
  BY <1>2, LenProperties, HeadTailProperties
<1>6. CASE LeaveScope
  <2> DEFINE rest == SubSeq(node_stack, 1, Len(node_stack) - 1)
  <2>1. node_stack' = rest /\ agenda[1].do = "pop"
    BY <1>3, <1>6 DEF LeaveScope, Do
  <2>2. /\ Len(node_stack) > 0
        /\ \E e : /\ Heights(Tail(agenda), rest, e)
                  /\ \A i \in DOMAIN Tail(agenda) : e[i] = d[i + 1] /\ d[i + 1] \in 1 .. Len(node_stack) - 1
    BY <1>1, <1>2, <2>1, HeightsPop
  <2>3. PICK e : /\ Heights(Tail(agenda), rest, e)
                 /\ \A i \in DOMAIN Tail(agenda) : e[i] = d[i + 1] /\ d[i + 1] \in 1 .. Len(node_stack) - 1
    BY <2>2
  <2>4. \A k \in 1 .. Len(node_stack) - 1 : rest[k] = node_stack[k]
    <3>1. Len(node_stack) \in Nat /\ \A k \in 1 .. Len(node_stack) : node_stack[k] \in Id
      BY <1>2, LenProperties, ElementOfSeq
    <3>2. \A i \in 1 .. Len(node_stack) - 1 : node_stack[i] \in Id
      BY <3>1
    <3>3. \A i \in 1 .. Len(rest) : rest[i] = node_stack[1 + i - 1]
      BY <3>1, <3>2, SubSeqProperties
    <3>4. Len(rest) = IF 1 <= Len(node_stack) - 1 THEN Len(node_stack) - 1 - 1 + 1 ELSE 0
      BY <3>1, <3>2, SubSeqProperties
    <3> HIDE DEF rest
    <3> QED
      BY <2>2, <3>1, <3>3, <3>4
  <2> HIDE DEF rest
  <2>5. ASSUME NEW i \in DOMAIN agenda', IsPosition(agenda'[i])
        PROVE  rest[e[i]] = Scope'[agenda'[i].at]
    <3>1. i + 1 \in DOMAIN agenda /\ agenda'[i] = agenda[i + 1] /\ i \in DOMAIN Tail(agenda)
      BY <1>2, <1>5
    <3>2. e[i] = d[i + 1] /\ rest[d[i + 1]] = node_stack[d[i + 1]]
      BY <2>3, <2>4, <3>1
    <3> QED
      BY <1>1, <1>4, <2>5, <3>1, <3>2
  <2>6. e \in [1 .. Len(agenda') + 1 -> Nat]
    BY <1>2, <2>3 DEF Heights
  <2> QED
    BY <1>2, <2>1, <2>2, <2>3, <2>5, <2>6 DEF Stacked
<1>7. CASE ClearPending
  <2>1. agenda[1].do # "pop" /\ node_stack' = node_stack
    BY <1>3, <1>7 DEF ClearPending, Do
  <2>2. <<>> \in Seq(FrameType) /\ \A i \in DOMAIN <<>> : <<>>[i].do # "pop"
    OBVIOUS
  <2>30. PICK e : Passed(agenda, node_stack, d, <<>>, e)
    BY <1>1, <1>2, <2>1, <2>2, HeightsPass
  <2>3. /\ Heights(<<>> \o Tail(agenda), node_stack, e)
        /\ \A i \in DOMAIN Tail(agenda) : e[Len(<<>>) + i] = d[i + 1]
    BY <2>30 DEF Passed
  <2>4. <<>> \o Tail(agenda) = Tail(agenda) /\ Len(<<>>) = 0
    BY <1>5, EmptySeq
  <2>5. ASSUME NEW i \in DOMAIN agenda', IsPosition(agenda'[i])
        PROVE  node_stack[e[i]] = Scope'[agenda'[i].at]
    <3>1. i + 1 \in DOMAIN agenda /\ agenda'[i] = agenda[i + 1] /\ i \in DOMAIN Tail(agenda) /\ 0 + i = i
      BY <1>2, <1>5
    <3>2. e[i] = d[i + 1]
      BY <2>3, <2>4, <3>1
    <3> QED
      BY <1>1, <1>4, <2>5, <3>1, <3>2
  <2>6. e \in [1 .. Len(agenda') + 1 -> Nat]
    BY <1>2, <2>3, <2>4 DEF Heights
  <2>7. ~LeaveScope
    BY <1>3, <1>7
  <2> QED
    BY <1>2, <2>1, <2>3, <2>4, <2>5, <2>6, <2>7 DEF Stacked
<1> QED
  BY <1>6, <1>7

-----------------------------------------------------------------------------
(* What is extracted hangs together. *)

\* The nodes a handler leaves.
LEMMA NodesKept ==
    ASSUME TypeInv, NEW new, NEW more, Handles(new, more)
    PROVE  \A i \in DOMAIN nodes : i \in DOMAIN nodes' /\ nodes'[i] = nodes[i]
<1>1. CASE nodes' = nodes
  BY <1>1
<1>2. ASSUME NEW n \in NodeType, CreateNode(n)
      PROVE  \A i \in DOMAIN nodes : i \in DOMAIN nodes' /\ nodes'[i] = nodes[i]
  BY <1>2, CreateNodeTypes
<1> QED
  BY <1>1, <1>2, HandlesForm DEF Passes

\* The references a handler leaves.
LEMMA RefsAfter ==
    ASSUME TypeInv, NEW new, NEW more, Handles(new, more)
    PROVE  /\ \A k \in DOMAIN refs : k \in DOMAIN refs' /\ refs'[k] = refs[k] /\ refs[k] \in RefType
           /\ \A k \in DOMAIN refs' :
                 \/ k \in DOMAIN refs /\ refs'[k] = refs[k] /\ refs[k] \in RefType
                 \/ \E l \in DOMAIN more :
                       k = Len(refs) + l /\ refs'[k] = more[l] /\ more[l] \in RefType /\ Sourced(more[l])
           /\ \A l \in DOMAIN more : \E k \in DOMAIN refs' : refs'[k] = more[l]
<1> DEFINE m == Len(refs)
<1>1. /\ more \in Seq(RefType) /\ refs \in Seq(RefType) /\ refs' = refs \o more
      /\ \A l \in DOMAIN more : Sourced(more[l])
  BY DEF Handles, TypeInv
<1>2. /\ DOMAIN refs' = 1 .. m + Len(more) /\ m \in Nat /\ Len(more) \in Nat
      /\ DOMAIN refs = 1 .. m /\ DOMAIN more = 1 .. Len(more)
      /\ \A l \in 1 .. m + Len(more) : refs'[l] = IF l <= m THEN refs[l] ELSE more[l - m]
  BY <1>1, ConcatProperties, LenProperties
<1>3. (\A k \in DOMAIN refs : refs[k] \in RefType) /\ (\A l \in DOMAIN more : more[l] \in RefType)
  BY <1>1
<1> HIDE DEF m
<1>4. ASSUME NEW k \in DOMAIN refs PROVE k \in DOMAIN refs' /\ refs'[k] = refs[k] /\ refs[k] \in RefType
  <2>1. k \in 1 .. m + Len(more) /\ k <= m
    BY <1>2
  <2> QED
    BY <1>2, <1>3, <2>1
<1>5. ASSUME NEW l \in DOMAIN more
      PROVE  m + l \in DOMAIN refs' /\ refs'[m + l] = more[l] /\ more[l] \in RefType /\ Sourced(more[l])
  <2>1. m + l \in 1 .. m + Len(more) /\ ~ (m + l <= m) /\ (m + l) - m = l
    BY <1>2
  <2> QED
    BY <1>1, <1>2, <1>3, <2>1
<1>6. ASSUME NEW k \in DOMAIN refs'
      PROVE  \/ k \in DOMAIN refs /\ refs'[k] = refs[k] /\ refs[k] \in RefType
             \/ \E l \in DOMAIN more :
                   k = m + l /\ refs'[k] = more[l] /\ more[l] \in RefType /\ Sourced(more[l])
  <2>1. CASE k <= m
    <3>1. k \in DOMAIN refs
      BY <1>2, <2>1
    <3> QED
      BY <1>4, <3>1
  <2>2. CASE ~ (k <= m)
    <3>1. k - m \in DOMAIN more /\ k = m + (k - m)
      BY <1>2, <2>2
    <3> QED
      BY <1>5, <3>1
  <2> QED
    BY <2>1, <2>2
<1> QED
  BY <1>4, <1>5, <1>6 DEF m

LEMMA HangingNext ==
    ASSUME TypeInv, NEW new, NEW more, Handles(new, more), Hanging, node_stack # <<>>
    PROVE  Hanging'
<1>1. \A id : Known(id) => \E j \in DOMAIN nodes' : nodes'[j].id = id
  BY NodesKept DEF Known
<1>2. Top \in Id /\ Known(Top) /\ \E j \in DOMAIN nodes' : nodes'[j].id = Top
  BY <1>1, TopType DEF Hanging, Top
<1>3. ASSUME NEW n \in NodeType, CreateNode(n)
      PROVE  /\ \E j \in DOMAIN nodes' : nodes'[j].id = n.id
             /\ edges' = Append(edges, <<Top, n.id>>)
  <2>1. Len(nodes') \in DOMAIN nodes' /\ nodes'[Len(nodes')] = n
    BY <1>3, CreateNodeTypes
  <2> QED
    BY <1>3, <2>1 DEF CreateNode
<1>4. \A i \in DOMAIN node_stack' : \E j \in DOMAIN nodes' : nodes'[j].id = node_stack'[i]
  <2>1. CASE node_stack' = node_stack
    BY <1>1, <2>1 DEF Hanging
  <2>2. ASSUME NEW n \in NodeType, CreateNode(n), node_stack' = Append(node_stack, n.id)
        PROVE  \A i \in DOMAIN node_stack' : \E j \in DOMAIN nodes' : nodes'[j].id = node_stack'[i]
    <3>1. node_stack \in Seq(Id) /\ n.id \in Id
      BY DEF TypeInv, NodeType
    <3>2. \A i \in DOMAIN node_stack' :
             (i \in DOMAIN node_stack /\ node_stack'[i] = node_stack[i]) \/ node_stack'[i] = n.id
      BY <2>2, <3>1
    <3>3. \E j \in DOMAIN nodes' : nodes'[j].id = n.id
      BY <1>3, <2>2
    <3> QED
      BY <1>1, <3>2, <3>3 DEF Hanging
  <2> QED
    BY <2>1, <2>2 DEF Handles, Passes, Adds, Opens
<1>5. \A i \in DOMAIN edges' : /\ \E j \in DOMAIN nodes' : nodes'[j].id = edges'[i][1]
                               /\ \E j \in DOMAIN nodes' : nodes'[j].id = edges'[i][2]
  <2>1. CASE edges' = edges
    BY <1>1, <2>1 DEF Hanging
  <2>2. ASSUME NEW n \in NodeType, CreateNode(n)
        PROVE  \A i \in DOMAIN edges' : /\ \E j \in DOMAIN nodes' : nodes'[j].id = edges'[i][1]
                                        /\ \E j \in DOMAIN nodes' : nodes'[j].id = edges'[i][2]
    <3>1. edges \in Seq(Id \X Id) /\ <<Top, n.id>> \in Id \X Id
      BY <1>2 DEF TypeInv, NodeType
    <3>2. \A i \in DOMAIN edges' :
             (i \in DOMAIN edges /\ edges'[i] = edges[i]) \/ edges'[i] = <<Top, n.id>>
      BY <1>3, <2>2, <3>1
    <3>3. \E j \in DOMAIN nodes' : nodes'[j].id = n.id
      BY <1>3, <2>2
    <3> QED
      BY <1>1, <1>2, <3>2, <3>3 DEF Hanging
  <2> QED
    BY <2>1, <2>2, HandlesForm DEF Passes
<1>6. ASSUME NEW k \in DOMAIN refs' PROVE \E j \in DOMAIN nodes' : nodes'[j].id = refs'[k].from
  <2>1. CASE k \in DOMAIN refs /\ refs'[k] = refs[k]
    BY <1>1, <2>1 DEF Hanging
  <2>2. ASSUME NEW l \in DOMAIN more, refs'[k] = more[l], Sourced(more[l])
        PROVE  \E j \in DOMAIN nodes' : nodes'[j].id = refs'[k].from
    <3>1. \/ more[l].from = Top
          \/ \E j \in DOMAIN nodes' : nodes'[j].id = more[l].from
          \/ \E j \in DOMAIN nodes : nodes[j].id = more[l].from
      BY <2>2 DEF Sourced
    <3> QED
      BY <1>1, <1>2, <2>2, <3>1 DEF Known
  <2> QED
    BY <2>1, <2>2, RefsAfter
<1> QED
  BY <1>4, <1>5, <1>6 DEF Hanging, Known

LEMMA NestingNext ==
    ASSUME TypeInv, NEW new, NEW more, Handles(new, more),
           NEW did \in DidType, Ahead(did), Behind(did),
           Stacked(agenda, node_stack, Scope), Nesting
    PROVE  Nesting'
<1> PICK e : Now(did, e)
  BY DEF Now
<1>1. /\ Here \in DOMAIN tree /\ Top = Scope[Here] /\ node_stack # <<>>
      /\ Here # 1 => did[tree[Here].parent] # "no"
  BY TurnIs, TopScope DEF Handles
<1>2. /\ nodes \in Seq(NodeType) /\ edges \in Seq(Id \X Id)
      /\ Len(nodes) \in Nat /\ Len(edges) \in Nat
      /\ DOMAIN nodes = 1 .. Len(nodes) /\ DOMAIN edges = 1 .. Len(edges)
  BY LenProperties DEF TypeInv
<1>3. \A i \in DOMAIN edges : i + 1 \in DOMAIN nodes /\ i + 1 # 1
  BY <1>2 DEF Nesting
<1>4. ASSUME NEW i \in DOMAIN edges
      PROVE  Scope'[nodes[i + 1].at] = Scope[nodes[i + 1].at]
  <2>1. nodes[i + 1] \in NodeType
    BY <1>2, <1>3
  <2>2. nodes[i + 1].at \in DOMAIN tree /\ nodes[i + 1].at # 1 /\ did[nodes[i + 1].at] # "no"
    BY <1>3, <2>1 DEF NodeType, Behind
  <2>3. did[tree[nodes[i + 1].at].parent] # "no"
    BY <2>2 DEF Ahead
  <2> QED
    BY <2>2, <2>3, ScopeReached
<1>5. CASE nodes' = nodes /\ edges' = edges
  BY <1>4, <1>5 DEF Nesting
<1>6. ASSUME NEW n \in NodeType, n.at = Here, CreateNode(n) PROVE Nesting'
  <2>1. /\ Len(nodes') = Len(nodes) + 1
        /\ \A i \in DOMAIN nodes : i \in DOMAIN nodes' /\ nodes'[i] = nodes[i]
        /\ nodes'[Len(nodes')] = n
    BY <1>6, CreateNodeTypes
  <2>2. edges' = Append(edges, <<Top, n.id>>) /\ <<Top, n.id>> \in Id \X Id
    BY <1>1, <1>6, TopType DEF CreateNode, NodeType
  <2>3. /\ Len(edges') = Len(edges) + 1
        /\ \A i \in DOMAIN edges' : (i \in DOMAIN edges /\ edges'[i] = edges[i])
                                      \/ (i = Len(edges) + 1 /\ edges'[i] = <<Top, n.id>>)
    BY <1>2, <2>2
  <2>4. Len(edges') + 1 = Len(nodes')
    BY <1>2, <2>1, <2>3 DEF Nesting
  <2>5. Scope'[Here] = Scope[Here]
    BY <1>1, ScopeReached
  <2>6. ASSUME NEW i \in DOMAIN edges'
        PROVE  edges'[i] = <<Scope'[nodes'[i + 1].at], nodes'[i + 1].id>>
    <3>1. CASE i \in DOMAIN edges /\ edges'[i] = edges[i]
      <4>1. nodes'[i + 1] = nodes[i + 1]
        BY <1>3, <2>1, <3>1
      <4> QED
        BY <1>4, <3>1, <4>1 DEF Nesting
    <3>2. CASE i = Len(edges) + 1 /\ edges'[i] = <<Top, n.id>>
      <4>1. i + 1 = Len(nodes')
        BY <1>2, <2>3, <2>4, <3>2
      <4> QED
        BY <1>1, <1>6, <2>1, <2>5, <3>2, <4>1
    <3> QED
      BY <2>3, <3>1, <3>2
  <2> QED
    BY <2>4, <2>6 DEF Nesting
<1> QED
  BY <1>5, <1>6, HandlesForm DEF Passes

\* ReferencesOwned, reference by reference.
OwnedBy(ns, scope, r) ==
    /\ r.kind \in {"calls", "instantiates", "imports"} => r.from = scope[r.at]
    /\ tree[r.at].t \in {"base", "contract"} =>
          \E j \in DOMAIN ns : ns[j].at = tree[r.at].parent /\ ns[j].id = r.from /\ ns[j].kind \in ClassLike
    /\ tree[r.at].t = "impl" => \E j \in DOMAIN ns : ns[j].name = tree[r.at].name /\ ns[j].id = r.from

LEMMA OwnedForm ==
    ASSUME TypeInv, NEW r \in RefType
    PROVE  /\ r.kind \in {"calls", "instantiates", "imports"} <=> tree[r.at].t \in {"call", "new", "import"}
           /\ tree[r.at].t \notin {"call", "new", "import", "base", "contract", "impl"} => r.kind = "decorates"
           /\ r.at \in DOMAIN tree
  BY DEF RefType, Gives

LEMMA OwnedNow ==
    ASSUME TypeInv, ReferencesOwned, NEW k \in DOMAIN refs
    PROVE  OwnedBy(nodes, Scope, refs[k])
<1>1. refs[k] \in RefType
  BY DEF TypeInv
<1> QED
  BY <1>1, OwnedForm DEF ReferencesOwned, OwnedBy

LEMMA OwnedNext ==
    ASSUME TypeInv, NEW new, NEW more, Handles(new, more),
           NEW did \in DidType, Ahead(did), Behind(did),
           Stacked(agenda, node_stack, Scope), ReferencesOwned
    PROVE  ReferencesOwned'
<1> PICK e : Now(did, e)
  BY DEF Now
<1>1. Here \in DOMAIN tree /\ Top = Scope[Here] /\ (Here # 1 => did[tree[Here].parent] # "no")
  BY TurnIs, TopScope DEF Handles
<1>2. Scope'[Here] = Scope[Here] /\ tree' = tree
  BY <1>1, ScopeReached DEF Handles
<1>3. \A i \in DOMAIN nodes : i \in DOMAIN nodes' /\ nodes'[i] = nodes[i]
  BY NodesKept
<1>4. ASSUME NEW k \in DOMAIN refs'
      PROVE  OwnedBy(nodes', Scope', refs'[k]) /\ refs'[k] \in RefType
  <2>1. CASE k \in DOMAIN refs /\ refs'[k] = refs[k] /\ refs[k] \in RefType
    <3>1. OwnedBy(nodes, Scope, refs[k]) /\ refs[k].at \in DOMAIN tree
      BY <2>1, OwnedNow, OwnedForm
    <3>2. refs[k].kind \in {"calls", "instantiates", "imports"} => Scope'[refs[k].at] = Scope[refs[k].at]
      <4> SUFFICES ASSUME refs[k].kind \in {"calls", "instantiates", "imports"}
                   PROVE  Scope'[refs[k].at] = Scope[refs[k].at]
        OBVIOUS
      <4>1. did[refs[k].at] # "no"
        BY <2>1, OwnedForm DEF Behind
      <4>2. refs[k].at # 1 => did[tree[refs[k].at].parent] # "no"
        BY <3>1, <4>1 DEF Ahead
      <4> QED
        BY <3>1, <4>2, ScopeReached
    <3> QED
      BY <1>3, <2>1, <3>1, <3>2 DEF OwnedBy
  <2>2. ASSUME NEW l \in DOMAIN more, refs'[k] = more[l], more[l] \in RefType, Sourced(more[l])
        PROVE  OwnedBy(nodes', Scope', more[l])
    <3>1. ASSUME more[l].kind \in {"calls", "instantiates", "imports"}
          PROVE  more[l].at = Here /\ more[l].from = Top
      BY <2>2, <3>1, OwnedForm DEF Sourced
    <3>2. ASSUME tree[more[l].at].t \in {"base", "contract"}
          PROVE  \E j \in DOMAIN nodes' : nodes'[j].at = tree[more[l].at].parent
                                            /\ nodes'[j].id = more[l].from /\ nodes'[j].kind \in ClassLike
      <4>1. more[l].kind # "decorates" /\ more[l].kind \notin {"calls", "instantiates", "imports"}
        BY <2>2, <3>2, OwnedForm DEF RefType, Gives
      <4> QED
        BY <2>2, <3>2, <4>1 DEF Sourced
    <3>3. ASSUME tree[more[l].at].t = "impl"
          PROVE  \E j \in DOMAIN nodes' : nodes'[j].name = tree[more[l].at].name /\ nodes'[j].id = more[l].from
      <4>1. more[l].kind # "decorates" /\ more[l].kind \notin {"calls", "instantiates", "imports"}
        BY <2>2, <3>3, OwnedForm DEF RefType, Gives
      <4> QED
        BY <1>3, <2>2, <3>3, <4>1 DEF Sourced
    <3> QED
      BY <1>1, <1>2, <3>1, <3>2, <3>3 DEF OwnedBy
  <2> QED
    BY <2>1, <2>2, RefsAfter
<1> QED
  BY <1>2, <1>4, OwnedForm DEF ReferencesOwned, OwnedBy

-----------------------------------------------------------------------------
(* Where calls are looked for. *)

\* Walked or about to be.
Reached(did, q) == did[q] = "walk" \/ Waits(q, "walk")

LEMMA FrameIs ==
    ASSUME TypeInv, NEW j \in DOMAIN agenda
    PROVE  agenda[j] = Frame(agenda[j].do, agenda[j].at)
<1>1. agenda[j] \in FrameType
  BY DEF TypeInv
<1> QED
  BY <1>1 DEF FrameType, Frame

\* What is walked stays walked, what waits for it stays so until it is.
LEMMA ReachedNext ==
    ASSUME TypeInv, NEW new, NEW more, Handles(new, more),
           NEW did \in DidType, Ahead(did), NEW e, Now(did, e),
           NEW q \in DOMAIN tree, Reached(did, q)
    PROVE  Reached(e, q)'
<1> PICK o : AgendaNext(new, o)
  BY AgendaAfter
<1>1. /\ agenda[1] = Head(agenda) /\ Here = agenda[1].at /\ did[Here] = "no"
      /\ \A p \in DOMAIN tree : e[p] = IF p = Here THEN Do ELSE did[p]
  BY TurnIs DEF Handles
<1>2. CASE did[q] = "walk"
  BY <1>1, <1>2 DEF Reached
<1>3. ASSUME NEW j \in DOMAIN agenda, agenda[j] = Frame("walk", q) PROVE Reached(e, q)'
  <2>1. CASE j = 1
    <3>1. q = Here /\ Do = "walk"
      BY <1>1, <1>3, <2>1 DEF Frame, Do
    <3> QED
      BY <1>1, <3>1 DEF Reached
  <2>2. CASE j # 1
    <3>1. \E i \in DOMAIN agenda' : agenda'[i] = Frame("walk", q)
      BY <1>3, <2>2 DEF AgendaNext
    <3> QED
      BY <3>1 DEF Reached, Waits, Frame
  <2> QED
    BY <2>1, <2>2
<1> QED
  BY <1>2, <1>3 DEF Reached, Waits

\* What a handler sends to be walked.
LEMMA ReachedNew ==
    ASSUME TypeInv, NEW new, NEW more, Handles(new, more),
           NEW S \in SUBSET Children(Here), new = Frames("walk", S), NEW e, NEW q \in S
    PROVE  Reached(e, q)'
<1> PICK o : AgendaNext(new, o)
  BY AgendaAfter
<1>1. \E i \in DOMAIN new : new[i] = Frame("walk", q)
  BY FramesSpawn DEF Handles, Turn, PositionDo
<1>2. \E i \in DOMAIN agenda' : agenda'[i] = Frame("walk", q)
  BY <1>1 DEF AgendaNext
<1> QED
  BY <1>2 DEF Reached, Waits, Frame

\* The same in two forms.
LEMMA WalkedForm ==
    ASSUME NEW did
    PROVE  Walked(did) <=>
             /\ \A p \in DOMAIN tree : Reached(did, p) => Scope[p][1] \in Callable
             /\ \A i \in DOMAIN nodes :
                   nodes[i].kind \in ScopeKind /\ did[nodes[i].at] = "walk" => tree[nodes[i].at].t \in ClassLike
             /\ \A p \in DOMAIN tree :
                   did[p] = "walk" /\ tree[p].t \notin ClassLike => \A q \in Children(p) : Reached(did, q)
             /\ \A i \in DOMAIN nodes :
                   nodes[i].kind \in Callable /\ tree[nodes[i].at].t \in CallableType =>
                      \A q \in BodyOf(nodes[i].at) : Reached(did, q)
  BY DEF Walked, Reached

LEMMA WalkedNext ==
    ASSUME TypeInv, FileFirst, NEW new, NEW more, Handles(new, more),
           NEW did \in DidType, Ahead(did), Behind(did), NEW e, Now(did, e),
           Stacked(agenda, node_stack, Scope), Walked(did)
    PROVE  Walked(e)'
<1> PICK o : AgendaNext(new, o)
  BY AgendaAfter
<1>1. /\ 1 \in DOMAIN agenda /\ agenda[1] = Head(agenda) /\ Here = agenda[1].at
      /\ did[Here] = "no" /\ Here \in DOMAIN tree
      /\ Here # 1 => did[tree[Here].parent] # "no"
      /\ \A p \in DOMAIN tree : e[p] = IF p = Here THEN Do ELSE did[p]
  BY TurnIs DEF Handles
<1>2. tree' = tree
  BY DEF Handles
<1>3. Do = "walk" => Reached(did, Here)
  BY <1>1, FrameIs DEF Reached, Waits, Do
<1>4. Scope'[Here] = Scope[Here]
  BY <1>1, ScopeReached
<1>5. Do = "walk" => Scope[Here][1] \in Callable
  BY <1>1, <1>3, WalkedForm
<1>6. /\ Inside(new, more)
      /\ \A i \in DOMAIN new : IsPosition(new[i]) => new[i].at \in Children(Here)
  BY ScopeInside DEF Handles, Spawned
<1>7. ASSUME NEW i \in DOMAIN new, new[i].do = "walk"
      PROVE  Scope'[new[i].at][1] \in Callable
  <2>1. new[i].at \in Children(Here) /\ new # <<>>
    BY <1>6, <1>7 DEF IsPosition, PositionDo
  <2>2. CASE Passes(new)
    <3>1. Do = "walk" /\ node_stack' = node_stack
      BY <1>7, <2>2 DEF Passes, NoWalk, Walking
    <3> QED
      BY <1>5, <1>6, <2>1, <3>1 DEF Inside
  <2>3. ASSUME NEW n \in NodeType, n.at = Here, Opens(n, new, more)
        PROVE  Scope'[new[i].at][1] \in Callable
    <3>1. n.kind \in Callable
      BY <1>7, <2>3 DEF Opens, NoWalk
    <3>2. Scope'[new[i].at] = n.id
      BY <1>6, <2>1, <2>3 DEF Inside
    <3> QED
      BY <3>1, <3>2 DEF NodeType
  <2> QED
    BY <1>7, <2>2, <2>3 DEF Handles, Adds, NoWalk
<1>8. ASSUME NEW p \in DOMAIN tree, Reached(e, p)' PROVE Scope'[p][1] \in Callable
  <2>1. CASE e[p] = "walk"
    <3>1. CASE p = Here
      BY <1>1, <1>4, <1>5, <2>1, <3>1
    <3>2. CASE p # Here
      <4>1. did[p] = "walk"
        BY <1>1, <2>1, <3>2
      <4>2. p # 1 => did[tree[p].parent] # "no"
        BY <4>1 DEF Ahead
      <4> QED
        BY <4>1, <4>2, ScopeReached, WalkedForm DEF Reached
    <3> QED
      BY <3>1, <3>2
  <2>2. ASSUME NEW i \in DOMAIN agenda', agenda'[i] = Frame("walk", p)
        PROVE  Scope'[p][1] \in Callable
    <3>1. agenda'[i].do = "walk" /\ agenda'[i].at = p /\ IsPosition(agenda'[i])
      BY <2>2 DEF Frame, IsPosition, PositionDo
    <3>2. CASE i \in DOMAIN new /\ agenda'[i] = new[i]
      BY <1>7, <3>1, <3>2
    <3>3. ASSUME NEW j \in DOMAIN agenda, agenda'[i] = agenda[j]
          PROVE  Scope'[p][1] \in Callable
      <4>1. Reached(did, p)
        BY <2>2, <3>3 DEF Reached, Waits
      <4>2. Scope'[p] = Scope[p]
        BY <3>1, <3>3, OldScope
      <4> QED
        BY <4>1, <4>2, WalkedForm
    <3> QED
      BY <3>1, <3>2, <3>3, NextItem
  <2> QED
    BY <1>8, <2>1, <2>2 DEF Reached, Waits, Frame
<1>9. \A i \in DOMAIN nodes : nodes[i].at \in DOMAIN tree /\ (nodes[i].at = Here => Here = 1)
  <2>1. \A i \in DOMAIN nodes : nodes[i] \in NodeType
    BY DEF TypeInv
  <2> QED
    BY <1>1, <2>1 DEF NodeType, Behind, FileFirst
<1>10. Here = 1 => Do # "walk"
  <2> SUFFICES ASSUME Here = 1 PROVE Do # "walk"
    OBVIOUS
  <2>1. Scope[Here] = FileId /\ FileId[1] = "file"
    <3>1. Here = 1 => tree[Here].parent = 0
      BY <1>1, TreeShape
    <3>2. Here = 1 => Scope[Here] = FileId
      BY <1>1, <3>1, ScopeValue DEF Above
    <3> QED
      BY <3>2 DEF FileId, NodeId
  <2> QED
    BY <1>5, <2>1 DEF Callable
<1>11. /\ \A i \in DOMAIN nodes' :
             nodes'[i].kind \in ScopeKind /\ e[nodes'[i].at] = "walk" => tree[nodes'[i].at].t \in ClassLike
       /\ \A i \in DOMAIN nodes' :
             nodes'[i].kind \in Callable /\ tree[nodes'[i].at].t \in CallableType =>
                \A q \in BodyOf(nodes'[i].at) : Reached(e, q)'
  <2>1. \A i \in DOMAIN nodes :
           nodes[i].kind \in ScopeKind /\ e[nodes[i].at] = "walk" => tree[nodes[i].at].t \in ClassLike
    BY <1>1, <1>9, <1>10, WalkedForm
  <2>2. ASSUME NEW i \in DOMAIN nodes, nodes[i].kind \in Callable,
               tree[nodes[i].at].t \in CallableType, NEW q \in BodyOf(nodes[i].at)
        PROVE  Reached(e, q)'
    <3>1. q \in DOMAIN tree /\ Reached(did, q)
      BY <2>2, WalkedForm DEF BodyOf, Children
    <3> QED
      BY <3>1, ReachedNext
  <2>3. CASE nodes' = nodes
    BY <2>1, <2>2, <2>3
  <2>4. ASSUME NEW n \in NodeType, n.at = Here, Adds(n, new) \/ Opens(n, new, more)
        PROVE  /\ n.kind \in ScopeKind /\ e[Here] = "walk" => HereType \in ClassLike
               /\ n.kind \in Callable /\ HereType \in CallableType =>
                     \A q \in BodyOf(Here) : Reached(e, q)'
    <3>1. e[Here] = Do
      BY <1>1
    <3>2. n.kind \in ScopeKind /\ Do = "walk" => HereType \in ClassLike
      BY <2>4 DEF Adds, Opens, Walking
    <3>3. ASSUME HereType \in CallableType, NEW q \in BodyOf(Here) PROVE Reached(e, q)'
      <4>1. new = Frames("walk", FunctionBody(Here))
        BY <2>4, <3>3 DEF Adds, Opens
      <4>2. q \in FunctionBody(Here) /\ FunctionBody(Here) \subseteq Children(Here)
        BY <1>1, <3>3, TreeShape DEF FunctionBody, BodyOf, Children
      <4> QED
        BY <4>1, <4>2, ReachedNew
    <3> QED
      BY <3>1, <3>2, <3>3
  <2>5. ASSUME NEW n \in NodeType, n.at = Here, Adds(n, new) \/ Opens(n, new, more)
        PROVE  /\ \A i \in DOMAIN nodes : i \in DOMAIN nodes' /\ nodes'[i] = nodes[i]
               /\ nodes'[Len(nodes')] = n
               /\ \A i \in DOMAIN nodes' : i \in DOMAIN nodes \/ i = Len(nodes')
    <3>1. CreateNode(n)
      BY <2>5 DEF Adds, Opens
    <3> QED
      BY <3>1, CreateNodeTypes
  <2>6. ASSUME NEW n \in NodeType, n.at = Here, Adds(n, new) \/ Opens(n, new, more)
        PROVE  \A i \in DOMAIN nodes' : (i \in DOMAIN nodes /\ nodes'[i] = nodes[i]) \/ nodes'[i] = n
    BY <2>5, <2>6
  <2>7. CASE \E n \in NodeType : n.at = Here /\ (Adds(n, new) \/ Opens(n, new, more))
    <3>1. PICK n \in NodeType : n.at = Here /\ (Adds(n, new) \/ Opens(n, new, more))
      BY <2>7
    <3>2. \A i \in DOMAIN nodes' : (i \in DOMAIN nodes /\ nodes'[i] = nodes[i]) \/ nodes'[i] = n
      BY <2>6, <3>1
    <3>3. /\ n.kind \in ScopeKind /\ e[n.at] = "walk" => tree[n.at].t \in ClassLike
          /\ n.kind \in Callable /\ tree[n.at].t \in CallableType =>
                \A q \in BodyOf(n.at) : Reached(e, q)'
      BY <2>4, <3>1 DEF HereType
    <3> QED
      BY <2>1, <2>2, <3>2, <3>3
  <2> QED
    BY <2>3, <2>7 DEF Handles, Passes
<1>12. ASSUME NEW p \in DOMAIN tree, e[p] = "walk", tree[p].t \notin ClassLike, NEW q \in Children(p)
       PROVE  Reached(e, q)'
  <2>1. CASE p = Here
    <3>1. Walking
      BY <1>1, <1>12, <2>1 DEF Walking, HereType
    <3>2. Passes(new) /\ new = Frames("walk", Children(Here))
      BY <3>1 DEF Handles, Passes, Adds, Opens, Walking
    <3> QED
      BY <1>12, <2>1, <3>2, ReachedNew
  <2>2. CASE p # Here
    <3>1. did[p] = "walk" /\ q \in DOMAIN tree
      BY <1>1, <1>12, <2>2 DEF Children
    <3> QED
      BY <1>12, <3>1, ReachedNext, WalkedForm
  <2> QED
    BY <2>1, <2>2
<1> HIDE DEF Reached
<1> QED
  BY <1>2, <1>8, <1>11, <1>12 DEF Walked, Reached, BodyOf, Children, Waits, Frame

-----------------------------------------------------------------------------
(* Calls and decorators. *)

LEMMA CallsNext ==
    ASSUME TypeInv, NEW new, NEW more, Handles(new, more),
           NEW did \in DidType, Ahead(did), Behind(did), NEW e, Now(did, e),
           Stacked(agenda, node_stack, Scope), CallsGiven(did)
    PROVE  CallsGiven(e)'
<1>1. /\ did[Here] = "no" /\ Here \in DOMAIN tree
      /\ Here # 1 => did[tree[Here].parent] # "no"
      /\ \A p \in DOMAIN tree : e[p] # "no" <=> p = Here \/ did[p] # "no"
  BY TurnIs DEF Handles
<1>2. tree' = tree /\ Top = Scope[Here] /\ Scope'[Here] = Scope[Here]
  BY <1>1, TopScope, ScopeReached DEF Handles
<1>3. /\ \A k \in DOMAIN refs : k \in DOMAIN refs' /\ refs'[k] = refs[k] /\ refs[k] \in RefType
      /\ \A k \in DOMAIN refs' :
            \/ k \in DOMAIN refs /\ refs'[k] = refs[k] /\ refs[k] \in RefType
            \/ \E l \in DOMAIN more :
                  k = Len(refs) + l /\ refs'[k] = more[l] /\ more[l] \in RefType /\ Sourced(more[l])
      /\ \A l \in DOMAIN more : \E k \in DOMAIN refs' : refs'[k] = more[l]
  BY RefsAfter
<1>4. ASSUME NEW q \in DOMAIN tree, tree[q].t = "call", tree[q].name # NoName, e[q] # "no"
      PROVE  \E k \in DOMAIN refs' :
                /\ refs'[k] = Ref(Scope'[q], "calls", tree[q].name, q)
                /\ \A l \in DOMAIN refs' : refs'[l].at = q => l = k
  <2>1. CASE q = Here
    <3>1. more = <<Ref(Top, "calls", tree[Here].name, Here)>>
      BY <1>4, <2>1 DEF Handles, HereType
    <3>2. DOMAIN more = {1} /\ more[1] = Ref(Scope'[q], "calls", tree[q].name, q)
      BY <1>2, <2>1, <3>1
    <3>3. PICK k \in DOMAIN refs' : refs'[k] = more[1]
      BY <1>3, <3>2
    <3>4. \A l \in DOMAIN refs : refs[l].at # q
      BY <1>1, <1>4, <2>1 DEF Behind
    <3>5. \A l \in DOMAIN refs' : refs'[l].at = q => l = Len(refs) + 1
      BY <1>3, <3>2, <3>4
    <3>6. refs'[k].at = q
      BY <3>2, <3>3 DEF Ref
    <3> QED
      BY <3>2, <3>3, <3>5, <3>6
  <2>2. CASE q # Here
    <3>1. did[q] # "no" /\ (q # 1 => did[tree[q].parent] # "no")
      BY <1>1, <1>4, <2>2 DEF Ahead
    <3>2. PICK k \in DOMAIN refs :
             /\ refs[k] = Ref(Scope[q], "calls", tree[q].name, q)
             /\ \A l \in DOMAIN refs : refs[l].at = q => l = k
      BY <1>4, <3>1 DEF CallsGiven
    <3>3. Scope'[q] = Scope[q]
      BY <3>1, ScopeReached
    <3>4. ASSUME NEW l \in DOMAIN more, more[l] \in RefType, Sourced(more[l]) PROVE more[l].at # q
      <4> SUFFICES ASSUME more[l].at = q PROVE FALSE
        OBVIOUS
      <4>1. more[l].kind = "calls"
        BY <1>4, <3>4 DEF RefType, Gives
      <4> QED
        BY <1>4, <2>2, <3>4, <4>1 DEF Sourced
    <3>5. \A l \in DOMAIN refs' : refs'[l].at = q => l = k
      BY <1>3, <3>2, <3>4
    <3> QED
      BY <1>3, <3>2, <3>3, <3>5
  <2> QED
    BY <2>1, <2>2
<1> QED
  BY <1>2, <1>4 DEF CallsGiven, Ref

\* The decorated definition is one position.
LEMMA OneInside ==
    ASSUME TypeInv, OneDefinition, NEW p \in DOMAIN tree, NEW q \in DOMAIN tree,
           p # 1, tree[p].parent = tree[q].parent, tree[tree[p].parent].t = "decorated",
           tree[p].t # "decorator", tree[q].t # "decorator"
    PROVE  p = q /\ tree[p].t \notin {"alias", "property"}
<1>1. tree[p].parent > 0
  BY TreeShape
<1> QED
  BY <1>1 DEF OneDefinition, TypeInv

LEMMA DecoratorsNextNext ==
    ASSUME TypeInv, OneDefinition, NEW new, NEW more, Handles(new, more),
           NEW did \in DidType, Ahead(did), NEW e, Now(did, e), DecoratorsNext(did)
    PROVE  DecoratorsNext(e)'
<1> PICK o : AgendaNext(new, o)
  BY AgendaAfter
<1>1. /\ did[Here] = "no" /\ Here \in DOMAIN tree /\ tree' = tree
      /\ \A p \in DOMAIN tree : e[p] = IF p = Here THEN Do ELSE did[p]
  BY TurnIs DEF Handles
<1>2. ASSUME NEW i \in DOMAIN agenda', IsPosition(agenda'[i]), agenda'[i].at # 1,
             tree[tree[agenda'[i].at].parent].t = "decorated", e[tree[agenda'[i].at].parent] # "walk"
      PROVE  /\ i = 1
             /\ agenda'[i].do = "visit"
             /\ \A d \in Readable(tree[agenda'[i].at].parent) : \E k \in DOMAIN pending' : pending'[k] = d
  <2>1. CASE i \in DOMAIN new /\ agenda'[i] = new[i] /\ agenda'[i].at \in Children(Here)
    <3>1. tree[agenda'[i].at].parent = Here /\ HereType = "decorated" /\ Do # "walk"
      BY <1>1, <1>2, <2>1 DEF Children, HereType
    <3>2. Do = "visit"
      <4>1. Head(agenda) \in FrameType /\ IsPosition(Head(agenda))
        BY DEF Handles, Turn, TypeInv
      <4>2. (Do = "function" => HereType = "function") /\ (Do = "member" => HereType = "member")
        BY <4>1 DEF FrameType, Do, HereType, Here
      <4> QED
        BY <3>1, <4>1, <4>2 DEF IsPosition, PositionDo, Do
    <3>3. new = Frames("visit", Undecorated) \o <<Clear>> /\ pending' = Listed(Readable(Here))
      BY <3>1, <3>2 DEF Handles
    <3>4. /\ Spawned(Frames("visit", Undecorated))
          /\ \A k \in DOMAIN Frames("visit", Undecorated) :
                /\ Frames("visit", Undecorated)[k].do = "visit"
                /\ Frames("visit", Undecorated)[k].at \in Undecorated
      <4>1. Undecorated \in SUBSET Children(Here) /\ "visit" \in PositionDo
        BY DEF Undecorated, PositionDo
      <4> QED
        BY <1>1, <4>1, FramesSpawn
    <3> DEFINE fs == Frames("visit", Undecorated)
    <3>5. fs \in Seq(FrameType) /\ \A k \in DOMAIN fs : fs[k].do = "visit" /\ fs[k].at \in Undecorated
      BY <3>4 DEF Spawned
    <3>6. \A k, l \in DOMAIN fs : k = l
      <4> SUFFICES ASSUME NEW k \in DOMAIN fs, NEW l \in DOMAIN fs PROVE k = l
        OBVIOUS
      <4>1. fs[k].at \in Undecorated /\ fs[l].at \in Undecorated
        BY <3>5
      <4>2. \A c \in Undecorated : c \in DOMAIN tree /\ c # 1 /\ tree[c].parent = Here /\ tree[c].t # "decorator"
        BY <1>1, TreeShape DEF Undecorated, Children
      <4>3. fs[k].at = fs[l].at
        BY <3>1, <4>1, <4>2, OneInside DEF HereType
      <4>4. IsPosition(fs[k]) /\ IsPosition(fs[l])
        BY <3>5 DEF IsPosition, PositionDo
      <4> QED
        BY <3>4, <4>3, <4>4 DEF Spawned
    <3> HIDE DEF fs
    <3>7. /\ new = fs \o <<Clear>> /\ Len(fs) \in Nat /\ DOMAIN fs = 1 .. Len(fs)
          /\ DOMAIN new = 1 .. Len(fs) + 1 /\ new[Len(fs) + 1] = Clear
          /\ \A k \in 1 .. Len(fs) : new[k] = fs[k]
      BY <3>3, <3>5 DEF fs
    <3>8. ~IsPosition(Clear)
      BY DEF Clear, Frame, IsPosition, PositionDo
    <3>9. i \in 1 .. Len(fs)
      BY <1>2, <2>1, <3>7, <3>8
    <3>10. i = 1
      <4>1. 1 \in 1 .. Len(fs)
        BY <3>7, <3>9
      <4> QED
        BY <3>6, <3>7, <3>9, <4>1
    <3>11. agenda'[i].do = "visit"
      BY <2>1, <3>5, <3>7, <3>9
    <3>12. \A d \in Readable(Here) : \E k \in DOMAIN pending' : pending'[k] = d
      <4>1. Len(tree) \in Nat /\ Readable(Here) \subseteq 1 .. Len(tree)
        BY TreeShape DEF Readable, Children
      <4> QED
        BY <3>3, <4>1, ListedOnce
    <3> QED
      BY <3>1, <3>10, <3>11, <3>12
  <2>2. ASSUME NEW j \in DOMAIN agenda, j # 1, agenda'[i] = agenda[j],
               agenda'[i].at \in DOMAIN tree, tree[agenda'[i].at].parent # Here
        PROVE  FALSE
    <3>1. tree[agenda'[i].at].parent \in DOMAIN tree
      BY <1>2, <2>2, TreeShape
    <3>2. did[tree[agenda'[i].at].parent] # "walk"
      BY <1>1, <1>2, <2>2, <3>1
    <3> QED
      BY <1>2, <2>2, <3>2 DEF DecoratorsNext
  <2> QED
    BY <1>2, <2>1, <2>2, NextItem
<1> QED
  BY <1>1, <1>2 DEF DecoratorsNext, IsPosition, Readable, Children

LEMMA DecoratorsGivenNext ==
    ASSUME TypeInv, FileFirst, OneDefinition, NEW new, NEW more, Handles(new, more),
           NEW did \in DidType, Ahead(did), Behind(did), NEW e, Now(did, e),
           DecoratorsNext(did), DecoratorsGiven(did)
    PROVE  DecoratorsGiven(e)'
<1>1. /\ did[Here] = "no" /\ Here \in DOMAIN tree /\ tree' = tree
      /\ 1 \in DOMAIN agenda /\ IsPosition(agenda[1]) /\ Here = agenda[1].at
      /\ \A p \in DOMAIN tree : e[p] = IF p = Here THEN Do ELSE did[p]
  BY TurnIs DEF Handles
<1>2. /\ \A k \in DOMAIN refs : k \in DOMAIN refs' /\ refs'[k] = refs[k]
      /\ \A l \in DOMAIN more : \E k \in DOMAIN refs' : refs'[k] = more[l]
  BY RefsAfter
<1>3. ASSUME NEW i \in DOMAIN nodes, NEW d \in DOMAIN tree,
             nodes[i].at # 1, nodes[i].kind \in Decorating,
             tree[tree[nodes[i].at].parent].t = "decorated",
             e[tree[nodes[i].at].parent] # "walk",
             d \in Readable(tree[nodes[i].at].parent)
      PROVE  \E k \in DOMAIN refs' : refs'[k] = Ref(nodes[i].id, "decorates", tree[d].name, d)
  <2>1. nodes[i] \in NodeType
    BY DEF TypeInv
  <2>2. nodes[i].at \in DOMAIN tree /\ did[nodes[i].at] # "no"
    BY <1>3, <2>1 DEF NodeType, Behind, FileFirst
  <2>3. did[tree[nodes[i].at].parent] # "no" /\ tree[nodes[i].at].parent \in DOMAIN tree
    BY <1>3, <2>2, TreeShape DEF Ahead
  <2>4. did[tree[nodes[i].at].parent] # "walk"
    BY <1>1, <1>3, <2>3
  <2>5. \E k \in DOMAIN refs : refs[k] = Ref(nodes[i].id, "decorates", tree[d].name, d)
    BY <1>3, <2>4 DEF DecoratorsGiven
  <2> QED
    BY <1>2, <2>5
<1>4. ASSUME NEW n \in NodeType, n.at = Here, Adds(n, new) \/ Opens(n, new, more), NEW d \in DOMAIN tree,
             Here # 1, n.kind \in Decorating, tree[tree[Here].parent].t = "decorated",
             e[tree[Here].parent] # "walk", d \in Readable(tree[Here].parent)
      PROVE  \E k \in DOMAIN refs' : refs'[k] = Ref(n.id, "decorates", tree[d].name, d)
  <2>1. tree[Here].parent \in DOMAIN tree /\ tree[Here].parent # Here
    BY <1>1, <1>4, TreeShape
  <2>2. did[tree[Here].parent] # "walk"
    BY <1>1, <1>4, <2>1
  <2>3. PICK k \in DOMAIN pending : pending[k] = d
    BY <1>1, <1>4, <2>2 DEF DecoratorsNext
  <2>4. HereType # "decorator"
    <3>1. Adds(n, new) => HereType \in {"alias", "property"}
      BY <1>4 DEF Adds
    <3>2. Opens(n, new, more) => HereType # "decorator"
      <4> SUFFICES ASSUME Opens(n, new, more), HereType = "decorator" PROVE FALSE
        OBVIOUS
      <4> QED
        BY DEF Opens
    <3> QED
      BY <1>4, <3>1, <3>2
  <2>5. HereType \notin {"alias", "property"}
    BY <1>1, <1>4, <2>4, OneInside DEF HereType
  <2>6. Opens(n, new, more)
    BY <1>4, <2>5 DEF Adds
  <2>7. \E l \in DOMAIN more : more[l] = Ref(n.id, "decorates", tree[pending[k]].name, pending[k])
    BY <2>5, <2>6 DEF Opens
  <2> QED
    BY <1>2, <2>3, <2>7
<1>5. ASSUME NEW i \in DOMAIN nodes', NEW d \in DOMAIN tree,
             nodes'[i].at # 1, nodes'[i].kind \in Decorating,
             tree[tree[nodes'[i].at].parent].t = "decorated",
             e[tree[nodes'[i].at].parent] # "walk",
             d \in Readable(tree[nodes'[i].at].parent)
      PROVE  \E k \in DOMAIN refs' : refs'[k] = Ref(nodes'[i].id, "decorates", tree[d].name, d)
  <2>1. CASE nodes' = nodes
    BY <1>3, <1>5, <2>1
  <2>2. ASSUME NEW n \in NodeType, n.at = Here, Adds(n, new) \/ Opens(n, new, more)
        PROVE  \E k \in DOMAIN refs' : refs'[k] = Ref(nodes'[i].id, "decorates", tree[d].name, d)
    <3>1. CreateNode(n)
      BY <2>2 DEF Adds, Opens
    <3>2. (i \in DOMAIN nodes /\ nodes'[i] = nodes[i]) \/ nodes'[i] = n
      BY <3>1, CreateNodeTypes
    <3>3. CASE i \in DOMAIN nodes /\ nodes'[i] = nodes[i]
      BY <1>3, <1>5, <3>3
    <3>4. CASE nodes'[i] = n
      BY <1>4, <1>5, <2>2, <3>4
    <3> QED
      BY <3>2, <3>3, <3>4
  <2> QED
    BY <2>1, <2>2 DEF Handles, Passes
<1> QED
  BY <1>1, <1>5 DEF DecoratorsGiven, Readable, Children, Ref

-----------------------------------------------------------------------------
(* What stands in the body of a function. *)

\* One position of Under, given the others.
Inner(p, in, q) ==
    \/ tree[q].parent = p /\ tree[q].part = "body"
    \/ tree[q].parent > p /\ in[tree[q].parent] /\ tree[tree[q].parent].t \notin ClassLike

Inners(p, in) == in = [q \in DOMAIN tree |-> Inner(p, in, q)]

\* The same rule for a set.
Rule(p, S, q) ==
    \/ tree[q].parent = p /\ tree[q].part = "body"
    \/ tree[q].parent > p /\ tree[q].parent \in S /\ tree[tree[q].parent].t \notin ClassLike

Closed(p, S) == \A q \in DOMAIN tree : Rule(p, S, q) => q \in S

LEMMA UnderIs ==
    ASSUME NEW p
    PROVE  Under(p) = {q \in DOMAIN tree : (CHOOSE in : Inners(p, in))[q]}
  BY DEF Under, Inners, Inner

\* The smallest closed set obeys the rule, so the recursive definition has a value.
LEMMA InnersExist ==
    ASSUME TypeInv, NEW p \in DOMAIN tree
    PROVE  \E in : Inners(p, in)
<1> DEFINE U == {q \in DOMAIN tree : \A S \in SUBSET DOMAIN tree : Closed(p, S) => q \in S}
<1>1. ASSUME NEW q \in DOMAIN tree, Rule(p, U, q) PROVE q \in U
  <2> SUFFICES ASSUME NEW S \in SUBSET DOMAIN tree, Closed(p, S) PROVE q \in S
    OBVIOUS
  <2>1. \A r \in U : r \in S
    OBVIOUS
  <2>2. Rule(p, S, q)
    BY <1>1, <2>1 DEF Rule
  <2> QED
    BY <2>2 DEF Closed
<1>2. ASSUME NEW q \in U PROVE Rule(p, U, q)
  <2> SUFFICES ASSUME ~Rule(p, U, q) PROVE FALSE
    OBVIOUS
  <2> DEFINE V == U \ {q}
  <2>1. Closed(p, V)
    <3> SUFFICES ASSUME NEW r \in DOMAIN tree, Rule(p, V, r) PROVE r \in V
      BY DEF Closed
    <3>1. Rule(p, U, r)
      BY DEF Rule
    <3> QED
      BY <1>1, <3>1
  <2>2. V \in SUBSET DOMAIN tree
    OBVIOUS
  <2>3. q \in V
    BY <2>1, <2>2
  <2> QED
    BY <2>3
<1> HIDE DEF U
<1> DEFINE in == [q \in DOMAIN tree |-> q \in U]
<1>3. ASSUME NEW q \in DOMAIN tree PROVE in[q] = Inner(p, in, q)
  <2>1. tree[q].parent > p => tree[q].parent \in DOMAIN tree
    BY TreeShape
  <2>2. Inner(p, in, q) <=> Rule(p, U, q)
    BY <2>1 DEF Inner, Rule
  <2>3. q \in U <=> Rule(p, U, q)
    BY <1>1, <1>2
  <2>4. in[q] = (q \in U)
    OBVIOUS
  <2>5. Inner(p, in, q) \in BOOLEAN
    BY <2>1 DEF Inner
  <2> HIDE DEF in
  <2> QED
    BY <2>2, <2>3, <2>4, <2>5
<1>4. in = [q \in DOMAIN tree |-> Inner(p, in, q)]
  BY <1>3
<1> HIDE DEF in
<1> QED
  BY <1>4 DEF Inners

\* A set that obeys the rule holds all that stands under p.
LEMMA UnderInduction ==
    ASSUME TypeInv, NEW p \in DOMAIN tree, NEW S, Closed(p, S)
    PROVE  \A q \in Under(p) : q \in S
<1> DEFINE in == CHOOSE in : Inners(p, in)
           K == {n \in Nat : n \in DOMAIN tree /\ in[n] => n \in S}
<1>1. Inners(p, in)
  BY InnersExist
<1>2. Under(p) = {q \in DOMAIN tree : in[q]}
  BY UnderIs
<1> HIDE DEF in
<1>3. \A q \in DOMAIN tree : in[q] = Inner(p, in, q)
  BY <1>1 DEF Inners
<1>4. ASSUME NEW n \in Nat, \A m \in 0 .. n - 1 : m \in K PROVE n \in K
  <2> SUFFICES ASSUME n \in DOMAIN tree, in[n] PROVE n \in S
    OBVIOUS
  <2>1. Inner(p, in, n)
    BY <1>3
  <2>2. tree[n].parent \in 0 .. n - 1 /\ (tree[n].parent > p => tree[n].parent \in DOMAIN tree)
    BY TreeShape
  <2>3. tree[n].parent > p /\ in[tree[n].parent] => tree[n].parent \in S
    BY <1>4, <2>2
  <2>4. Rule(p, S, n)
    BY <2>1, <2>3 DEF Inner, Rule
  <2> QED
    BY <2>4 DEF Closed
<1> HIDE DEF K
<1>5. \A n \in Nat : n \in K
  BY <1>4, CourseOfValues
<1>6. \A q \in DOMAIN tree : q \in Nat
  BY TreeShape
<1> QED
  BY <1>2, <1>5, <1>6 DEF K

\* When nothing waits, every call in the body of a function has its reference.
LEMMA CallsFound ==
    ASSUME TypeInv, FileFirst, NEW did \in DidType, Behind(did), Walked(did), CallsGiven(did), agenda = <<>>
    PROVE  BodyCallsFound
<1>1. \A q : Reached(did, q) => did[q] = "walk"
  BY DEF Reached, Waits
<1>2. \A i \in DOMAIN nodes : nodes[i].at \in DOMAIN tree /\ nodes[i].id[1] = nodes[i].kind
  <2>1. \A i \in DOMAIN nodes : nodes[i] \in NodeType
    BY DEF TypeInv
  <2> QED
    BY <2>1 DEF NodeType
<1>3. ASSUME NEW i \in DOMAIN nodes, nodes[i].kind \in Callable, tree[nodes[i].at].t \in CallableType
      PROVE  \A q \in Under(nodes[i].at) : q \in DOMAIN tree /\ did[q] = "walk" /\ Scope[q] = nodes[i].id
  <2> DEFINE p == nodes[i].at
             S == {q \in DOMAIN tree : did[q] = "walk" /\ Scope[q] = nodes[i].id}
  <2>1. p \in DOMAIN tree /\ p # 0
    BY <1>2, TreeShape
  <2>2. ASSUME NEW q \in DOMAIN tree, Rule(p, S, q) PROVE q \in S
    <3>1. CASE tree[q].parent = p /\ tree[q].part = "body"
      <4>1. q \in BodyOf(p)
        BY <3>1 DEF BodyOf, Children
      <4>2. did[q] = "walk"
        BY <1>1, <1>3, <4>1, WalkedForm
      <4>3. i \in Standing(nodes, p) /\ \A j \in Standing(nodes, p) : j = i
        BY <1>3 DEF Standing, Behind, Callable, ScopeKind
      <4>4. (CHOOSE j \in Standing(nodes, p) : TRUE) = i
        BY <4>3
      <4>5. Scope[q] = nodes[i].id
        BY <2>1, <3>1, <4>3, <4>4, ScopeValue DEF Above
      <4> QED
        BY <4>2, <4>5
    <3>2. CASE tree[q].parent \in S /\ tree[tree[q].parent].t \notin ClassLike
      <4> DEFINE r == tree[q].parent
      <4>1. r \in DOMAIN tree /\ did[r] = "walk" /\ Scope[r] = nodes[i].id /\ r # 0
        BY <3>2, TreeShape
      <4>2. did[q] = "walk"
        <5>1. q \in Children(r)
          BY DEF Children
        <5> QED
          BY <1>1, <3>2, <4>1, <5>1, WalkedForm
      <4>3. Standing(nodes, r) = {}
        BY <3>2, <4>1, WalkedForm DEF Standing
      <4>4. Scope[q] = Scope[r]
        BY <4>1, <4>3, ScopeValue DEF Above
      <4> QED
        BY <4>1, <4>2, <4>4
    <3> QED
      BY <2>2, <3>1, <3>2 DEF Rule
  <2>3. Closed(p, S)
    BY <2>2 DEF Closed
  <2> HIDE DEF S, p
  <2>4. \A q \in Under(p) : q \in S
    BY <2>1, <2>3, UnderInduction
  <2> QED
    BY <2>4 DEF S, p
<1>4. ASSUME NEW i \in DOMAIN nodes, nodes[i].kind \in Callable, tree[nodes[i].at].t \in CallableType,
             NEW q \in Under(nodes[i].at), tree[q].t = "call", tree[q].name # NoName
      PROVE  \E k \in DOMAIN refs :
                /\ refs[k] = Ref(nodes[i].id, "calls", tree[q].name, q)
                /\ \A l \in DOMAIN refs : refs[l].at = q => l = k
  <2>1. q \in DOMAIN tree /\ did[q] = "walk" /\ Scope[q] = nodes[i].id
    BY <1>3, <1>4
  <2> QED
    BY <1>4, <2>1 DEF CallsGiven
<1> QED
  BY <1>4 DEF BodyCallsFound, CallableType

\* When nothing waits, every decorated definition has its decorators.
LEMMA DecoratorsFound ==
    ASSUME TypeInv, FileFirst, NEW did \in DidType, Behind(did), Walked(did), DecoratorsGiven(did)
    PROVE  DecoratorsKept
<1>1. \A i \in DOMAIN nodes : nodes[i].at \in DOMAIN tree /\ nodes[i].id[1] = nodes[i].kind
  <2>1. \A i \in DOMAIN nodes : nodes[i] \in NodeType
    BY DEF TypeInv
  <2> QED
    BY <2>1 DEF NodeType
<1>2. ASSUME NEW i \in DOMAIN nodes, NEW d \in DOMAIN tree,
             nodes[i].kind \in Callable \cup ClassLike,
             tree[nodes[i].at].parent > 0,
             tree[tree[nodes[i].at].parent].t = "decorated",
             \E j \in DOMAIN nodes : nodes[j].id = Scope[nodes[i].at] /\ nodes[j].kind \notin Callable,
             tree[d].parent = tree[nodes[i].at].parent,
             tree[d].t = "decorator" /\ tree[d].name # NoName
      PROVE  \E k \in DOMAIN refs : refs[k] = Ref(nodes[i].id, "decorates", tree[d].name, d)
  <2> DEFINE p == nodes[i].at
             w == tree[p].parent
  <2>1. p \in DOMAIN tree /\ p # 1 /\ w \in DOMAIN tree /\ w # 0
    BY <1>1, <1>2, TreeShape
  <2>2. ASSUME did[w] = "walk" PROVE FALSE
    <3>1. Scope[w][1] \in Callable
      BY <2>1, <2>2, WalkedForm DEF Reached
    <3>2. Standing(nodes, w) = {}
      BY <1>2, <2>2, WalkedForm DEF Standing, ClassLike
    <3>3. Scope[p] = Scope[w]
      BY <2>1, <3>2, ScopeValue DEF Above
    <3> QED
      BY <1>1, <1>2, <3>1, <3>3
  <2>3. d \in Readable(w)
    BY <1>2 DEF Readable, Children
  <2> QED
    BY <1>2, <2>1, <2>2, <2>3 DEF DecoratorsGiven, Decorating
<1> QED
  BY <1>2 DEF DecoratorsKept

-----------------------------------------------------------------------------
(* The inductive invariant. *)

\* What a record of the past says of a state.
Past(did) ==
    /\ Stacked(agenda, node_stack, Scope)
    /\ Ahead(did)
    /\ Behind(did)
    /\ Walked(did)
    /\ CallsGiven(did)
    /\ OneDefinition => DecoratorsNext(did) /\ DecoratorsGiven(did)

ExtractInv ==
    /\ TypeInv
    /\ FileFirst
    /\ Hanging
    /\ Nesting
    /\ ReferencesOwned
    /\ outcome # "visiting" => agenda = <<>>
    /\ outcome # "partial" => \E did \in DidType : Past(did)

LEMMA ExtractInit == Init => ExtractInv
<1> SUFFICES ASSUME Init PROVE ExtractInv
  OBVIOUS
<1>1. IsTree(tree) /\ tree \in Trees
  BY ExtractorAssumption DEF Init
<1>2. 1 \in DOMAIN tree /\ tree[1].t = "plain" /\ tree[1].parent = 0
  BY <1>1 DEF IsTree
<1>3. FileId \in Id /\ FileId[1] = "file" /\ "file" \in NodeKind /\ "file" \notin Callable
  <2>1. "file" \in NodeKind /\ "file" \in Word /\ 1 \in Nat /\ "file" \notin Callable
    BY DEF NodeKind, Callable, Word
  <2>2. FileId = <<"file", "file", 1>>
    BY DEF FileId, NodeId
  <2> QED
    BY <2>1, <2>2 DEF Id
<1> DEFINE n == [id |-> FileId, kind |-> "file", name |-> "file", at |-> 1]
           f == Frame("visit", 1)
<1>4. n \in NodeType /\ n.id = FileId /\ n.at = 1 /\ n.kind = "file"
  <2>1. "file" \in Word
    BY DEF Word
  <2>2. n.id[1] = n.kind
    BY <1>3
  <2>3. n \in [id : Id, kind : NodeKind, name : Word, at : DOMAIN tree]
    BY <1>2, <1>3, <2>1
  <2> QED
    BY <2>2, <2>3 DEF NodeType
<1>5. f \in FrameType /\ f.do = "visit" /\ f.at = 1 /\ IsPosition(f)
  BY <1>2 DEF FrameType, Frame, IsPosition, PositionDo
<1>6. Pop \in FrameType /\ Pop.do = "pop" /\ ~IsPosition(Pop)
  BY PopType
<1>7. /\ agenda = <<f, Pop>> /\ nodes = <<n>> /\ node_stack = <<FileId>>
      /\ edges = <<>> /\ refs = <<>> /\ pending = <<>> /\ outcome = "visiting"
  BY DEF Init
<1> HIDE DEF n, f
<1>8. TypeInv
  BY <1>1, <1>3, <1>4, <1>5, <1>6, <1>7 DEF TypeInv
<1>9. FileFirst /\ Hanging /\ Nesting /\ ReferencesOwned
  <2>1. FileFirst /\ Hanging
    BY <1>4, <1>7 DEF FileFirst, Hanging, Known
  <2>2. Nesting
    BY <1>7 DEF Nesting
  <2>3. ReferencesOwned
    BY <1>7 DEF ReferencesOwned
  <2> QED
    BY <2>1, <2>2, <2>3
<1> DEFINE did == [p \in DOMAIN tree |-> "no"]
<1>10. did \in DidType /\ \A p \in DOMAIN tree : did[p] = "no"
  BY DEF DidType
<1>11. Scope[1] = FileId
  BY <1>2, <1>8, ScopeValue DEF Above
<1>12. Stacked(agenda, node_stack, Scope)
  <2> DEFINE d == [i \in 1 .. 3 |-> IF i = 3 THEN 0 ELSE 1]
  <2>1. Len(agenda) = 2 /\ DOMAIN agenda = {1, 2} /\ agenda[1] = f /\ agenda[2] = Pop
        /\ Len(node_stack) = 1 /\ node_stack[1] = FileId
    BY <1>7
  <2>2. d \in [1 .. Len(agenda) + 1 -> Nat] /\ d[1] = 1 /\ d[2] = 1 /\ d[3] = 0
    BY <2>1
  <2>3. Heights(agenda, node_stack, d)
    <3>1. \A i \in DOMAIN agenda : d[i] > 0 /\ d[i + 1] = IF agenda[i].do = "pop" THEN d[i] - 1 ELSE d[i]
      BY <1>5, <1>6, <2>1, <2>2
    <3>2. \A i, j \in DOMAIN d : i <= j => d[j] <= d[i]
      BY <2>2
    <3> QED
      BY <2>1, <2>2, <3>1, <3>2 DEF Heights
  <2>4. \A i \in DOMAIN agenda : IsPosition(agenda[i]) => node_stack[d[i]] = Scope[agenda[i].at]
    BY <1>5, <1>6, <1>11, <2>1, <2>2
  <2> HIDE DEF d
  <2> QED
    BY <2>2, <2>3, <2>4 DEF Stacked
<1> HIDE DEF did
<1>13. Ahead(did) /\ Behind(did) /\ CallsGiven(did)
  <2>1. Ahead(did)
    <3>1. DOMAIN agenda = {1, 2} /\ agenda[1] = f /\ agenda[2] = Pop
      BY <1>7
    <3>2. \A i \in DOMAIN agenda : IsPosition(agenda[i]) => i = 1 /\ agenda[i].at = 1 /\ 1 \in DOMAIN tree
      BY <1>2, <1>5, <1>6, <3>1
    <3>3. \A p \in DOMAIN tree : did[p] = "no"
      BY <1>10
    <3> QED
      BY <3>2, <3>3 DEF Ahead
  <2>2. Behind(did)
    BY <1>4, <1>7 DEF Behind
  <2>3. CallsGiven(did)
    BY <1>10 DEF CallsGiven
  <2> QED
    BY <2>1, <2>2, <2>3
<1>14. Walked(did)
  <2>1. \A q : ~Waits(q, "walk")
    BY <1>5, <1>6, <1>7 DEF Waits, Frame
  <2>2. \A i \in DOMAIN nodes : nodes[i].at \in DOMAIN tree /\ nodes[i].kind \notin Callable
    BY <1>2, <1>3, <1>4, <1>7
  <2> QED
    BY <1>10, <2>1, <2>2 DEF Walked
<1>15. DecoratorsNext(did) /\ DecoratorsGiven(did)
  <2>1. DecoratorsNext(did)
    BY <1>5, <1>6, <1>7 DEF DecoratorsNext
  <2>2. DecoratorsGiven(did)
    BY <1>4, <1>7 DEF DecoratorsGiven
  <2> QED
    BY <2>1, <2>2
<1>16. Past(did)
  BY <1>12, <1>13, <1>14, <1>15 DEF Past
<1> QED
  BY <1>7, <1>8, <1>9, <1>10, <1>16 DEF ExtractInv

\* Every handler keeps the invariant.
LEMMA HandlesKeep ==
    ASSUME ExtractInv, NEW new, NEW more, Handles(new, more)
    PROVE  ExtractInv'
<1>1. /\ TypeInv /\ FileFirst /\ Hanging /\ Nesting /\ ReferencesOwned /\ Turn
      /\ outcome = "visiting" /\ UNCHANGED <<tree, outcome>>
  BY DEF ExtractInv, Handles, Turn
<1>2. PICK did \in DidType : Past(did)
  BY <1>1 DEF ExtractInv
<1>3. /\ Stacked(agenda, node_stack, Scope)
      /\ Ahead(did) /\ Behind(did) /\ Walked(did) /\ CallsGiven(did)
      /\ OneDefinition => DecoratorsNext(did) /\ DecoratorsGiven(did)
  BY <1>2 DEF Past
<1>4. PICK e : Now(did, e)
  BY DEF Now
<1>5. e \in DidType
  BY <1>1, <1>3, <1>4, TurnIs
<1>6. node_stack # <<>>
  BY <1>1, <1>3, TopScope
<1>7. TypeInv'
  BY <1>1, <1>6, TypesNext
<1>8. FileFirst'
  <2>1. 1 \in DOMAIN nodes
    BY <1>1 DEF FileFirst, TypeInv
  <2>2. 1 \in DOMAIN nodes' /\ nodes'[1] = nodes[1]
    BY <1>1, <2>1, NodesKept
  <2> QED
    BY <1>1, <2>2 DEF FileFirst, FileId, NodeId
<1>9. Hanging' /\ Nesting' /\ ReferencesOwned'
  BY <1>1, <1>3, <1>6, HangingNext, NestingNext, OwnedNext
<1>10. Stacked(agenda', node_stack', Scope')
  BY <1>1, <1>3, StackedNext
<1>11. Ahead(e)' /\ Behind(e)'
  BY <1>1, <1>3, <1>4, AheadNext, BehindNext
<1>12. Walked(e)' /\ CallsGiven(e)'
  BY <1>1, <1>3, <1>4, WalkedNext, CallsNext
<1>13. OneDefinition => DecoratorsNext(e)' /\ DecoratorsGiven(e)'
  BY <1>1, <1>3, <1>4, DecoratorsNextNext, DecoratorsGivenNext
<1>14. OneDefinition' = OneDefinition
  BY DEF OneDefinition
<1>15. Past(e)'
  BY <1>10, <1>11, <1>12, <1>13, <1>14 DEF Past
<1>16. DidType' = DidType
  BY <1>1 DEF DidType
<1> QED
  BY <1>1, <1>5, <1>7, <1>8, <1>9, <1>15, <1>16 DEF ExtractInv

\* The agenda stays, or loses an item that is no position.
Moves(o) ==
    /\ o \in {0, 1}
    /\ \A i \in DOMAIN agenda' : i + o \in DOMAIN agenda /\ agenda'[i] = agenda[i + o] /\ i \in Nat /\ i > 0
    /\ \A j \in DOMAIN agenda : IsPosition(agenda[j]) =>
          j - o \in DOMAIN agenda' /\ agenda'[j - o] = agenda[j]

LEMMA PastMoves ==
    ASSUME TypeInv, NEW did \in DidType, NEW o, Moves(o), o = 0 => pending' = pending,
           UNCHANGED <<tree, nodes, refs>>,
           Ahead(did), Behind(did), Walked(did), CallsGiven(did)
    PROVE  /\ Ahead(did)' /\ Behind(did)' /\ Walked(did)' /\ CallsGiven(did)'
           /\ DecoratorsNext(did) => DecoratorsNext(did)'
           /\ DecoratorsGiven(did) => DecoratorsGiven(did)'
<1>1. Scope' = Scope
  BY ScopeStays
<1>2. ASSUME NEW i \in DOMAIN agenda'
      PROVE  i + o \in DOMAIN agenda /\ agenda'[i] = agenda[i + o]
  BY DEF Moves
<1>3. \A i, j \in DOMAIN agenda' : i + o = j + o => i = j
  BY DEF Moves
<1>4. \A q : Waits(q, "walk")' <=> Waits(q, "walk")
  <2>1. ASSUME NEW q, NEW i \in DOMAIN agenda', agenda'[i] = Frame("walk", q)
        PROVE  \E j \in DOMAIN agenda : agenda[j] = Frame("walk", q)
    BY <1>2, <2>1
  <2>2. ASSUME NEW q, NEW j \in DOMAIN agenda, agenda[j] = Frame("walk", q)
        PROVE  \E i \in DOMAIN agenda' : agenda'[i] = Frame("walk", q)
    <3>1. IsPosition(agenda[j])
      BY <2>2 DEF Frame, IsPosition, PositionDo
    <3> QED
      BY <2>2, <3>1 DEF Moves
  <2> QED
    BY <2>1, <2>2 DEF Waits, Frame
<1>5. Ahead(did)'
  <2>1. \A i \in DOMAIN agenda' :
           IsPosition(agenda'[i]) =>
              did[agenda'[i].at] = "no" /\ (agenda'[i].at # 1 => did[tree[agenda'[i].at].parent] # "no")
    BY <1>2 DEF Ahead
  <2>2. \A i, j \in DOMAIN agenda' :
           IsPosition(agenda'[i]) /\ IsPosition(agenda'[j]) /\ agenda'[i].at = agenda'[j].at => i = j
    BY <1>2, <1>3 DEF Ahead
  <2>3. \A p \in DOMAIN tree : p # 1 /\ did[p] # "no" => did[tree[p].parent] # "no"
    BY DEF Ahead
  <2>4. tree' = tree
    OBVIOUS
  <2> QED
    BY <2>1, <2>2, <2>3, <2>4 DEF Ahead, IsPosition
<1>6. Behind(did)'
  BY DEF Behind
<1>7. Walked(did)'
  BY <1>1, <1>4 DEF Walked, BodyOf, Children
<1>8. CallsGiven(did)'
  BY <1>1 DEF CallsGiven, Ref
<1>9. ASSUME DecoratorsNext(did) PROVE DecoratorsNext(did)'
  <2>1. CASE o = 0
    <3>1. \A i \in DOMAIN agenda' : i \in DOMAIN agenda /\ agenda'[i] = agenda[i]
      <4> SUFFICES ASSUME NEW i \in DOMAIN agenda' PROVE i \in DOMAIN agenda /\ agenda'[i] = agenda[i]
        OBVIOUS
      <4>1. i + 0 = i
        BY DEF Moves
      <4> QED
        BY <1>2, <2>1, <4>1
    <3>2. pending' = pending /\ tree' = tree
      BY <2>1
    <3> QED
      BY <1>9, <3>1, <3>2 DEF DecoratorsNext, IsPosition, Readable, Children
  <2>2. CASE o = 1
    <3>1. \A i \in DOMAIN agenda' : i + 1 # 1 /\ i + 1 \in DOMAIN agenda /\ agenda'[i] = agenda[i + 1]
      BY <2>2 DEF Moves
    <3> QED
      BY <1>9, <3>1 DEF DecoratorsNext, IsPosition
  <2> QED
    BY <2>1, <2>2 DEF Moves
<1>10. ASSUME DecoratorsGiven(did) PROVE DecoratorsGiven(did)'
  BY <1>10 DEF DecoratorsGiven, Readable, Children, Ref
<1> QED
  BY <1>5, <1>6, <1>7, <1>8, <1>9, <1>10

LEMMA NoHandlerKeeps ==
    ASSUME TypeInv, FileFirst, Nesting, ReferencesOwned, UNCHANGED <<tree, nodes, edges, refs>>
    PROVE  FileFirst' /\ Nesting' /\ ReferencesOwned'
<1>1. Scope' = Scope
  BY ScopeStays
<1>2. FileFirst'
  BY DEF FileFirst, FileId, NodeId
<1>3. Nesting'
  BY <1>1 DEF Nesting
<1>4. ReferencesOwned'
  BY <1>1 DEF ReferencesOwned
<1> QED
  BY <1>2, <1>3, <1>4

\* Leaving a scope and the end of a decorated definition.
LEMMA LeavingKeeps ==
    ASSUME ExtractInv, LeaveScope \/ ClearPending
    PROVE  ExtractInv'
<1>1. /\ TypeInv /\ FileFirst /\ Hanging /\ Nesting /\ ReferencesOwned
      /\ outcome = "visiting" /\ agenda # <<>> /\ agenda' = Tail(agenda)
      /\ UNCHANGED <<tree, nodes, edges, refs, outcome>>
  BY DEF ExtractInv, LeaveScope, ClearPending, Handling
<1>2. PICK did \in DidType : Past(did)
  BY <1>1 DEF ExtractInv
<1>3. /\ Stacked(agenda, node_stack, Scope)
      /\ Ahead(did) /\ Behind(did) /\ Walked(did) /\ CallsGiven(did)
      /\ OneDefinition => DecoratorsNext(did) /\ DecoratorsGiven(did)
  BY <1>2 DEF Past
<1>4. Stacked(agenda', node_stack', Scope') /\ (LeaveScope => Len(node_stack) > 0)
  BY <1>1, <1>3, StackedLeft
<1>5. Do \in {"pop", "clear"}
  BY <1>1, HandlerIs DEF LeaveScope, ClearPending
<1>6. Moves(1)
  <2>1. agenda \in Seq(FrameType)
    BY <1>1 DEF TypeInv
  <2>2. /\ Len(agenda) \in Nat /\ DOMAIN agenda = 1 .. Len(agenda)
        /\ DOMAIN agenda' = 1 .. Len(agenda) - 1
        /\ \A i \in 1 .. Len(agenda) - 1 : agenda'[i] = agenda[i + 1]
        /\ agenda[1] = Head(agenda)
    BY <1>1, <2>1, LenProperties, HeadTailProperties
  <2>3. ~IsPosition(agenda[1])
    BY <1>5, <2>2 DEF IsPosition, PositionDo, Do
  <2>4. ASSUME NEW i \in DOMAIN agenda'
        PROVE  i + 1 \in DOMAIN agenda /\ agenda'[i] = agenda[i + 1] /\ i \in Nat /\ i > 0
    BY <2>2
  <2>5. ASSUME NEW j \in DOMAIN agenda, IsPosition(agenda[j])
        PROVE  j - 1 \in DOMAIN agenda' /\ agenda'[j - 1] = agenda[j]
    <3>1. j # 1
      BY <2>3, <2>5
    <3>2. j - 1 \in 1 .. Len(agenda) - 1 /\ (j - 1) + 1 = j
      BY <2>2, <3>1
    <3> QED
      BY <2>2, <3>2
  <2> QED
    BY <2>4, <2>5 DEF Moves
<1>7. /\ Ahead(did)' /\ Behind(did)' /\ Walked(did)' /\ CallsGiven(did)'
      /\ OneDefinition => DecoratorsNext(did)' /\ DecoratorsGiven(did)'
  BY <1>1, <1>3, <1>6, PastMoves
<1>8. TypeInv'
  <2>1. FrameType' = FrameType /\ NodeType' = NodeType /\ RefType' = RefType
    BY <1>1, SameTypes
  <2>2. agenda' \in Seq(FrameType)
    BY <1>1, HeadTailProperties DEF TypeInv
  <2>3. node_stack' \in Seq(Id) /\ \A i \in DOMAIN node_stack' : \E j \in DOMAIN node_stack : node_stack'[i] = node_stack[j]
    <3>1. CASE ClearPending
      BY <1>1, <3>1 DEF ClearPending, TypeInv
    <3>2. CASE LeaveScope
      <4>1. /\ node_stack' = SubSeq(node_stack, 1, Len(node_stack) - 1)
            /\ node_stack \in Seq(Id) /\ Len(node_stack) \in Nat /\ Len(node_stack) > 0
            /\ DOMAIN node_stack = 1 .. Len(node_stack)
        BY <1>1, <1>4, <3>2, LenProperties DEF LeaveScope, TypeInv
      <4>2. \A i \in 1 .. Len(node_stack) - 1 : node_stack[i] \in Id
        BY <4>1, ElementOfSeq
      <4>3. node_stack' \in Seq(Id)
        BY <4>1, <4>2, SubSeqProperties
      <4>4. /\ Len(node_stack') = IF 1 <= Len(node_stack) - 1 THEN Len(node_stack) - 1 - 1 + 1 ELSE 0
            /\ \A i \in 1 .. Len(node_stack') : node_stack'[i] = node_stack[1 + i - 1]
        BY <4>1, <4>2, SubSeqProperties
      <4>5. DOMAIN node_stack' = 1 .. Len(node_stack')
        BY <4>3, LenProperties
      <4>6. ASSUME NEW i \in DOMAIN node_stack' PROVE 1 + i - 1 \in DOMAIN node_stack
        BY <4>1, <4>4, <4>5
      <4> QED
        BY <4>3, <4>4, <4>5, <4>6
    <3> QED
      BY <3>1, <3>2
  <2>4. pending' \in Seq({p \in DOMAIN tree : tree[p].t = "decorator"})
    <3>1. pending' = pending \/ pending' = <<>>
      BY DEF LeaveScope, ClearPending
    <3> DEFINE D == {p \in DOMAIN tree : tree[p].t = "decorator"}
    <3>2. pending \in Seq(D)
      BY <1>1 DEF TypeInv
    <3> HIDE DEF D
    <3>3. <<>> \in Seq(D)
      OBVIOUS
    <3>4. CASE pending' = <<>>
      BY <3>3, <3>4 DEF D
    <3>5. CASE pending' = pending
      BY <3>2, <3>5 DEF D
    <3> QED
      BY <3>1, <3>4, <3>5
  <2> QED
    BY <1>1, <2>1, <2>2, <2>3, <2>4 DEF TypeInv
<1>9. Hanging'
  <2>1. \A i \in DOMAIN node_stack' : \E j \in DOMAIN node_stack : node_stack'[i] = node_stack[j]
    <3>1. CASE ClearPending
      BY <3>1 DEF ClearPending
    <3>2. CASE LeaveScope
      <4>1. /\ node_stack' = SubSeq(node_stack, 1, Len(node_stack) - 1)
            /\ node_stack \in Seq(Id) /\ Len(node_stack) \in Nat
            /\ DOMAIN node_stack = 1 .. Len(node_stack)
        BY <1>1, <3>2, LenProperties DEF LeaveScope, TypeInv
      <4>2. \A i \in 1 .. Len(node_stack) - 1 : node_stack[i] \in Id
        BY <4>1, ElementOfSeq
      <4>4. /\ node_stack' \in Seq(Id)
            /\ Len(node_stack') = IF 1 <= Len(node_stack) - 1 THEN Len(node_stack) - 1 - 1 + 1 ELSE 0
            /\ \A i \in 1 .. Len(node_stack') : node_stack'[i] = node_stack[1 + i - 1]
        BY <4>1, <4>2, SubSeqProperties
      <4>5. DOMAIN node_stack' = 1 .. Len(node_stack')
        BY <4>4, LenProperties
      <4>6. ASSUME NEW i \in DOMAIN node_stack' PROVE 1 + i - 1 \in DOMAIN node_stack
        BY <4>1, <4>4, <4>5
      <4> QED
        BY <4>4, <4>5, <4>6
    <3> QED
      BY <3>1, <3>2
  <2> QED
    BY <1>1, <2>1 DEF Hanging, Known
<1>10. FileFirst' /\ Nesting' /\ ReferencesOwned'
  BY <1>1, NoHandlerKeeps
<1>11. OneDefinition' = OneDefinition /\ DidType' = DidType
  BY <1>1 DEF OneDefinition, DidType
<1>12. Past(did)'
  BY <1>4, <1>7, <1>11 DEF Past
<1> QED
  BY <1>1, <1>8, <1>9, <1>10, <1>11, <1>12 DEF ExtractInv

\* The end, an exception, or nothing at all.
LEMMA EndingKeeps ==
    ASSUME ExtractInv, Finish \/ Raise \/ UNCHANGED vars
    PROVE  ExtractInv'
<1>1. /\ TypeInv /\ FileFirst /\ Hanging /\ Nesting /\ ReferencesOwned
      /\ UNCHANGED <<tree, node_stack, nodes, edges, refs, pending>>
  BY DEF ExtractInv, Finish, Raise, vars
<1>2. FileFirst' /\ Nesting' /\ ReferencesOwned' /\ Hanging'
  BY <1>1, NoHandlerKeeps DEF Hanging, Known
<1>3. OneDefinition' = OneDefinition /\ DidType' = DidType
  BY <1>1 DEF OneDefinition, DidType
<1>4. FrameType' = FrameType /\ NodeType' = NodeType /\ RefType' = RefType
  BY <1>1, SameTypes
<1>5. CASE Raise
  <2>1. outcome' = "partial" /\ agenda' = <<>>
    BY <1>5 DEF Raise
  <2>2. TypeInv'
    BY <1>1, <1>4, <2>1 DEF TypeInv
  <2> QED
    BY <1>2, <2>1, <2>2 DEF ExtractInv
<1>6. CASE Finish \/ UNCHANGED vars
  <2>1. /\ agenda' = agenda
        /\ outcome' = outcome \/ (outcome = "visiting" /\ outcome' = "ok" /\ agenda = <<>>)
    BY <1>6 DEF Finish, vars
  <2>2. TypeInv'
    BY <1>1, <1>4, <2>1 DEF TypeInv
  <2>3. outcome' # "visiting" => agenda' = <<>>
    BY <2>1 DEF ExtractInv
  <2>4. ASSUME outcome' # "partial" PROVE \E did \in DidType : Past(did)'
    <3>1. PICK did \in DidType : Past(did)
      BY <2>1, <2>4 DEF ExtractInv
    <3>2. /\ Stacked(agenda, node_stack, Scope)
          /\ Ahead(did) /\ Behind(did) /\ Walked(did) /\ CallsGiven(did)
          /\ OneDefinition => DecoratorsNext(did) /\ DecoratorsGiven(did)
      BY <3>1 DEF Past
    <3>3. Moves(0)
      <4>1. DOMAIN agenda = 1 .. Len(agenda) /\ Len(agenda) \in Nat
        BY <1>1, LenProperties DEF TypeInv
      <4>2. \A i \in DOMAIN agenda : i + 0 = i /\ i - 0 = i /\ i \in Nat /\ i > 0
        BY <4>1
      <4> QED
        BY <2>1, <4>2 DEF Moves
    <3>4. /\ Ahead(did)' /\ Behind(did)' /\ Walked(did)' /\ CallsGiven(did)'
          /\ OneDefinition => DecoratorsNext(did)' /\ DecoratorsGiven(did)'
      BY <1>1, <3>2, <3>3, PastMoves
    <3>5. Scope' = Scope
      BY <1>1, ScopeStays
    <3>6. Stacked(agenda', node_stack', Scope')
      BY <1>1, <2>1, <3>2, <3>5
    <3>7. Past(did)'
      BY <1>3, <3>4, <3>6 DEF Past
    <3> QED
      BY <3>7
  <2> QED
    BY <1>2, <1>3, <2>2, <2>3, <2>4 DEF ExtractInv
<1> QED
  BY <1>5, <1>6

LEMMA ExtractNext == ExtractInv /\ [Next]_vars => ExtractInv'
<1> SUFFICES ASSUME ExtractInv, [Next]_vars PROVE ExtractInv'
  OBVIOUS
<1>1. TypeInv
  BY DEF ExtractInv
<1>2. ASSUME outcome = "visiting", agenda # <<>>, IsPosition(Head(agenda)) PROVE node_stack # <<>>
  <2>1. Head(agenda) \in FrameType
    BY <1>1, <1>2 DEF TypeInv
  <2>2. Turn
    BY <1>2, <2>1 DEF Turn, Here, FrameType
  <2>3. Stacked(agenda, node_stack, Scope)
    BY <1>2 DEF ExtractInv, Past
  <2> QED
    BY <1>1, <2>2, <2>3, TopScope
<1>3. CASE Next
  <2>1. \/ \E new, more : Handles(new, more)
        \/ LeaveScope \/ ClearPending \/ Raise \/ Finish
    BY <1>1, <1>2, <1>3, EveryStep
  <2> QED
    BY <2>1, HandlesKeep, LeavingKeeps, EndingKeeps
<1>4. CASE UNCHANGED vars
  BY <1>4, EndingKeeps
<1> QED
  BY <1>3, <1>4

\* The visitor keeps the invariant in every state.
THEOREM Extracting == Spec => []ExtractInv
  BY ExtractInit, ExtractNext, PTL DEF Spec

-----------------------------------------------------------------------------
(* The theorems. *)

\* The rows are of the kinds the tables know, and the stack holds node ids
\* (_create_node, the pushes and pops of node_stack).
THEOREM Typed == Spec => []TypeOK
<1>1. ASSUME ExtractInv PROVE TypeOK
  <2>1. TypeInv /\ Hanging
    BY <1>1 DEF ExtractInv
  <2>2. IsTree(tree)
    BY <2>1, ExtractorAssumption DEF TypeInv
  <2>3. ASSUME NEW i \in DOMAIN agenda
        PROVE  /\ agenda[i].do \in {"visit", "walk", "function", "member", "pop", "clear"}
               /\ agenda[i].at \in DOMAIN tree \cup {0}
    <3>1. agenda[i] \in FrameType
      BY <2>1 DEF TypeInv
    <3> QED
      BY <3>1 DEF FrameType, IsPosition, PositionDo
  <2>4. ASSUME NEW i \in DOMAIN nodes PROVE nodes[i].kind \in NodeKind /\ nodes[i].at \in DOMAIN tree
    <3>1. nodes[i] \in NodeType
      BY <2>1 DEF TypeInv
    <3> QED
      BY <3>1 DEF NodeType
  <2>5. ASSUME NEW i \in DOMAIN refs PROVE refs[i].kind \in RefKind /\ refs[i].at \in DOMAIN tree
    <3>1. refs[i] \in RefType
      BY <2>1 DEF TypeInv
    <3> QED
      BY <3>1 DEF RefType
  <2>6. \A i \in DOMAIN pending : tree[pending[i]].t = "decorator"
    <3> DEFINE D == {p \in DOMAIN tree : tree[p].t = "decorator"}
    <3>1. pending \in Seq(D)
      BY <2>1 DEF TypeInv
    <3> HIDE DEF D
    <3>2. \A i \in DOMAIN pending : pending[i] \in D
      BY <3>1
    <3> QED
      BY <3>2 DEF D
  <2> QED
    BY <2>1, <2>2, <2>3, <2>4, <2>5, <2>6 DEF TypeOK, TypeInv, Hanging, Known
<1> QED
  BY <1>1, Extracting, PTL

\* What is returned, also after an exception, is a whole: edges and references
\* hang on returned nodes (extract).
THEOREM Whole == Spec => []SelfContained
<1>1. ExtractInv => SelfContained
  BY DEF ExtractInv, Hanging, Known, SelfContained
<1> QED
  BY <1>1, Extracting, PTL

\* Containment follows the nesting of the definitions in the source, in every
\* state (_create_node).
THEOREM Nested == Spec => []Nesting
<1>1. ExtractInv => Nesting
  BY DEF ExtractInv
<1> QED
  BY <1>1, Extracting, PTL

\* Every mention belongs to the definition it stands in (_extract_call,
\* _extract_inheritance, _find_node_by_name).
THEOREM Owned == Spec => []ReferencesOwned
<1>1. ExtractInv => ReferencesOwned
  BY DEF ExtractInv
<1> QED
  BY <1>1, Extracting, PTL

\* Every call in the body of a stored function, at any depth, gives exactly one
\* reference, and the function is its caller (_walk_for_calls).
THEOREM EveryCall == Spec => []BodyCallsFound
<1>1. ASSUME ExtractInv, outcome = "ok" PROVE BodyCallsFound
  <2>1. TypeInv /\ FileFirst /\ agenda = <<>>
    BY <1>1 DEF ExtractInv
  <2>2. PICK did \in DidType : Past(did)
    BY <1>1 DEF ExtractInv
  <2> QED
    BY <2>1, <2>2, CallsFound DEF Past
<1>2. ExtractInv => BodyCallsFound
  BY <1>1 DEF BodyCallsFound
<1> QED
  BY <1>2, Extracting, PTL

\* A definition with decorators keeps all of them whose name can be read
\* (_handle_decorated_definition, _emit_decorates_refs).
THEOREM EveryDecorator == OneDefinition => (Spec => []DecoratorsKept)
<1> SUFFICES ASSUME OneDefinition PROVE Spec => []DecoratorsKept
  OBVIOUS
<1>1. ASSUME ExtractInv, outcome = "ok" PROVE DecoratorsKept
  <2>1. TypeInv /\ FileFirst
    BY <1>1 DEF ExtractInv
  <2>2. PICK did \in DidType : Past(did)
    BY <1>1 DEF ExtractInv
  <2> QED
    BY <2>1, <2>2, DecoratorsFound DEF Past
<1>2. ExtractInv => DecoratorsKept
  BY <1>1 DEF DecoratorsKept
<1> QED
  BY <1>2, Extracting, PTL

=============================================================================
