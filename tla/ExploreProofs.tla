---------------------------- MODULE ExploreProofs ----------------------------
(***************************************************************************)
(* What holds of every answer of explore(), for every project: the call    *)
(* chain is one (find_flow_chain), no selected file is lost, none that was *)
(* asked for is left out while there is room, and how far the texts keep   *)
(* within their budgets.                                                   *)
(***************************************************************************)
EXTENDS ExploreProps, Induction, FiniteSetTheorems, SequenceTheorems

-----------------------------------------------------------------------------
(* Chains. *)

\* The way from the seed to n along the tree par.
Way(par, s, p, n) ==
    /\ Len(p) \in Nat \ {0} /\ DOMAIN p = 1 .. Len(p) /\ p \in Seq(DOMAIN par)
    /\ p[1] = s /\ p[Len(p)] = n
    /\ \A i \in 2 .. Len(p) : p[i] # s /\ par[p[i]] = p[i - 1]
    /\ \A i, j \in DOMAIN p : p[i] = p[j] => i = j

\* Two ways to a symbol agree, counted from its end.
LEMMA WaysAgree ==
    ASSUME NEW par, NEW s, NEW n, NEW p, NEW q, Way(par, s, p, n), Way(par, s, q, n)
    PROVE  \A k \in Nat : k < Len(p) => k < Len(q) /\ p[Len(p) - k] = q[Len(q) - k]
<1> DEFINE K == {k \in Nat : k < Len(p) => k < Len(q) /\ p[Len(p) - k] = q[Len(q) - k]}
<1>1. /\ Len(p) \in Nat \ {0} /\ Len(q) \in Nat \ {0}
      /\ p[1] = s /\ p[Len(p)] = n /\ q[1] = s /\ q[Len(q)] = n
      /\ \A i \in 2 .. Len(p) : p[i] # s /\ par[p[i]] = p[i - 1]
      /\ \A i \in 2 .. Len(q) : q[i] # s /\ par[q[i]] = q[i - 1]
  BY DEF Way
<1>2. 0 \in K
  BY <1>1
<1>3. ASSUME NEW k \in Nat, k \in K PROVE k + 1 \in K
  <2> SUFFICES ASSUME k + 1 < Len(p)
               PROVE  k + 1 < Len(q) /\ p[Len(p) - (k + 1)] = q[Len(q) - (k + 1)]
    OBVIOUS
  <2>1. k < Len(q) /\ p[Len(p) - k] = q[Len(q) - k]
    BY <1>1, <1>3
  <2>2. Len(p) - k \in 2 .. Len(p) /\ Len(p) - k - 1 = Len(p) - (k + 1)
    BY <1>1
  <2>3. p[Len(p) - k] # s /\ par[p[Len(p) - k]] = p[Len(p) - (k + 1)]
    BY <1>1, <2>2
  <2>4. Len(q) - k # 1
    BY <1>1, <2>1, <2>3
  <2>5. Len(q) - k \in 2 .. Len(q) /\ Len(q) - k - 1 = Len(q) - (k + 1) /\ k + 1 < Len(q)
    BY <1>1, <2>1, <2>4
  <2>6. par[q[Len(q) - k]] = q[Len(q) - (k + 1)]
    BY <1>1, <2>5
  <2> QED
    BY <2>1, <2>3, <2>5, <2>6
<1> HIDE DEF K
<1>4. \A k \in Nat : k \in K
  BY <1>2, <1>3, SetInduction
<1> QED
  BY <1>4 DEF K

LEMMA OneWay ==
    ASSUME NEW par, NEW s, NEW n, NEW p, NEW q, Way(par, s, p, n), Way(par, s, q, n)
    PROVE  p = q
<1>1. /\ Len(p) \in Nat \ {0} /\ DOMAIN p = 1 .. Len(p) /\ p \in Seq(DOMAIN par)
      /\ Len(q) \in Nat \ {0} /\ DOMAIN q = 1 .. Len(q) /\ q \in Seq(DOMAIN par)
  BY DEF Way
<1>2. Len(p) - 1 < Len(q) /\ Len(q) - 1 < Len(p)
  <2>1. Len(p) - 1 \in Nat /\ Len(q) - 1 \in Nat /\ Len(p) - 1 < Len(p) /\ Len(q) - 1 < Len(q)
    BY <1>1, SMTT(30)
  <2> QED
    BY <2>1, WaysAgree
<1>3. Len(p) = Len(q)
  <2>1. \A a, b \in Nat : a - 1 < b /\ b - 1 < a => a = b
    OBVIOUS
  <2> QED
    BY <1>1, <1>2, <2>1
<1>4. ASSUME NEW i \in DOMAIN p PROVE p[i] = q[i]
  <2>1. Len(p) - i \in Nat /\ Len(p) - i < Len(p) /\ Len(p) - (Len(p) - i) = i
    BY <1>1
  <2> QED
    BY <1>3, <2>1, WaysAgree
<1> QED
  BY <1>1, <1>3, <1>4, SeqEqual

\* The way to the seed is the seed alone.
LEMMA WayHome ==
    ASSUME NEW par, NEW s, NEW p, Way(par, s, p, s)
    PROVE  p = <<s>>
<1>1. /\ Len(p) \in Nat \ {0} /\ DOMAIN p = 1 .. Len(p) /\ p \in Seq(DOMAIN par)
      /\ p[1] = s /\ p[Len(p)] = s
      /\ \A i, j \in DOMAIN p : p[i] = p[j] => i = j
  BY DEF Way
<1>2. Len(p) = 1
  BY <1>1
<1>3. s \in DOMAIN par
  BY <1>1
<1>4. <<s>> \in Seq(DOMAIN par) /\ Len(<<s>>) = 1 /\ <<s>>[1] = s
  BY <1>3
<1>5. \A i \in 1 .. Len(p) : p[i] = <<s>>[i]
  BY <1>1, <1>2, <1>4
<1> QED
  BY <1>1, <1>2, <1>4, <1>5, SeqEqual

\* The way to a symbol without its last step leads to its parent.
LEMMA WayBack ==
    ASSUME NEW par, NEW s, NEW n, NEW p, Way(par, s, p, n), n # s
    PROVE  \E q : Way(par, s, q, par[n]) /\ p = Append(q, n)
<1> DEFINE m == Len(p) - 1
           q == SubSeq(p, 1, m)
<1>1. /\ Len(p) \in Nat \ {0} /\ DOMAIN p = 1 .. Len(p) /\ p \in Seq(DOMAIN par)
      /\ p[1] = s /\ p[Len(p)] = n
      /\ \A i \in 2 .. Len(p) : p[i] # s /\ par[p[i]] = p[i - 1]
      /\ \A i, j \in DOMAIN p : p[i] = p[j] => i = j
  BY DEF Way
<1>2. m \in Nat \ {0} /\ Len(p) \in 2 .. Len(p) /\ Len(p) = m + 1
  BY <1>1
<1>3. q \in Seq(DOMAIN par) /\ Len(q) = m /\ DOMAIN q = 1 .. m /\ \A i \in 1 .. m : q[i] = p[i]
  <2> HIDE DEF m
  <2> QED
    BY <1>1, <1>2
<1> HIDE DEF q, m
<1>4. Way(par, s, q, par[n])
  <2>1. par[n] = p[m]
    <3>1. par[p[Len(p)]] = p[Len(p) - 1]
      BY <1>1, <1>2
    <3> QED
      BY <1>1, <1>2, <3>1
  <2>2. q[1] = s /\ q[m] = par[n]
    BY <1>1, <1>2, <1>3, <2>1
  <2>3. \A i \in 2 .. m : q[i] # s /\ par[q[i]] = q[i - 1]
    <3> SUFFICES ASSUME NEW i \in 2 .. m PROVE q[i] # s /\ par[q[i]] = q[i - 1]
      OBVIOUS
    <3>1. i \in 2 .. Len(p) /\ i \in 1 .. m /\ i - 1 \in 1 .. m
      BY <1>2
    <3> QED
      BY <1>1, <1>3, <3>1
  <2>4. \A i, j \in 1 .. m : q[i] = q[j] => i = j
    <3>1. 1 .. m \subseteq DOMAIN p
      BY <1>1, <1>2
    <3> QED
      BY <1>1, <1>3, <3>1
  <2> QED
    BY <1>2, <1>3, <2>2, <2>3, <2>4 DEF Way
<1>5. p = Append(q, n)
  <2>1. Append(q, n) \in Seq(DOMAIN par \cup {n}) /\ p \in Seq(DOMAIN par \cup {n})
        /\ Len(Append(q, n)) = m + 1 /\ Append(q, n)[m + 1] = n /\ \A i \in 1 .. m : Append(q, n)[i] = q[i]
    BY <1>1, <1>2, <1>3
  <2>2. \A i \in 1 .. Len(p) : p[i] = Append(q, n)[i]
    <3>1. \A i \in 1 .. Len(p) : i \in 1 .. m \/ i = m + 1
      BY <1>2
    <3> QED
      BY <1>1, <1>2, <1>3, <2>1, <3>1
  <2> QED
    BY <1>2, <2>1, <2>2, SeqEqual
<1> QED
  BY <1>4, <1>5

-----------------------------------------------------------------------------
(* The chain of the search. *)

\* Every symbol found has a way to it.
Rooted(par, s) == \A n \in DOMAIN par : \E p : Way(par, s, p, n)

Climbing(par, s, g) ==
    g = [n \in DOMAIN par |-> IF n = s THEN <<n>> ELSE Append(g[par[n]], n)]

LEMMA ClimbingExists ==
    ASSUME NEW par, NEW s, Rooted(par, s)
    PROVE  \E g : Climbing(par, s, g)
<1> DEFINE g == [n \in DOMAIN par |-> CHOOSE p : Way(par, s, p, n)]
<1>1. ASSUME NEW n \in DOMAIN par PROVE Way(par, s, g[n], n)
  BY DEF Rooted
<1>2. ASSUME NEW n \in DOMAIN par PROVE g[n] = IF n = s THEN <<n>> ELSE Append(g[par[n]], n)
  <2>1. Way(par, s, g[n], n)
    BY <1>1
  <2> HIDE DEF g
  <2>2. CASE n = s
    BY <2>1, <2>2, WayHome
  <2>3. CASE n # s
    <3>1. PICK q : Way(par, s, q, par[n]) /\ g[n] = Append(q, n)
      BY <2>1, <2>3, WayBack
    <3>2. par[n] \in DOMAIN par
      BY <3>1 DEF Way
    <3>3. Way(par, s, g[par[n]], par[n])
      BY <1>1, <3>2
    <3>4. g[par[n]] = q
      BY <3>1, <3>3, OneWay
    <3> QED
      BY <2>3, <3>1, <3>4
  <2> QED
    BY <2>2, <2>3
<1>3. g = [n \in DOMAIN par |-> IF n = s THEN <<n>> ELSE Append(g[par[n]], n)]
  <2> DEFINE h == [n \in DOMAIN par |-> IF n = s THEN <<n>> ELSE Append(g[par[n]], n)]
  <2>1. DOMAIN g = DOMAIN par /\ g = [n \in DOMAIN g |-> g[n]]
    OBVIOUS
  <2>2. \A n \in DOMAIN par : h[n] = g[n]
    BY <1>2
  <2>3. DOMAIN h = DOMAIN par /\ h = [n \in DOMAIN h |-> h[n]]
    OBVIOUS
  <2> HIDE DEF g, h
  <2>4. g = h
    BY <2>1, <2>2, <2>3
  <2> QED
    BY <2>4 DEF h
<1> HIDE DEF g
<1> QED
  BY <1>3 DEF Climbing

\* What climbs from a symbol to the seed turns back along the way.
LEMMA ClimbsWay ==
    ASSUME NEW par, NEW s, NEW g, Climbing(par, s, g), NEW n, NEW p, Way(par, s, p, n)
    PROVE  g[n] = p
<1> DEFINE K == {k \in Nat : \A m, q : Way(par, s, q, m) /\ Len(q) = k => g[m] = q}
<1>1. 0 \in K
  BY DEF Way
<1>2. ASSUME NEW k \in Nat, k \in K PROVE k + 1 \in K
  <2> SUFFICES ASSUME NEW m, NEW q, Way(par, s, q, m), Len(q) = k + 1 PROVE g[m] = q
    OBVIOUS
  <2>1. m \in DOMAIN par
    BY DEF Way
  <2>2. g[m] = IF m = s THEN <<m>> ELSE Append(g[par[m]], m)
    BY <2>1 DEF Climbing
  <2>3. CASE m # s
    <3>1. PICK r : Way(par, s, r, par[m]) /\ q = Append(r, m)
      BY <2>3, WayBack
    <3>2. r \in Seq(DOMAIN par) /\ Len(r) \in Nat
      BY <3>1 DEF Way
    <3>3. Len(q) = Len(r) + 1
      BY <3>1, <3>2
    <3>4. Len(r) = k
      BY <3>2, <3>3
    <3>5. g[par[m]] = r
      BY <1>2, <3>1, <3>4
    <3> QED
      BY <2>2, <2>3, <3>1, <3>5
  <2>4. CASE m = s
    BY <2>2, <2>4, WayHome
  <2> QED
    BY <2>3, <2>4
<1> HIDE DEF K
<1>3. \A k \in Nat : k \in K
  BY <1>1, <1>2, SetInduction
<1>4. Len(p) \in Nat
  BY DEF Way
<1> QED
  BY <1>3, <1>4 DEF K

\* The chain is the way the search came.
LEMMA ChainIsWay ==
    ASSUME Rooted(parent, seed), NEW n, NEW p, Way(parent, seed, p, n)
    PROVE  Chain(n) = p
<1> DEFINE g == CHOOSE g : g = [m \in DOMAIN parent |-> IF m = seed THEN <<m>> ELSE Append(g[parent[m]], m)]
<1>1. \E h : h = [m \in DOMAIN parent |-> IF m = seed THEN <<m>> ELSE Append(h[parent[m]], m)]
  BY ClimbingExists, SMTT(30) DEF Climbing
<1>2. g = [m \in DOMAIN parent |-> IF m = seed THEN <<m>> ELSE Append(g[parent[m]], m)]
  BY <1>1
<1>3. Chain(n) = g[n]
  BY DEF Chain
<1> HIDE DEF g
<1>4. Climbing(parent, seed, g)
  BY <1>2 DEF Climbing
<1> QED
  BY <1>3, <1>4, ClimbsWay

-----------------------------------------------------------------------------
(* One symbol's callees are found. *)

LEMMA GrownIs ==
    ASSUME NEW par, NEW item, NEW found
    PROVE  /\ DOMAIN Grown(par, found, item) = DOMAIN par \cup found
           /\ \A n \in DOMAIN par : Grown(par, found, item)[n] = par[n]
           /\ \A c \in found \ DOMAIN par : Grown(par, found, item)[c] = item
BY DEF Grown

\* The ways there were remain.
LEMMA WayGrows ==
    ASSUME NEW par, NEW s, NEW item, NEW found, found \cap DOMAIN par = {},
           NEW n, NEW p, Way(par, s, p, n)
    PROVE  Way(Grown(par, found, item), s, p, n)
<1> DEFINE par2 == Grown(par, found, item)
<1>1. DOMAIN par2 = DOMAIN par \cup found /\ \A m \in DOMAIN par : par2[m] = par[m]
  BY GrownIs
<1> HIDE DEF par2
<1>2. /\ Len(p) \in Nat \ {0} /\ DOMAIN p = 1 .. Len(p) /\ p \in Seq(DOMAIN par)
      /\ p[1] = s /\ p[Len(p)] = n
      /\ \A i \in 2 .. Len(p) : p[i] # s /\ par[p[i]] = p[i - 1]
      /\ \A i, j \in DOMAIN p : p[i] = p[j] => i = j
  BY DEF Way
<1>3. p \in Seq(DOMAIN par2)
  BY <1>1, <1>2
<1>4. \A i \in 2 .. Len(p) : p[i] # s /\ par2[p[i]] = p[i - 1]
  <2>1. \A i \in 2 .. Len(p) : p[i] \in DOMAIN par
    BY <1>2
  <2> QED
    BY <1>1, <1>2, <2>1
<1>5. Way(par2, s, p, n)
  BY <1>2, <1>3, <1>4 DEF Way
<1> QED
  BY <1>5 DEF par2

\* A callee is reached by one step more.
LEMMA WayMore ==
    ASSUME NEW par, NEW s, NEW item, NEW found, found \cap DOMAIN par = {},
           NEW p, Way(par, s, p, item), NEW c \in found
    PROVE  Way(Grown(par, found, item), s, Append(p, c), c)
<1> DEFINE par2 == Grown(par, found, item)
           r == Append(p, c)
           m == Len(p)
<1>1. DOMAIN par2 = DOMAIN par \cup found /\ par2[c] = item
  <2>1. c \in found \ DOMAIN par
    OBVIOUS
  <2> QED
    BY <2>1 DEF Grown
<1>2. Way(par2, s, p, item)
  BY WayGrows
<1> HIDE DEF par2
<1>3. /\ m \in Nat \ {0} /\ DOMAIN p = 1 .. m /\ p \in Seq(DOMAIN par2)
      /\ p[1] = s /\ p[m] = item
      /\ \A i \in 2 .. m : p[i] # s /\ par2[p[i]] = p[i - 1]
      /\ \A i, j \in DOMAIN p : p[i] = p[j] => i = j
  BY <1>2 DEF Way
<1>4. p \in Seq(DOMAIN par) /\ s \in DOMAIN par
  <2>1. p \in Seq(DOMAIN par) /\ p[1] = s /\ 1 \in DOMAIN p
    BY <1>3 DEF Way
  <2> QED
    BY <2>1
<1>5. c \notin DOMAIN par /\ c # s /\ \A i \in 1 .. m : p[i] # c
  BY <1>3, <1>4
<1>6. r \in Seq(DOMAIN par2) /\ Len(r) = m + 1 /\ DOMAIN r = 1 .. m + 1
      /\ r[m + 1] = c /\ \A i \in 1 .. m : r[i] = p[i]
  BY <1>1, <1>3
<1> HIDE DEF r, m
<1>7. \A i \in 2 .. m + 1 : r[i] # s /\ par2[r[i]] = r[i - 1]
  <2> SUFFICES ASSUME NEW i \in 2 .. m + 1 PROVE r[i] # s /\ par2[r[i]] = r[i - 1]
    OBVIOUS
  <2>1. CASE i = m + 1
    <3>1. r[i] = c /\ r[i - 1] = item
      BY <1>3, <1>6, <2>1
    <3> QED
      BY <1>1, <1>5, <3>1
  <2>2. CASE i # m + 1
    <3>1. i \in 2 .. m /\ i \in 1 .. m /\ i - 1 \in 1 .. m
      BY <1>3, <2>2
    <3> QED
      BY <1>3, <1>6, <3>1
  <2> QED
    BY <2>1, <2>2
<1>8. \A i, j \in 1 .. m + 1 : r[i] = r[j] => i = j
  <2>1. \A i \in 1 .. m + 1 : i \in 1 .. m \/ i = m + 1
    BY <1>3
  <2> QED
    BY <1>3, <1>5, <1>6, <2>1, ZenonT(40)
<1>9. r[1] = s
  BY <1>3, <1>6
<1>10. Way(par2, s, r, c)
  BY <1>3, <1>6, <1>7, <1>8, <1>9 DEF Way
<1> QED
  BY <1>10 DEF par2, r

\* And there are no other ways.
LEMMA WaysAre ==
    ASSUME NEW par, NEW s, NEW item, NEW found, found \cap DOMAIN par = {},
           Rooted(par, s), item \in DOMAIN par,
           NEW n, NEW p, Way(Grown(par, found, item), s, p, n)
    PROVE  \/ Way(par, s, p, n)
           \/ n \in found /\ \E q : Way(par, s, q, item) /\ p = Append(q, n)
<1>1. n \in DOMAIN par \cup found
  <2>1. n \in DOMAIN Grown(par, found, item)
    BY DEF Way
  <2> QED
    BY <2>1, GrownIs
<1>2. CASE n \in DOMAIN par
  <2>1. PICK q : Way(par, s, q, n)
    BY <1>2 DEF Rooted
  <2>2. Way(Grown(par, found, item), s, q, n)
    BY <2>1, WayGrows
  <2>3. p = q
    BY <2>2, OneWay
  <2> QED
    BY <2>1, <2>3
<1>3. CASE n \in found
  <2>1. PICK q : Way(par, s, q, item)
    BY DEF Rooted
  <2>2. s \in DOMAIN par
    <3>1. q \in Seq(DOMAIN par) /\ q[1] = s /\ 1 \in DOMAIN q
      BY <2>1 DEF Way
    <3> QED
      BY <3>1
  <2>3. n # s /\ Grown(par, found, item)[n] = item
    <3>1. n \in found \ DOMAIN par
      BY <1>3
    <3> QED
      BY <2>2, <3>1 DEF Grown
  <2>4. PICK r : Way(Grown(par, found, item), s, r, item) /\ p = Append(r, n)
    BY <2>3, WayBack
  <2>5. Way(Grown(par, found, item), s, q, item)
    BY <2>1, WayGrows
  <2>6. r = q
    BY <2>4, <2>5, OneWay
  <2> QED
    BY <1>3, <2>1, <2>4, <2>6
<1> QED
  BY <1>1, <1>2, <1>3

-----------------------------------------------------------------------------
(* The search. *)

\* A way of calls from a named symbol, without a detour.
Sound(p) ==
    /\ p[1] \in named
    /\ \A i \in 1 .. Len(p) - 1 : <<p[i], p[i + 1]>> \in calls
    /\ \A i \in 1 .. Len(p) - MaxBridge : \E j \in i .. i + MaxBridge : p[j] \in named

\* An entry knows how long the way to its symbol is, and how many symbols at
\* its end are not named.
Knows(x, p) ==
    /\ Len(p) = x.depth + 1
    /\ x.streak < Len(p) /\ x.streak <= MaxBridge
    /\ p[Len(p) - x.streak] \in named

Searching ==
    /\ Rooted(parent, seed)
    /\ \A n, p : Way(parent, seed, p, n) => Sound(p)
    /\ \A i \in DOMAIN queue :
          /\ queue[i].depth # 0 => queue[i].depth <= MaxDepth - 1
          /\ \A p : Way(parent, seed, p, queue[i].id) => Knows(queue[i], p)
    /\ deep # NotDeep =>
          /\ deep.id \in named /\ deep.id \in DOMAIN parent
          /\ \A p : Way(parent, seed, p, deep.id) => Len(p) = deep.depth + 1 /\ Len(p) <= MaxDepth

FlowInv ==
    /\ IsFiniteSet(calls) /\ \A e \in calls : e = <<e[1], e[2]>>
    /\ seeds \subseteq named
    /\ queue \in Seq([id : DOMAIN parent, depth : Nat, streak : Nat])
    /\ deep.depth \in Nat
    /\ seed # NoSeed => Searching
    /\ FlowSound

LEMMA FlowStart ==
    ASSUME Init, IsFiniteSet(calls)
    PROVE  FlowInv
<1>1. seed = NoSeed /\ best = <<>> /\ deep.depth = 0
  BY DEF Init, FlowInit, NotDeep
<1>2. seeds \subseteq named /\ queue = <<>>
  BY DEF Init, FlowInit
<1>3. queue \in Seq([id : DOMAIN parent, depth : Nat, streak : Nat])
  BY <1>2
<1>4. \A e \in calls : e = <<e[1], e[2]>>
  <2>1. calls = {<<project.edges[i].source, project.edges[i].target>> :
                   i \in Sites(project.edges, LAMBDA e : e.kind = "calls")}
    BY DEF Init
  <2> SUFFICES ASSUME NEW e \in calls PROVE e = <<e[1], e[2]>>
    OBVIOUS
  <2>2. PICK i : e = <<project.edges[i].source, project.edges[i].target>>
    BY <2>1
  <2> QED
    BY <2>2
<1> QED
  BY <1>1, <1>2, <1>3, <1>4 DEF FlowInv, FlowSound

\* A search begins at a named symbol.
LEMMA Starts == FlowInv /\ StartTrace => FlowInv'
<1> SUFFICES ASSUME FlowInv, StartTrace PROVE FlowInv'
  OBVIOUS
<1>1. PICK s \in seeds : /\ seed' = s /\ seeds' = seeds \ {s}
                         /\ parent' = [n \in {s} |-> s]
                         /\ queue' = <<Entry(s, 0, 0)>>
  BY DEF StartTrace
<1>2. UNCHANGED <<calls, named, best>> /\ deep' = NotDeep
  BY DEF StartTrace
<1>3. s \in named
  BY <1>1 DEF FlowInv
<1>4. DOMAIN parent' = {s} /\ parent'[s] = s
  BY <1>1
<1>5. Way(parent', s, <<s>>, s)
  <2> DEFINE p == <<s>>
  <2>1. Len(p) = 1 /\ p[1] = s /\ p \in Seq({s}) /\ DOMAIN p = {1}
    OBVIOUS
  <2> HIDE DEF p
  <2>2. \A i \in 2 .. Len(p) : FALSE
    BY <2>1
  <2>3. Way(parent', s, p, s)
    BY <1>4, <2>1, <2>2 DEF Way
  <2> QED
    BY <2>3 DEF p
<1>6. ASSUME NEW n, NEW p, Way(parent', s, p, n) PROVE n = s /\ p = <<s>>
  <2>1. n \in DOMAIN parent'
    BY <1>6 DEF Way
  <2>2. n = s
    BY <1>4, <2>1
  <2>3. Way(parent', s, p, s)
    BY <1>6, <2>2
  <2> QED
    BY <2>2, <2>3, WayHome
<1>7. Sound(<<s>>)' /\ Knows(Entry(s, 0, 0), <<s>>)'
  <2>1. MaxBridge \in Nat
    BY FlowAssumption
  <2>2. Len(<<s>>) = 1 /\ <<s>>[1] = s
    OBVIOUS
  <2>3. s \in named'
    BY <1>2, <1>3
  <2> DEFINE p == <<s>>
  <2> HIDE DEF p
  <2>4. Len(p) = 1 /\ p[1] = s
    BY <2>2 DEF p
  <2>5. \A i \in 1 .. Len(p) - MaxBridge : \E j \in i .. i + MaxBridge : p[j] \in named'
    <3> SUFFICES ASSUME NEW i \in 1 .. Len(p) - MaxBridge
                 PROVE  \E j \in i .. i + MaxBridge : p[j] \in named'
      OBVIOUS
    <3>1. i = 1 /\ 1 \in i .. i + MaxBridge
      BY <2>1, <2>4
    <3> QED
      BY <2>3, <2>4, <3>1
  <2>6. Sound(p)'
    BY <2>3, <2>4, <2>5 DEF Sound
  <2>7. Knows(Entry(s, 0, 0), p)'
    BY <2>1, <2>3, <2>4 DEF Knows, Entry
  <2> QED
    BY <2>6, <2>7 DEF p
<1>8. Searching'
  <2>1. Rooted(parent', seed')
    BY <1>1, <1>4, <1>5 DEF Rooted
  <2>2. \A n, p : Way(parent', seed', p, n) => Sound(p)'
    BY <1>1, <1>6, <1>7
  <2>3. DOMAIN queue' = {1} /\ queue'[1] = Entry(s, 0, 0)
    BY <1>1
  <2>4. \A i \in DOMAIN queue' :
          /\ queue'[i].depth # 0 => queue'[i].depth <= MaxDepth - 1
          /\ \A p : Way(parent', seed', p, queue'[i].id) => Knows(queue[i], p)'
    <3> SUFFICES ASSUME NEW i \in DOMAIN queue'
                 PROVE  /\ queue'[i].depth # 0 => queue'[i].depth <= MaxDepth - 1
                        /\ \A p : Way(parent', seed', p, queue'[i].id) => Knows(queue[i], p)'
      OBVIOUS
    <3>1. queue'[i] = Entry(s, 0, 0) /\ queue'[i].depth = 0
      BY <2>3 DEF Entry
    <3>2. \A p : Knows(Entry(s, 0, 0), p)' => Knows(queue[i], p)'
      BY <3>1 DEF Knows
    <3> QED
      BY <1>1, <1>6, <1>7, <3>1, <3>2
  <2> QED
    BY <1>2, <2>1, <2>2, <2>4 DEF Searching
<1>9. queue' \in Seq([id : DOMAIN parent', depth : Nat, streak : Nat])
  <2>1. Entry(s, 0, 0) \in [id : DOMAIN parent', depth : Nat, streak : Nat]
    BY <1>4 DEF Entry
  <2> QED
    BY <1>1, <2>1
<1>10. /\ seeds' \subseteq named' /\ deep'.depth \in Nat
       /\ IsFiniteSet(calls') /\ \A e \in calls' : e = <<e[1], e[2]>>
  BY <1>1, <1>2 DEF FlowInv, NotDeep
<1>11. FlowSound'
  BY <1>2 DEF FlowInv, FlowSound
<1> QED
  BY <1>8, <1>9, <1>10, <1>11 DEF FlowInv

\* A way that is sound stays so with a callee that is named, or comes in a row
\* that is short enough.
LEMMA SoundMore ==
    ASSUME NEW q, Len(q) \in Nat \ {0}, NEW S, q \in Seq(S), Sound(q),
           NEW item, item.depth \in Nat, item.streak \in Nat, Knows(item, q),
           NEW c, <<q[Len(q)], c>> \in calls, Streak(item, c) <= MaxBridge
    PROVE  /\ Sound(Append(q, c))
           /\ Knows(Entry(c, item.depth + 1, Streak(item, c)), Append(q, c))
<1> DEFINE m == Len(q)
           r == Append(q, c)
           k == Streak(item, c)
<1>1. /\ m \in Nat \ {0} /\ Len(r) = m + 1 /\ r[m + 1] = c
      /\ \A i \in 1 .. m : r[i] = q[i]
  OBVIOUS
<1>2. MaxBridge \in Nat
  BY FlowAssumption
<1>3. k = IF c \in named THEN 0 ELSE item.streak + 1
  BY DEF Streak
<1>4. /\ m = item.depth + 1 /\ item.streak < m /\ q[m - item.streak] \in named
  BY DEF Knows
<1>5. /\ q[1] \in named
      /\ \A i \in 1 .. m - 1 : <<q[i], q[i + 1]>> \in calls
      /\ \A i \in 1 .. m - MaxBridge : \E j \in i .. i + MaxBridge : q[j] \in named
  BY DEF Sound
<1>6. k <= MaxBridge /\ <<q[m], c>> \in calls
  OBVIOUS
<1> HIDE DEF m, r, k
<1>7. k \in Nat /\ k < m + 1 /\ r[m + 1 - k] \in named
  <2>1. CASE c \in named
    BY <1>1, <1>3, <2>1
  <2>2. CASE c \notin named
    <3> DEFINE t == item.streak
    <3>1. t \in Nat /\ t < m /\ q[m - t] \in named /\ k = t + 1
      BY <1>3, <1>4, <2>2
    <3> HIDE DEF t
    <3>2. k \in Nat /\ k < m + 1 /\ m + 1 - k = m - t /\ m - t \in 1 .. m
      BY <1>1, <3>1
    <3> QED
      BY <1>1, <3>1, <3>2
  <2> QED
    BY <2>1, <2>2
<1>8. Knows(Entry(c, item.depth + 1, k), r)
  <2> DEFINE x == Entry(c, item.depth + 1, k)
  <2>1. x.depth = item.depth + 1 /\ x.streak = k
    BY DEF Entry
  <2> HIDE DEF x
  <2>2. Knows(x, r)
    BY <1>1, <1>4, <1>6, <1>7, <2>1 DEF Knows
  <2> QED
    BY <2>2 DEF x
<1>9. \A i \in 1 .. m : <<r[i], r[i + 1]>> \in calls
  <2> SUFFICES ASSUME NEW i \in 1 .. m PROVE <<r[i], r[i + 1]>> \in calls
    OBVIOUS
  <2>1. CASE i = m
    BY <1>1, <1>6, <2>1
  <2>2. CASE i # m
    <3>1. i \in 1 .. m - 1 /\ i + 1 \in 1 .. m
      BY <1>1, <2>2
    <3> QED
      BY <1>1, <1>5, <3>1
  <2> QED
    BY <2>1, <2>2
<1>10. ASSUME NEW i \in 1 .. m + 1 - MaxBridge
       PROVE  \E j \in i .. i + MaxBridge : r[j] \in named
  <2>1. CASE i = m + 1 - MaxBridge
    <3>1. m + 1 - k \in i .. i + MaxBridge
      BY <1>1, <1>2, <1>6, <1>7, <2>1
    <3> QED
      BY <1>7, <3>1
  <2>2. CASE i # m + 1 - MaxBridge
    <3>1. i \in 1 .. m - MaxBridge
      BY <1>1, <1>2, <2>2
    <3>2. PICK j \in i .. i + MaxBridge : q[j] \in named
      BY <1>5, <3>1
    <3>3. j \in 1 .. m
      BY <1>1, <1>2, <3>1
    <3> QED
      BY <1>1, <3>2, <3>3
  <2> QED
    BY <2>1, <2>2
<1>11. r[1] \in named
  <2>1. 1 \in 1 .. m
    BY <1>1
  <2> QED
    BY <1>1, <1>5, <2>1
<1>12. Sound(r)
  <2> DEFINE l == Len(r)
  <2>1. l \in Nat /\ m \in Nat /\ l = m + 1
    BY <1>1
  <2> HIDE DEF l
  <2>2. l - 1 = m /\ l - MaxBridge = m + 1 - MaxBridge
    BY <1>2, <2>1
  <2>3. Len(r) - 1 = m /\ Len(r) - MaxBridge = m + 1 - MaxBridge
    BY <2>2 DEF l
  <2> QED
    BY <1>1, <1>9, <1>10, <1>11, <2>3 DEF Sound
<1> QED
  BY <1>8, <1>12 DEF r, k

\* What is found from a symbol is called by it and was not found before.
LEMMA CalleesAre ==
    ASSUME NEW item, IsFiniteSet(calls), \A e \in calls : e = <<e[1], e[2]>>
    PROVE  /\ IsFiniteSet(Callees(item))
           /\ \A c \in Callees(item) : /\ c \notin DOMAIN parent
                                       /\ <<item.id, c>> \in calls
                                       /\ Streak(item, c) <= MaxBridge
<1>1. IsFiniteSet({e[2] : e \in calls})
  <2> DEFINE T == {e[2] : e \in calls}
             f == [e \in calls |-> e[2]]
  <2>1. f \in Surjection(calls, T)
    BY DEF Surjection
  <2> QED
    BY <2>1, FS_Surjection
<1>2. Callees(item) \subseteq {e[2] : e \in calls}
  BY DEF Callees
<1>3. IsFiniteSet(Callees(item))
  BY <1>1, <1>2, FS_Subset
<1>4. ASSUME NEW c \in Callees(item)
      PROVE  c \notin DOMAIN parent /\ <<item.id, c>> \in calls /\ Streak(item, c) <= MaxBridge
  <2>1. PICK e \in calls : e[1] = item.id /\ e[2] = c
    BY DEF Callees
  <2>2. e = <<item.id, c>>
    BY <2>1
  <2> QED
    BY <2>1, <2>2 DEF Callees
<1> QED
  BY <1>3, <1>4

LEMMA HeadAndTail ==
    ASSUME NEW S, NEW s \in Seq(S), s # <<>>
    PROVE  /\ Len(s) \in Nat \ {0} /\ DOMAIN s = 1 .. Len(s)
           /\ Head(s) \in S /\ 1 \in DOMAIN s /\ Head(s) = s[1]
           /\ Tail(s) \in Seq(S) /\ Len(Tail(s)) = Len(s) - 1 /\ DOMAIN Tail(s) = 1 .. Len(s) - 1
           /\ \A i \in 1 .. Len(s) - 1 : i + 1 \in DOMAIN s /\ Tail(s)[i] = s[i + 1]
<1>1. /\ Tail(s) \in Seq(S) /\ Len(Tail(s)) = Len(s) - 1
      /\ \A i \in 1 .. Len(Tail(s)) : Tail(s)[i] = s[i + 1]
      /\ Head(s) \in S
  BY HeadTailProperties
<1>2. /\ Len(s) \in Nat \ {0} /\ DOMAIN s = 1 .. Len(s)
      /\ DOMAIN Tail(s) = 1 .. Len(Tail(s))
  BY <1>1, LenProperties, EmptySeq
<1>3. Head(s) = s[1]
  OBVIOUS
<1> QED
  BY <1>1, <1>2, <1>3

LEMMA SeqMonotone ==
    ASSUME NEW S, NEW T, S \subseteq T, NEW s \in Seq(S)
    PROVE  s \in Seq(T)
OBVIOUS

\* An order of a finite set has all of it.
LEMMA OrderOfAll ==
    ASSUME NEW S, IsFiniteSet(S), NEW order \in SetToSeqs(S), NEW c \in S
    PROVE  \E k \in DOMAIN order : order[k] = c
<1> DEFINE n == Cardinality(S)
           T == {order[k] : k \in 1 .. n}
<1>1. n \in Nat /\ order \in [1 .. n -> S] /\ \A i, j \in 1 .. n : i # j => order[i] # order[j]
  BY FS_CardinalityType DEF SetToSeqs
<1> HIDE DEF n
<1>2. IsFiniteSet(1 .. n) /\ Cardinality(1 .. n) = n
  BY <1>1, FS_Interval
<1>3. order \in Surjection(1 .. n, T) /\ order \in Injection(1 .. n, T)
  <2>1. order \in [1 .. n -> T] /\ \A e \in T : \E i \in 1 .. n : order[i] = e
    BY <1>1
  <2>2. \A i, j \in 1 .. n : order[i] = order[j] => i = j
    BY <1>1
  <2> HIDE DEF T
  <2> QED
    BY <2>1, <2>2 DEF Surjection, Injection, IsInjective
<1> HIDE DEF T
<1>4. Cardinality(T) = n
  BY <1>2, <1>3, FS_Surjection
<1>5. T \subseteq S
  BY <1>1 DEF T
<1>6. S = T
  BY <1>4, <1>5, FS_Subset DEF n
<1> QED
  BY <1>1, <1>6 DEF T

AtHead == Head(queue)
TooMany == Cardinality(DOMAIN parent) > ParentLimit
NewlyFound == IF TooMany \/ AtHead.depth >= MaxDepth - 1 THEN {} ELSE Callees(AtHead)
EntryFor(c) == Entry(c, AtHead.depth + 1, Streak(AtHead, c))

\* One turn of the search: the rest of the queue waits, and what was found
\* waits behind it.
LEMMA TurnIs ==
    ASSUME FlowInv, Trace
    PROVE  /\ queue \in Seq([id : DOMAIN parent, depth : Nat, streak : Nat]) /\ 1 \in DOMAIN queue /\ AtHead = queue[1]
           /\ AtHead.id \in DOMAIN parent /\ AtHead.depth \in Nat /\ AtHead.streak \in Nat
           /\ deep.depth \in Nat /\ MaxDepth \in Nat
           /\ deep' = IF ~TooMany /\ AtHead.id \in named \ {seed} /\ AtHead.depth > deep.depth
                      THEN [id |-> AtHead.id, depth |-> AtHead.depth] ELSE deep
           /\ parent' = Grown(parent, NewlyFound, AtHead.id)
           /\ UNCHANGED <<calls, named, seeds, seed, best>>
           /\ NewlyFound \cap DOMAIN parent = {} /\ DOMAIN parent' = DOMAIN parent \cup NewlyFound
           /\ NewlyFound # {} => AtHead.depth + 1 <= MaxDepth - 1
           /\ \A c \in NewlyFound : /\ c \notin DOMAIN parent
                                    /\ <<AtHead.id, c>> \in calls
                                    /\ Streak(AtHead, c) <= MaxBridge
           /\ queue' \in Seq([id : DOMAIN parent', depth : Nat, streak : Nat])
           /\ \A i \in DOMAIN queue' : \/ \E j \in DOMAIN queue : queue'[i] = queue[j]
                                      \/ \E c \in NewlyFound : queue'[i] = EntryFor(c)
           /\ ~TooMany => \A j \in DOMAIN queue \ {1} : \E i \in DOMAIN queue' : queue'[i] = queue[j]
           /\ ~TooMany => \A c \in NewlyFound : \E i \in DOMAIN queue' : queue'[i] = EntryFor(c)
<1> DEFINE item == AtHead
           tooMany == TooMany
           found == NewlyFound
           X == [id : DOMAIN parent, depth : Nat, streak : Nat]
           Y == [id : DOMAIN parent', depth : Nat, streak : Nat]
<1>1. queue \in Seq(X) /\ queue # <<>>
  BY DEF FlowInv, Trace
<1>2. /\ item \in X /\ 1 \in DOMAIN queue /\ item = queue[1]
      /\ Tail(queue) \in Seq(X) /\ DOMAIN Tail(queue) = 1 .. Len(queue) - 1
      /\ \A i \in 1 .. Len(queue) - 1 : i + 1 \in DOMAIN queue /\ Tail(queue)[i] = queue[i + 1]
  <2> HIDE DEF X
  <2> QED
    BY <1>1, HeadAndTail DEF AtHead
<1>3. /\ deep' = IF ~tooMany /\ item.id \in named \ {seed} /\ item.depth > deep.depth
                 THEN [id |-> item.id, depth |-> item.depth] ELSE deep
      /\ parent' = Grown(parent, found, item.id)
      /\ UNCHANGED <<calls, named, seeds, seed, best>>
  BY DEF Trace, AtHead, TooMany, NewlyFound
<1>4. PICK order \in SetToSeqs(found) :
         queue' = IF tooMany THEN <<>>
                  ELSE Tail(queue) \o [i \in DOMAIN order |->
                          Entry(order[i], item.depth + 1, Streak(item, order[i]))]
  BY DEF Trace, AtHead, TooMany, NewlyFound
<1>5. /\ item.id \in DOMAIN parent /\ item.depth \in Nat /\ item.streak \in Nat /\ deep.depth \in Nat
      /\ MaxDepth \in Nat /\ IsFiniteSet(calls) /\ \A e \in calls : e = <<e[1], e[2]>>
  BY <1>2, FlowAssumption DEF FlowInv
<1>6. /\ IsFiniteSet(found) /\ found \cap DOMAIN parent = {}
      /\ found # {} => item.depth + 1 <= MaxDepth - 1
      /\ \A c \in found : /\ c \notin DOMAIN parent
                          /\ <<item.id, c>> \in calls
                          /\ Streak(item, c) <= MaxBridge
  <2>1. CASE tooMany \/ item.depth >= MaxDepth - 1
    BY <2>1, FS_EmptySet DEF NewlyFound
  <2>2. CASE ~ (tooMany \/ item.depth >= MaxDepth - 1)
    <3>1. found = Callees(item) /\ item.depth + 1 <= MaxDepth - 1
      BY <1>5, <2>2 DEF NewlyFound
    <3> HIDE DEF found
    <3> QED
      BY <1>5, <3>1, CalleesAre
  <2> QED
    BY <2>1, <2>2
<1> HIDE DEF item, tooMany, found
<1>7. DOMAIN parent' = DOMAIN parent \cup found
  BY <1>3, GrownIs
<1>8. /\ DOMAIN order = 1 .. Cardinality(found) /\ Cardinality(found) \in Nat
      /\ \A i \in DOMAIN order : order[i] \in found
  BY <1>4, <1>6, FS_CardinalityType DEF SetToSeqs
<1> DEFINE added == [i \in DOMAIN order |-> Entry(order[i], item.depth + 1, Streak(item, order[i]))]
<1>9. added \in Seq(Y)
  <2>1. ASSUME NEW i \in DOMAIN order PROVE added[i] \in Y
    <3>1. Streak(item, order[i]) \in Nat
      BY <1>5 DEF Streak
    <3>2. order[i] \in DOMAIN parent' /\ item.depth + 1 \in Nat
      BY <1>5, <1>7, <1>8
    <3> QED
      BY <3>1, <3>2 DEF Entry
  <2>2. added \in [1 .. Cardinality(found) -> Y]
    BY <1>8, <2>1
  <2> HIDE DEF added, Y
  <2> QED
    BY <1>8, <2>2, IsSeq
<1>10. queue' \in Seq(Y)
  <2>1. X \subseteq Y
    BY <1>7
  <2> HIDE DEF X, Y
  <2>2. Tail(queue) \in Seq(Y)
    BY <1>2, <2>1, SeqMonotone
  <2> HIDE DEF added, Y
  <2>3. Tail(queue) \o added \in Seq(Y)
    BY <1>9, <2>2
  <2>4. queue' = IF tooMany THEN <<>> ELSE Tail(queue) \o added
    BY <1>4 DEF added
  <2> QED
    BY <2>3, <2>4
<1> DEFINE t == Tail(queue)
<1>11. t \in Seq(X) /\ Len(t) = Len(queue) - 1 /\ Len(t) \in Nat /\ DOMAIN t = 1 .. Len(t)
       /\ DOMAIN queue = 1 .. Len(queue) /\ Len(queue) \in Nat
       /\ \A i \in 1 .. Len(t) : i + 1 \in DOMAIN queue /\ t[i] = queue[i + 1]
  <2> HIDE DEF X
  <2>1. t \in Seq(X) /\ Len(t) = Len(queue) - 1 /\ Len(t) \in Nat /\ DOMAIN t = 1 .. Len(t)
    BY <1>1, <1>2, HeadTailProperties, LenProperties
  <2>2. DOMAIN queue = 1 .. Len(queue) /\ Len(queue) \in Nat
    BY <1>1, LenProperties
  <2> QED
    BY <1>2, <2>1, <2>2
<1>12. DOMAIN added = DOMAIN order
       /\ \A k \in DOMAIN order : added[k] = Entry(order[k], item.depth + 1, Streak(item, order[k]))
  OBVIOUS
<1>13. queue' = IF tooMany THEN <<>> ELSE t \o added
  BY <1>4
<1> HIDE DEF added, X, Y, t
<1>14. Len(added) = Cardinality(found) /\ DOMAIN added = 1 .. Len(added) /\ Len(added) \in Nat
  BY <1>8, <1>9, <1>12
<1>15. ASSUME ~tooMany
       PROVE  /\ DOMAIN queue' = 1 .. Len(t) + Len(added)
              /\ \A i \in 1 .. Len(t) : queue'[i] = t[i]
              /\ \A i \in 1 .. Len(added) : queue'[Len(t) + i] = added[i]
  <2>1. queue' = t \o added /\ added \in Seq(Y) /\ t \in Seq(X)
    BY <1>9, <1>11, <1>13, <1>15
  <2>2. \A i \in 1 .. Len(added) : Len(t) + i \in 1 .. Len(t) + Len(added) /\ Len(t) + i - Len(t) = i /\ ~(Len(t) + i <= Len(t))
    BY <1>11, <1>14
  <2>3. \A i \in 1 .. Len(t) : i \in 1 .. Len(t) + Len(added) /\ i <= Len(t)
    BY <1>11, <1>14
  <2>4. Len(queue') = Len(t) + Len(added)
        /\ \A i \in 1 .. Len(t) + Len(added) : queue'[i] = IF i <= Len(t) THEN t[i] ELSE added[i - Len(t)]
    BY <2>1, ConcatProperties
  <2>5. DOMAIN queue' = 1 .. Len(queue')
    BY <1>10, LenProperties
  <2> QED
    BY <2>2, <2>3, <2>4, <2>5
<1>16. \A i \in DOMAIN queue' :
          \/ \E j \in DOMAIN queue : queue'[i] = queue[j]
          \/ \E c \in found : queue'[i] = Entry(c, item.depth + 1, Streak(item, c))
  <2> SUFFICES ASSUME NEW i \in DOMAIN queue'
               PROVE  \/ \E j \in DOMAIN queue : queue'[i] = queue[j]
                      \/ \E c \in found : queue'[i] = Entry(c, item.depth + 1, Streak(item, c))
    OBVIOUS
  <2>1. ~tooMany
    BY <1>13
  <2>2. CASE i <= Len(t)
    <3>1. i \in 1 .. Len(t)
      BY <1>11, <1>14, <1>15, <2>1, <2>2
    <3> QED
      BY <1>11, <1>15, <2>1, <3>1
  <2>3. CASE i > Len(t)
    <3>1. i - Len(t) \in 1 .. Len(added) /\ Len(t) + (i - Len(t)) = i
      BY <1>11, <1>14, <1>15, <2>1, <2>3
    <3>2. queue'[i] = added[i - Len(t)]
      BY <1>15, <2>1, <3>1
    <3> QED
      BY <1>8, <1>12, <1>14, <3>1, <3>2
  <2> QED
    BY <1>11, <1>14, <1>15, <2>1, <2>2, <2>3
<1>17. ASSUME ~tooMany, NEW j \in DOMAIN queue \ {1} PROVE \E i \in DOMAIN queue' : queue'[i] = queue[j]
  <2>1. j - 1 \in 1 .. Len(t) /\ (j - 1) + 1 = j
    BY <1>11
  <2>2. j - 1 \in DOMAIN queue'
    BY <1>11, <1>14, <1>15, <1>17, <2>1
  <2> QED
    BY <1>11, <1>15, <1>17, <2>1, <2>2
<1>18. ASSUME ~tooMany, NEW c \in found
       PROVE  \E i \in DOMAIN queue' : queue'[i] = Entry(c, item.depth + 1, Streak(item, c))
  <2>1. PICK k \in DOMAIN order : order[k] = c
    BY <1>4, <1>6, OrderOfAll
  <2>2. k \in 1 .. Len(added) /\ Len(t) + k \in DOMAIN queue'
    BY <1>11, <1>12, <1>14, <1>15, <1>18
  <2>3. queue'[Len(t) + k] = added[k]
    BY <1>15, <1>18, <2>2
  <2> QED
    BY <1>12, <2>1, <2>2, <2>3
<1>19. queue \in Seq([id : DOMAIN parent, depth : Nat, streak : Nat])
       /\ queue' \in Seq([id : DOMAIN parent', depth : Nat, streak : Nat])
  BY <1>1, <1>10 DEF X, Y
<1> QED
  BY <1>2, <1>3, <1>5, <1>6, <1>7, <1>16, <1>17, <1>18, <1>19 DEF EntryFor, item, tooMany, found

\* What was found extends the ways, and so do the new entries of the queue.
LEMMA Turns == FlowInv /\ Trace => FlowInv'
<1> SUFFICES ASSUME FlowInv, Trace PROVE FlowInv'
  OBVIOUS
<1> DEFINE item == AtHead
           tooMany == TooMany
           found == NewlyFound
           X == [id : DOMAIN parent, depth : Nat, streak : Nat]
<1>1. queue \in Seq(X)
  BY TurnIs
<1>2. 1 \in DOMAIN queue /\ item = queue[1]
  BY TurnIs
<1>3. /\ deep' = IF ~tooMany /\ item.id \in named \ {seed} /\ item.depth > deep.depth
                 THEN [id |-> item.id, depth |-> item.depth] ELSE deep
      /\ parent' = Grown(parent, found, item.id)
      /\ UNCHANGED <<calls, named, seeds, seed, best>>
  BY TurnIs
<1>5. /\ item.id \in DOMAIN parent /\ item.depth \in Nat /\ item.streak \in Nat /\ deep.depth \in Nat
      /\ MaxDepth \in Nat
  BY TurnIs
<1>6. /\ found \cap DOMAIN parent = {}
      /\ found # {} => item.depth + 1 <= MaxDepth - 1
      /\ \A c \in found : /\ c \notin DOMAIN parent
                          /\ <<item.id, c>> \in calls
                          /\ Streak(item, c) <= MaxBridge
  BY TurnIs
<1>7. DOMAIN parent' = DOMAIN parent \cup found
  BY TurnIs
<1>11. \A i \in DOMAIN queue' :
          \/ \E j \in DOMAIN queue : queue'[i] = queue[j]
          \/ \E c \in found : queue'[i] = Entry(c, item.depth + 1, Streak(item, c))
  BY TurnIs DEF EntryFor
<1>16. queue' \in Seq([id : DOMAIN parent', depth : Nat, streak : Nat])
  BY TurnIs
<1> HIDE DEF item, tooMany, found, X

<1>12. ASSUME seed # NoSeed PROVE Searching'
  <2>1. Searching
    BY <1>12 DEF FlowInv
  <2>2. Rooted(parent, seed) /\ \A n, p : Way(parent, seed, p, n) => Sound(p)
    BY <2>1 DEF Searching
  <2>3. \A i \in DOMAIN queue :
          /\ queue[i].depth # 0 => queue[i].depth <= MaxDepth - 1
          /\ \A p : Way(parent, seed, p, queue[i].id) => Knows(queue[i], p)
    BY <2>1 DEF Searching
  <2>4. \A p : Way(parent, seed, p, item.id) => Knows(item, p)
    BY <1>2, <2>3
  <2>5. item.depth # 0 => item.depth <= MaxDepth - 1
    BY <1>2, <2>3
  <2>6. \A n, p : Way(parent, seed, p, n) => Way(parent', seed, p, n)
    BY <1>3, <1>6, WayGrows
  <2>7. ASSUME NEW n, NEW p, Way(parent', seed, p, n)
        PROVE  \/ Way(parent, seed, p, n)
               \/ n \in found /\ \E q : Way(parent, seed, q, item.id) /\ p = Append(q, n)
    BY <1>3, <1>5, <1>6, <2>2, <2>7, WaysAre
  <2>8. ASSUME NEW q, Way(parent, seed, q, item.id), NEW c \in found
        PROVE  /\ Sound(Append(q, c))
               /\ Knows(Entry(c, item.depth + 1, Streak(item, c)), Append(q, c))
    <3>1. Len(q) \in Nat \ {0} /\ q \in Seq(DOMAIN parent) /\ q[Len(q)] = item.id
      BY <2>8 DEF Way
    <3>2. Sound(q) /\ Knows(item, q)
      BY <2>2, <2>4, <2>8
    <3>3. <<q[Len(q)], c>> \in calls /\ Streak(item, c) <= MaxBridge
      BY <1>6, <3>1
    <3> QED
      BY <1>5, <3>1, <3>2, <3>3, SoundMore
  <2>9. Rooted(parent', seed')
    <3> SUFFICES ASSUME NEW n \in DOMAIN parent' PROVE \E p : Way(parent', seed, p, n)
      BY <1>3 DEF Rooted
    <3>1. CASE n \in DOMAIN parent
      BY <2>2, <2>6, <3>1 DEF Rooted
    <3>2. CASE n \in found
      <4>1. PICK p : Way(parent, seed, p, item.id)
        BY <1>5, <2>2 DEF Rooted
      <4>2. Way(Grown(parent, found, item.id), seed, Append(p, n), n)
        BY <1>6, <3>2, <4>1, WayMore
      <4> QED
        BY <1>3, <4>2
    <3> QED
      BY <1>7, <3>1, <3>2
  <2>10. \A p : Sound(p)' <=> Sound(p)
    BY <1>3 DEF Sound
  <2>11. \A n, p : Way(parent', seed', p, n) => Sound(p)'
    <3> SUFFICES ASSUME NEW n, NEW p, Way(parent', seed', p, n) PROVE Sound(p)
      BY <2>10
    <3>1. CASE Way(parent, seed, p, n)
      BY <2>2, <3>1
    <3>2. CASE n \in found /\ \E q : Way(parent, seed, q, item.id) /\ p = Append(q, n)
      BY <2>8, <3>2
    <3> QED
      BY <1>3, <2>7, <3>1, <3>2
  <2>12. \A x, p : (Len(p) = x.depth + 1 /\ x.streak < Len(p) /\ x.streak <= MaxBridge
                      /\ p[Len(p) - x.streak] \in named') <=> Knows(x, p)
    BY <1>3 DEF Knows
  <2>13. ASSUME NEW i \in DOMAIN queue'
         PROVE  /\ queue'[i].depth # 0 => queue'[i].depth <= MaxDepth - 1
                /\ \A p : Way(parent', seed', p, queue'[i].id) => Knows(queue[i], p)'
    <3>1. PICK x : x = queue'[i]
      OBVIOUS
    <3>2. \A p : Knows(x, p) => Knows(queue[i], p)'
      BY <1>3, <3>1 DEF Knows
    <3>3. CASE \E j \in DOMAIN queue : x = queue[j]
      <4>1. PICK j \in DOMAIN queue : x = queue[j]
        BY <3>3
      <4>2. x.id \in DOMAIN parent
        <5>1. queue[j] \in X
          BY <1>1, <4>1
        <5> QED
          BY <4>1, <5>1 DEF X
      <4>3. x.id \notin found
        BY <1>6, <4>2
      <4>4. \A p : Way(parent', seed', p, x.id) => Way(parent, seed, p, x.id)
        BY <1>3, <2>7, <4>3
      <4> QED
        BY <2>3, <3>1, <3>2, <4>1, <4>4
    <3>4. CASE \E c \in found : x = Entry(c, item.depth + 1, Streak(item, c))
      <4>1. PICK c \in found : x = Entry(c, item.depth + 1, Streak(item, c))
        BY <3>4
      <4>2. x.id = c /\ x.depth = item.depth + 1
        BY <4>1 DEF Entry
      <4>3. \A p : ~ Way(parent, seed, p, c)
        BY <1>6, <4>1 DEF Way
      <4>4. ASSUME NEW p, Way(parent', seed', p, x.id) PROVE Knows(x, p)
        <5>1. Way(parent', seed, p, c)
          BY <1>3, <4>2, <4>4
        <5>2. PICK q : Way(parent, seed, q, item.id) /\ p = Append(q, c)
          BY <2>7, <4>3, <5>1
        <5> QED
          BY <2>8, <4>1, <5>2
      <4> QED
        BY <1>6, <3>1, <3>2, <4>1, <4>2, <4>4
    <3> QED
      BY <1>11, <3>1, <3>3, <3>4
  <2>14. deep' # NotDeep =>
           /\ deep'.id \in named' /\ deep'.id \in DOMAIN parent'
           /\ \A p : Way(parent', seed', p, deep'.id) => Len(p) = deep'.depth + 1 /\ Len(p) <= MaxDepth
    <3>1. CASE ~tooMany /\ item.id \in named \ {seed} /\ item.depth > deep.depth
      <4>1. deep'.id = item.id /\ deep'.depth = item.depth
        BY <1>3, <3>1
      <4>2. item.id \notin found /\ item.depth + 1 <= MaxDepth
        BY <1>5, <1>6, <2>5, <3>1
      <4>3. ASSUME NEW p, Way(parent', seed', p, item.id) PROVE Len(p) = item.depth + 1 /\ Len(p) <= MaxDepth
        <5>1. Way(parent, seed, p, item.id)
          BY <1>3, <2>7, <4>2, <4>3
        <5>2. Len(p) = item.depth + 1
          BY <2>4, <5>1 DEF Knows
        <5> QED
          BY <4>2, <5>2
      <4> QED
        BY <1>3, <1>5, <1>7, <3>1, <4>1, <4>3
    <3>2. CASE ~ (~tooMany /\ item.id \in named \ {seed} /\ item.depth > deep.depth)
      <4>1. deep' = deep
        BY <1>3, <3>2
      <4> SUFFICES ASSUME deep # NotDeep
                   PROVE  /\ deep'.id \in named' /\ deep'.id \in DOMAIN parent'
                          /\ \A p : Way(parent', seed', p, deep'.id) => Len(p) = deep'.depth + 1 /\ Len(p) <= MaxDepth
        BY <4>1
      <4>2. /\ deep.id \in named /\ deep.id \in DOMAIN parent
            /\ \A p : Way(parent, seed, p, deep.id) => Len(p) = deep.depth + 1 /\ Len(p) <= MaxDepth
        BY <2>1 DEF Searching
      <4>3. deep.id \notin found
        BY <1>6, <4>2
      <4>4. \A p : Way(parent', seed', p, deep.id) => Way(parent, seed, p, deep.id)
        BY <1>3, <2>7, <4>3
      <4> QED
        BY <1>3, <1>7, <4>1, <4>2, <4>4
    <3> QED
      BY <3>1, <3>2
  <2> QED
    BY <2>9, <2>11, <2>13, <2>14 DEF Searching
<1>13. deep'.depth \in Nat
  BY <1>3, <1>5
<1>14. FlowSound'
  BY <1>3 DEF FlowInv, FlowSound
<1>15. seeds' \subseteq named' /\ IsFiniteSet(calls') /\ \A e \in calls' : e = <<e[1], e[2]>>
  BY <1>3 DEF FlowInv
<1> QED
  BY <1>3, <1>12, <1>13, <1>14, <1>15, <1>16 DEF FlowInv

\* A search that ends leaves its chain, if it is longer than the best.
LEMMA Ends == FlowInv /\ EndTrace => FlowInv'
<1> SUFFICES ASSUME FlowInv, EndTrace PROVE FlowInv'
  OBVIOUS
<1>1. seed # NoSeed /\ seed' = NoSeed /\ UNCHANGED <<calls, named, seeds, parent, queue, deep>>
  BY DEF EndTrace
<1>2. best' = IF deep # NotDeep /\ Len(Chain(deep.id)) > Len(best) THEN Chain(deep.id) ELSE best
  BY DEF EndTrace
<1>3. FlowSound'
  <2>1. CASE best' = best
    BY <1>1, <2>1 DEF FlowInv, FlowSound
  <2>2. CASE deep # NotDeep /\ best' = Chain(deep.id)
    <3>1. Searching
      BY <1>1 DEF FlowInv
    <3>2. /\ Rooted(parent, seed) /\ deep.id \in named /\ deep.id \in DOMAIN parent
          /\ \A n, p : Way(parent, seed, p, n) => Sound(p)
          /\ \A p : Way(parent, seed, p, deep.id) => Len(p) = deep.depth + 1 /\ Len(p) <= MaxDepth
      BY <2>2, <3>1 DEF Searching
    <3>3. PICK p : Way(parent, seed, p, deep.id)
      BY <3>2 DEF Rooted
    <3>4. best' = p
      BY <2>2, <3>2, <3>3, ChainIsWay
    <3>5. Sound(p) /\ Len(p) <= MaxDepth
      BY <3>2, <3>3
    <3>6. p[Len(p)] \in named /\ \A i, j \in DOMAIN p : p[i] = p[j] => i = j
      BY <3>2, <3>3 DEF Way
    <3> QED
      BY <1>1, <3>4, <3>5, <3>6 DEF FlowSound, Sound
  <2> QED
    BY <1>2, <2>1, <2>2
<1>4. /\ seeds' \subseteq named' /\ deep'.depth \in Nat /\ IsFiniteSet(calls')
      /\ \A e \in calls' : e = <<e[1], e[2]>>
      /\ queue' \in Seq([id : DOMAIN parent', depth : Nat, streak : Nat])
  BY <1>1 DEF FlowInv
<1> QED
  BY <1>1, <1>3, <1>4 DEF FlowInv

\* A query finds finitely many symbols and calls.
LEMMA FiniteCalls == Init => IsFiniteSet(calls)
<1> SUFFICES ASSUME Init PROVE IsFiniteSet(calls)
  OBVIOUS
<1> DEFINE S == Sites(project.edges, LAMBDA e : e.kind = "calls")
           f == [i \in S |-> <<project.edges[i].source, project.edges[i].target>>]
<1>1. S \subseteq DOMAIN project.edges /\ IsFiniteSet(DOMAIN project.edges)
  BY ExploreAssumption DEF Init, Sites
<1>2. IsFiniteSet(S)
  BY <1>1, FS_Subset
<1>3. calls = {f[i] : i \in S}
  BY DEF Init
<1>4. f \in Surjection(S, calls)
  <2> HIDE DEF S
  <2>1. f \in [S -> calls]
    BY <1>3
  <2>2. \A c \in calls : \E i \in S : f[i] = c
    BY <1>3
  <2> QED
    BY <2>1, <2>2 DEF Surjection
<1> QED
  BY <1>2, <1>4, FS_Surjection

LEMMA FlowInvStep == FlowInv /\ [Next]_vars => FlowInv'
<1> SUFFICES ASSUME FlowInv, [Next]_vars PROVE FlowInv'
  OBVIOUS
<1>1. CASE TraceFlow
  BY <1>1, Starts, Turns, Ends DEF TraceFlow, FlowStep
<1>2. CASE UNCHANGED flowVars
  <2>1. UNCHANGED <<calls, named, seeds, seed, parent, queue, deep, best>>
    BY <1>2 DEF flowVars
  <2> QED
    BY <2>1 DEF FlowInv, FlowSound, Searching, Sound, Knows
<1>3. TraceFlow \/ UNCHANGED flowVars
  BY DEF Next, vars, SelectFiles, FindNothing, ReadFile, ShowWhole, ShowSkeleton, ShowOversized, ShowClusters,
         Finish, EditFile, LeaveOut, Show, AddSection
<1> QED
  BY <1>1, <1>2, <1>3

\* The call chain of an answer (find_flow_chain) is a path of calls from a named
\* symbol to a named symbol, no longer than max_depth, without a symbol twice
\* and with at most max_bridge symbols in a row that are not named.
THEOREM ChainSound == Spec => []FlowSound
<1>1. Init => FlowInv
  BY FlowStart, FiniteCalls
<1>2. FlowInv => FlowSound
  BY DEF FlowInv
<1> QED
  BY <1>1, <1>2, FlowInvStep, PTL DEF Spec

-----------------------------------------------------------------------------
(* The files. *)

Elements(s) == {s[i] : i \in DOMAIN s}

\* Each selected file is shown once, left out or still to come.
Accounting ==
    /\ \E S : sections \in Seq(S)
    /\ todo \in Seq(DOMAIN project.lines) /\ remaining \in Seq(DOMAIN project.lines)
    /\ IsFiniteSet(DOMAIN project.lines)
    /\ phase \in {"flow", "files", "render", "done"}
    /\ phase = "flow" => todo = <<>> /\ sections = <<>> /\ remaining = <<>>
    /\ phase = "render" => todo # <<>>
    /\ phase # "done" => answer = NoAnswer
    /\ \A i, j \in DOMAIN todo : todo[i] = todo[j] => i = j
    /\ \A i, j \in DOMAIN remaining : remaining[i] = remaining[j] => i = j
    /\ \A i, j \in AllSections : sections[i].file = sections[j].file => i = j
    /\ FilesOf(AllSections) \cap (Elements(remaining) \cup Elements(todo)) = {}
    /\ Elements(remaining) \cap Elements(todo) = {}
    /\ Elements(selected) = FilesOf(AllSections) \cup Elements(remaining) \cup Elements(todo)
    /\ FilesAccounted

LEMMA AccountStart == Init => Accounting
<1> SUFFICES ASSUME Init PROVE Accounting
  OBVIOUS
<1>1. /\ sections = <<>> /\ todo = <<>> /\ remaining = <<>> /\ selected = <<>> /\ phase = "flow"
      /\ answer = NoAnswer /\ project \in Projects
  BY DEF Init
<1>2. IsFiniteSet(DOMAIN project.lines)
  BY <1>1, ExploreAssumption
<1>3. <<>> \in Seq({}) /\ <<>> \in Seq(DOMAIN project.lines) /\ DOMAIN <<>> = {}
  OBVIOUS
<1> QED
  BY <1>1, <1>2, <1>3 DEF Accounting, FilesAccounted, NoAnswer, FilesOf, AllSections, Elements

LEMMA AppendIs ==
    ASSUME NEW S, NEW s \in Seq(S), NEW x, NEW t, t = Append(s, x)
    PROVE  /\ t \in Seq(S \cup {x})
           /\ DOMAIN s = 1 .. Len(s) /\ DOMAIN t = DOMAIN s \cup {Len(s) + 1} /\ Len(s) \in Nat
           /\ \A i \in DOMAIN s : t[i] = s[i]
           /\ t[Len(s) + 1] = x
<1>1. /\ t \in Seq(S \cup {x}) /\ Len(s) \in Nat
      /\ DOMAIN s = 1 .. Len(s) /\ DOMAIN t = 1 .. Len(s) + 1
      /\ \A i \in DOMAIN s : t[i] = s[i]
      /\ t[Len(s) + 1] = x
  OBVIOUS
<1>2. 1 .. Len(s) + 1 = 1 .. Len(s) \cup {Len(s) + 1}
  BY <1>1
<1> QED
  BY <1>1, <1>2

LEMMA TailElements ==
    ASSUME NEW S, NEW s \in Seq(S), s # <<>>, \A i, j \in DOMAIN s : s[i] = s[j] => i = j
    PROVE  /\ Tail(s) \in Seq(S) /\ s[1] \in S /\ s[1] \in Elements(s)
           /\ \A i, j \in DOMAIN Tail(s) : Tail(s)[i] = Tail(s)[j] => i = j
           /\ Elements(Tail(s)) = Elements(s) \ {s[1]}
<1> DEFINE t == Tail(s)
           m == Len(s)
<1>1. /\ m \in Nat \ {0} /\ DOMAIN s = 1 .. m /\ s[1] \in S /\ 1 \in DOMAIN s
      /\ t \in Seq(S) /\ DOMAIN t = 1 .. m - 1
      /\ \A i \in 1 .. m - 1 : i + 1 \in DOMAIN s /\ t[i] = s[i + 1]
  BY HeadAndTail
<1> HIDE DEF t, m
<1>2. \A i, j \in DOMAIN t : t[i] = t[j] => i = j
  <2> SUFFICES ASSUME NEW i \in 1 .. m - 1, NEW j \in 1 .. m - 1, t[i] = t[j] PROVE i = j
    BY <1>1
  <2>1. s[i + 1] = s[j + 1] /\ i + 1 \in DOMAIN s /\ j + 1 \in DOMAIN s
    BY <1>1
  <2>2. i + 1 = j + 1
    BY <2>1
  <2> QED
    BY <2>2
<1>3. Elements(t) = Elements(s) \ {s[1]}
  <2>1. ASSUME NEW e \in Elements(s), e # s[1] PROVE e \in Elements(t)
    <3>1. PICK i \in DOMAIN s : e = s[i]
      BY <2>1 DEF Elements
    <3>2. i - 1 \in 1 .. m - 1 /\ i - 1 + 1 = i
      BY <1>1, <2>1, <3>1
    <3>3. t[i - 1] = e
      BY <1>1, <3>1, <3>2
    <3> QED
      BY <1>1, <3>2, <3>3 DEF Elements
  <2>2. ASSUME NEW e \in Elements(t) PROVE e \in Elements(s) /\ e # s[1]
    <3>1. PICK i \in 1 .. m - 1 : e = t[i]
      BY <1>1 DEF Elements
    <3>2. i + 1 \in DOMAIN s /\ e = s[i + 1] /\ i + 1 # 1
      BY <1>1, <3>1
    <3> QED
      BY <1>1, <3>2 DEF Elements
  <2> QED
    BY <2>1, <2>2
<1> QED
  BY <1>1, <1>2, <1>3 DEF t, Elements

LEMMA SameFiles ==
    /\ UNCHANGED sections => AllSections' = AllSections /\ FilesOf(AllSections)' = FilesOf(AllSections)
    /\ UNCHANGED todo => Elements(todo)' = Elements(todo)
    /\ UNCHANGED remaining => Elements(remaining)' = Elements(remaining)
    /\ UNCHANGED selected => Elements(selected)' = Elements(selected)
BY DEF FilesOf, AllSections, Elements

\* Nothing is promised before there is an answer.
LEMMA NotYet ==
    ASSUME answer'.how \notin {"whole", "source_cut"}
    PROVE  FilesAccounted'
BY DEF FilesAccounted

\* What LeaveOut and AddSection do to the files.
LeavesOne ==
    /\ remaining' = Append(remaining, todo[1]) /\ todo' = Tail(todo) /\ phase' = "files"
    /\ UNCHANGED <<project, sections, selected, answer>>

AddsOne(s) ==
    /\ s.file = todo[1]
    /\ sections' = Append(sections, s) /\ todo' = Tail(todo) /\ phase' = "files"
    /\ UNCHANGED <<project, remaining, selected, answer>>

\* A file is left out (_add_remaining).
LEMMA Leaves ==
    ASSUME Accounting, phase \in {"files", "render"}, todo # <<>>, LeavesOne
    PROVE  Accounting'
<1> DEFINE D == DOMAIN project.lines
<1>1. /\ remaining' = Append(remaining, todo[1]) /\ todo' = Tail(todo) /\ phase' = "files"
      /\ UNCHANGED <<project, sections, selected, answer>>
  BY DEF LeavesOne
<1>2. todo \in Seq(D) /\ remaining \in Seq(D) /\ \A i, j \in DOMAIN todo : todo[i] = todo[j] => i = j
  BY DEF Accounting
<1>3. /\ todo' \in Seq(D) /\ todo[1] \in D /\ todo[1] \in Elements(todo)
      /\ \A i, j \in DOMAIN todo' : todo'[i] = todo'[j] => i = j
      /\ Elements(todo') = Elements(todo) \ {todo[1]}
  BY <1>1, <1>2, TailElements
<1>4. /\ remaining' \in Seq(D \cup {todo[1]}) /\ Elements(remaining') = Elements(remaining) \cup {todo[1]}
      /\ \A i, j \in DOMAIN remaining' : remaining'[i] = remaining'[j] => i = j
  <2>1. PICK x : x = todo[1]
    OBVIOUS
  <2>2. remaining \in Seq(D)
    BY <1>2
  <2>3. remaining' = Append(remaining, x)
    BY <1>1, <2>1
  <2> HIDE DEF D
  <2>4. remaining' \in Seq(D \cup {x})
    BY <2>2, <2>3, AppendIs
  <2>5. /\ DOMAIN remaining' = DOMAIN remaining \cup {Len(remaining) + 1}
        /\ \A i \in DOMAIN remaining : remaining'[i] = remaining[i]
        /\ remaining'[Len(remaining) + 1] = x
    BY <2>2, <2>3, AppendIs
  <2>6. Elements(remaining') = Elements(remaining) \cup {x}
    BY <2>5 DEF Elements
  <2>7. \A i \in DOMAIN remaining : remaining[i] # x
    BY <1>3, <2>1 DEF Accounting, Elements
  <2>8. \A i, j \in DOMAIN remaining : remaining[i] = remaining[j] => i = j
    BY DEF Accounting
  <2>9. \A i, j \in DOMAIN remaining' : remaining'[i] = remaining'[j] => i = j
    BY <2>5, <2>7, <2>8
  <2> QED
    BY <2>1, <2>4, <2>6, <2>9
<1>5. D \cup {todo[1]} = D
  BY <1>3
<1>6. FilesOf(AllSections)' = FilesOf(AllSections) /\ AllSections' = AllSections
  BY <1>1 DEF FilesOf, AllSections
<1>7. Elements(remaining)' = Elements(remaining') /\ Elements(todo)' = Elements(todo')
      /\ Elements(selected)' = Elements(selected)
  BY <1>1 DEF Elements
<1>8. answer' = NoAnswer /\ phase' = "files"
  BY <1>1 DEF Accounting
<1>9. FilesAccounted'
  BY <1>8 DEF FilesAccounted, NoAnswer
<1>10. /\ FilesOf(AllSections)' \cap (Elements(remaining)' \cup Elements(todo)') = {}
       /\ Elements(remaining)' \cap Elements(todo)' = {}
       /\ Elements(selected)' = FilesOf(AllSections)' \cup Elements(remaining)' \cup Elements(todo)'
  <2>1. /\ FilesOf(AllSections) \cap (Elements(remaining) \cup Elements(todo)) = {}
        /\ Elements(remaining) \cap Elements(todo) = {}
        /\ Elements(selected) = FilesOf(AllSections) \cup Elements(remaining) \cup Elements(todo)
    BY DEF Accounting
  <2> QED
    BY <1>3, <1>4, <1>6, <1>7, <2>1
<1>11. /\ \E S : sections' \in Seq(S)
       /\ \A i, j \in AllSections' : sections'[i].file = sections'[j].file => i = j
       /\ IsFiniteSet(DOMAIN project'.lines)
  BY <1>1, <1>6 DEF Accounting
<1> QED
  BY <1>1, <1>3, <1>4, <1>5, <1>8, <1>9, <1>10, <1>11 DEF Accounting

\* A file is shown.
LEMMA Adds ==
    ASSUME NEW s, Accounting, phase \in {"files", "render"}, todo # <<>>, AddsOne(s)
    PROVE  Accounting'
<1> DEFINE D == DOMAIN project.lines
<1>1. /\ sections' = Append(sections, s) /\ todo' = Tail(todo) /\ phase' = "files"
      /\ UNCHANGED <<project, remaining, selected, answer>>
  BY DEF AddsOne
<1>2. /\ todo \in Seq(D) /\ \A i, j \in DOMAIN todo : todo[i] = todo[j] => i = j
      /\ \A i, j \in AllSections : sections[i].file = sections[j].file => i = j
  BY DEF Accounting
<1>3. s.file = todo[1]
  BY DEF AddsOne
<1>4. /\ todo' \in Seq(D) /\ todo[1] \in Elements(todo)
      /\ \A i, j \in DOMAIN todo' : todo'[i] = todo'[j] => i = j
      /\ Elements(todo') = Elements(todo) \ {todo[1]}
  BY <1>1, <1>2, TailElements
<1>5. PICK S : sections \in Seq(S)
  BY DEF Accounting
<1> DEFINE m == Len(sections)
<1>6. /\ sections' \in Seq(S \cup {s})
      /\ AllSections = 1 .. m /\ AllSections' = 1 .. m \cup {m + 1} /\ m \in Nat
      /\ \A i \in AllSections : sections'[i] = sections[i]
      /\ sections'[m + 1] = s
  BY <1>1, <1>5, AppendIs DEF AllSections
<1> HIDE DEF m
<1>7. FilesOf(AllSections)' = FilesOf(AllSections) \cup {todo[1]}
  BY <1>3, <1>6 DEF FilesOf
<1>8. /\ FilesOf(AllSections) \cap (Elements(remaining) \cup Elements(todo)) = {}
      /\ Elements(remaining) \cap Elements(todo) = {}
      /\ Elements(selected) = FilesOf(AllSections) \cup Elements(remaining) \cup Elements(todo)
  BY DEF Accounting
<1>9. \A i, j \in AllSections' : sections'[i].file = sections'[j].file => i = j
  <2>1. \A i \in 1 .. m : sections'[i].file # todo[1]
    BY <1>4, <1>6, <1>8 DEF FilesOf
  <2>2. \A i, j \in 1 .. m : sections'[i].file = sections'[j].file => i = j
    BY <1>2, <1>6
  <2>3. sections'[m + 1].file = todo[1]
    BY <1>3, <1>6
  <2> SUFFICES ASSUME NEW i \in 1 .. m \cup {m + 1}, NEW j \in 1 .. m \cup {m + 1},
                      sections'[i].file = sections'[j].file
               PROVE  i = j
    BY <1>6
  <2>4. CASE i = m + 1
    BY <2>1, <2>3, <2>4
  <2>5. CASE j = m + 1
    BY <2>1, <2>3, <2>5
  <2> QED
    BY <2>2, <2>4, <2>5
<1>10. Elements(remaining)' = Elements(remaining) /\ Elements(todo)' = Elements(todo')
       /\ Elements(selected)' = Elements(selected)
  BY <1>1 DEF Elements
<1>11. /\ FilesOf(AllSections)' \cap (Elements(remaining)' \cup Elements(todo)') = {}
       /\ Elements(remaining)' \cap Elements(todo)' = {}
       /\ Elements(selected)' = FilesOf(AllSections)' \cup Elements(remaining)' \cup Elements(todo)'
  BY <1>4, <1>7, <1>8, <1>10
<1>12. answer' = NoAnswer /\ remaining' \in Seq(D) /\ IsFiniteSet(DOMAIN project'.lines)
  BY <1>1 DEF Accounting
<1>13. FilesAccounted'
  BY <1>12 DEF FilesAccounted, NoAnswer
<1> QED
  BY <1>1, <1>4, <1>6, <1>9, <1>11, <1>12, <1>13 DEF Accounting

LEMMA SmallerOf ==
    ASSUME NEW a \in Nat, NEW b \in Nat
    PROVE  Min({a, b}) \in 0 .. b
<1>1. \E x \in {a, b} : \A y \in {a, b} : x =< y
  OBVIOUS
<1>2. Min({a, b}) \in {a, b} /\ \A y \in {a, b} : Min({a, b}) =< y
  BY <1>1 DEF Min
<1> QED
  BY <1>2

LEMMA RelevantFiles == Relevant \subseteq DOMAIN project.lines
<1>1. Scored \subseteq DOMAIN project.lines
  BY DEF Scored
<1> QED
  BY <1>1 DEF Relevant

\* The selected files are different ones, each of them relevant.
LEMMA Selecting ==
    ASSUME Accounting, SelectFiles
    PROVE  \E k \in Nat : /\ selected' \in Seq(Relevant) /\ DOMAIN selected' = 1 .. k
                          /\ \A i, j \in 1 .. k : selected'[i] = selected'[j] => i = j
<1>1. PICK order \in SetToSeqs(Relevant) : selected' = SubSeq(order, 1, Min({MaxFiles, Len(order)}))
  BY DEF SelectFiles
<1>2. IsFiniteSet(Relevant)
  BY RelevantFiles, FS_Subset DEF Accounting
<1> DEFINE n == Cardinality(Relevant)
<1>3. n \in Nat
  BY <1>2, FS_CardinalityType
<1>4. order \in [1 .. n -> Relevant] /\ \A i, j \in 1 .. n : i # j => order[i] # order[j]
  BY DEF SetToSeqs
<1> HIDE DEF n
<1>5. order \in Seq(Relevant) /\ Len(order) = n
  BY <1>3, <1>4, IsSeq
<1> DEFINE k == Min({MaxFiles, n})
<1>6. k \in 0 .. n
  <2>1. MaxFiles \in Nat
    BY ExploreAssumption
  <2> QED
    BY <1>3, <2>1, SmallerOf
<1>7. selected' = SubSeq(order, 1, k)
  BY <1>1, <1>5
<1> HIDE DEF k
<1>8. k \in Int /\ \A i \in 1 .. k : i \in 1 .. n /\ order[i] \in Relevant
  BY <1>3, <1>4, <1>6
<1>9. /\ selected' \in Seq(Relevant) /\ Len(selected') = (IF 1 <= k THEN k - 1 + 1 ELSE 0)
      /\ \A i \in 1 .. k - 1 + 1 : selected'[i] = order[1 + i - 1]
  BY <1>7, <1>8, SubSeqProperties
<1>10. Len(selected') = k /\ \A i \in 1 .. k : selected'[i] = order[i]
  BY <1>6, <1>9
<1> QED
  BY <1>3, <1>4, <1>6, <1>8, <1>9, <1>10

\* The files are selected, none of them twice.
LEMMA Selects == Accounting /\ SelectFiles => Accounting'
<1> SUFFICES ASSUME Accounting, SelectFiles PROVE Accounting'
  OBVIOUS
<1> DEFINE D == DOMAIN project.lines
<1>1. /\ todo' = selected' /\ phase' = "files" /\ phase = "flow"
      /\ UNCHANGED <<project, sections, remaining, answer>>
  BY DEF SelectFiles
<1>2. PICK k \in Nat : /\ selected' \in Seq(Relevant) /\ DOMAIN selected' = 1 .. k
                       /\ \A i, j \in 1 .. k : selected'[i] = selected'[j] => i = j
  BY Selecting
<1>3. selected' \in Seq(D)
  BY <1>2, RelevantFiles, SeqMonotone
<1>4. \A i, j \in DOMAIN todo' : todo'[i] = todo'[j] => i = j
  BY <1>1, <1>2
<1>5. sections = <<>> /\ remaining = <<>> /\ answer = NoAnswer
  BY <1>1 DEF Accounting
<1>6. FilesOf(AllSections)' = {} /\ Elements(remaining)' = {} /\ AllSections' = {}
  BY <1>1, <1>5 DEF FilesOf, AllSections, Elements
<1>7. Elements(selected)' = Elements(todo)'
  BY <1>1 DEF Elements
<1>8. FilesAccounted'
  BY <1>1, <1>5 DEF FilesAccounted, NoAnswer
<1>9. (\E S : sections' \in Seq(S)) /\ remaining' \in Seq(DOMAIN project'.lines) /\ IsFiniteSet(DOMAIN project'.lines)
  BY <1>1 DEF Accounting
<1> QED
  BY <1>1, <1>3, <1>4, <1>5, <1>6, <1>7, <1>8, <1>9 DEF Accounting

\* The list names what it does not count, and counts each of the others once.
LEMMA ListCounts ==
    ASSUME NEW S, NEW list \in Seq(S), \A i, j \in DOMAIN list : list[i] = list[j] => i = j
    PROVE  /\ Named(list) \subseteq Elements(list)
           /\ Cardinality(Elements(list) \ Named(list)) = More(list)
<1> DEFINE I == {i \in DOMAIN list : i > ListMax}
           T == Elements(list) \ Named(list)
           f == [i \in I |-> list[i]]
<1>1. Named(list) \subseteq Elements(list)
  BY DEF Named, Elements
<1>2. Len(list) \in Nat /\ DOMAIN list = 1 .. Len(list) /\ ListMax \in Nat
  BY ExploreAssumption
<1>3. IsFiniteSet(I)
  <2>1. IsFiniteSet(1 .. Len(list)) /\ I \subseteq 1 .. Len(list)
    BY <1>2, FS_Interval
  <2> QED
    BY <2>1, FS_Subset
<1>4. \A i \in I : list[i] \in T
  <2> SUFFICES ASSUME NEW i \in I, list[i] \in Named(list) PROVE FALSE
    BY DEF Elements
  <2>1. PICK j \in DOMAIN list : j <= ListMax /\ list[i] = list[j]
    BY DEF Named
  <2>2. i = j /\ i > ListMax
    BY <2>1
  <2> QED
    BY <1>2, <2>1, <2>2
<1>5. \A e \in T : \E i \in I : list[i] = e
  <2> SUFFICES ASSUME NEW e \in T PROVE \E i \in I : list[i] = e
    OBVIOUS
  <2>1. PICK i \in DOMAIN list : list[i] = e
    BY DEF Elements
  <2>2. ~(i <= ListMax)
    BY <2>1 DEF Named
  <2>3. i > ListMax
    BY <1>2, <2>2
  <2> QED
    BY <2>1, <2>3
<1>6. f \in [I -> T] /\ (\A e \in T : \E i \in I : f[i] = e) /\ \A i, j \in I : f[i] = f[j] => i = j
  <2> HIDE DEF T
  <2>1. \A i \in I : f[i] = list[i]
    OBVIOUS
  <2>2. \A i, j \in I : list[i] = list[j] => i = j
    OBVIOUS
  <2>3. f \in [I -> T]
    BY <1>4
  <2> HIDE DEF I, f
  <2> QED
    BY <1>5, <2>1, <2>2, <2>3
<1>7. More(list) = Cardinality(I)
  BY DEF More
<1> HIDE DEF I, T, f
<1>8. f \in Bijection(I, T)
  BY <1>6 DEF Bijection, Injection, Surjection, IsInjective
<1>9. Cardinality(T) = Cardinality(I)
  BY <1>3, <1>8, FS_Bijection DEF ExistsBijection
<1> QED
  BY <1>1, <1>7, <1>9 DEF T

\* The files that are cut off join the list, but for those with a blank.
LEMMA CutList ==
    ASSUME NEW S, sections \in Seq(S), \A i, j \in AllSections : sections[i].file = sections[j].file => i = j,
           NEW cut \in SUBSET AllSections
    PROVE  \E T : /\ CutFiles(cut) \in Seq(T)
                  /\ \A i, j \in DOMAIN CutFiles(cut) : CutFiles(cut)[i] = CutFiles(cut)[j] => i = j
                  /\ Elements(CutFiles(cut)) = FilesOf(cut) \ Blank
                  /\ Len(CutFiles(cut)) <= Len(sections)
<1> DEFINE at == {i \in cut : sections[i].file \notin Blank}
           found == Picked(sections, at)
           n == Len(found)
           c == [k \in DOMAIN found |-> found[k].file]
           T == {found[k].file : k \in DOMAIN found}
<1>1. CutFiles(cut) = c
  BY DEF CutFiles
<1>2. found \in Seq(S)
  BY PickedIs
<1>3. PICK h : PickedBy(sections, at, found, h)
  BY PickedIs
<1>4. n \in Nat /\ DOMAIN found = 1 .. n
  BY <1>2
<1>5. DOMAIN sections \cap at = at /\ at \subseteq AllSections
  BY DEF AllSections
<1>6. /\ h \in [1 .. n -> at]
      /\ \A k \in 1 .. n : found[k] = sections[h[k]]
      /\ \A j, k \in 1 .. n : j < k => h[j] < h[k]
      /\ \A i \in at : \E k \in 1 .. n : h[k] = i
  BY <1>3, <1>5 DEF PickedBy
<1>7. AllSections = 1 .. Len(sections) /\ Len(sections) \in Nat
  BY DEF AllSections
<1>8. /\ \A i \in at : sections[i].file \in FilesOf(cut) \ Blank
      /\ \A e \in FilesOf(cut) \ Blank : \E i \in at : sections[i].file = e
  BY DEF FilesOf
<1> HIDE DEF found, n, at
<1>9. c \in [1 .. n -> T] /\ \A k \in 1 .. n : c[k] = sections[h[k]].file /\ h[k] \in at /\ h[k] \in AllSections
  BY <1>4, <1>5, <1>6
<1> HIDE DEF c, T
<1>10. c \in Seq(T) /\ Len(c) = n /\ DOMAIN c = 1 .. n
  BY <1>4, <1>9, IsSeq
<1>11. \A i, j \in 1 .. n : c[i] = c[j] => i = j
  <2> SUFFICES ASSUME NEW i \in 1 .. n, NEW j \in 1 .. n, c[i] = c[j] PROVE i = j
    OBVIOUS
  <2>1. h[i] = h[j] /\ h[i] \in 1 .. Len(sections)
    BY <1>7, <1>9
  <2>2. ~(i < j) /\ ~(j < i)
    BY <1>6, <1>7, <1>9, <2>1
  <2> QED
    BY <1>4, <2>2
<1>12. Elements(c) = FilesOf(cut) \ Blank
  <2>1. \A k \in 1 .. n : c[k] \in FilesOf(cut) \ Blank
    BY <1>8, <1>9
  <2>2. ASSUME NEW e \in FilesOf(cut) \ Blank PROVE \E k \in 1 .. n : c[k] = e
    <3>1. PICK i \in at : sections[i].file = e
      BY <1>8, <2>2
    <3>2. PICK k \in 1 .. n : h[k] = i
      BY <1>6, <3>1
    <3> QED
      BY <1>9, <3>1, <3>2
  <2> QED
    BY <1>10, <2>1, <2>2 DEF Elements
<1>13. n <= Len(sections)
  <2>1. IsFiniteSet(1 .. n) /\ IsFiniteSet(1 .. Len(sections))
        /\ Cardinality(1 .. n) = n /\ Cardinality(1 .. Len(sections)) = Len(sections)
    <3>1. \A k \in Nat : /\ IsFiniteSet(1 .. k)
                         /\ Cardinality(1 .. k) = IF 1 > k THEN 0 ELSE k - 1 + 1
      BY FS_Interval
    <3>2. \A k \in Nat : (IF 1 > k THEN 0 ELSE k - 1 + 1) = k
      OBVIOUS
    <3> QED
      BY <1>4, <1>7, <3>1, <3>2
  <2>2. h \in Injection(1 .. n, 1 .. Len(sections))
    <3>1. \A k \in 1 .. n : h[k] \in 1 .. Len(sections)
      BY <1>7, <1>9
    <3>2. \A i, j \in 1 .. n : h[i] = h[j] => i = j
      BY <1>9, <1>11
    <3>3. h \in [1 .. n -> 1 .. Len(sections)]
      BY <1>6, <3>1
    <3> QED
      BY <3>2, <3>3 DEF Injection, IsInjective
  <2> QED
    BY <2>1, <2>2, FS_Injection
<1> QED
  BY <1>1, <1>10, <1>11, <1>12, <1>13

Distinct(s) == \A i, j \in DOMAIN s : s[i] = s[j] => i = j

LEMMA Joined ==
    \A S : \A s, t \in Seq(S) :
       Elements(s) \cap Elements(t) = {} /\ Distinct(s) /\ Distinct(t)
       => /\ s \o t \in Seq(S)
          /\ Distinct(s \o t)
          /\ Elements(s \o t) = Elements(s) \cup Elements(t)
<1> SUFFICES ASSUME NEW S, NEW s \in Seq(S), NEW t \in Seq(S),
                    Elements(s) \cap Elements(t) = {}, Distinct(s), Distinct(t)
             PROVE  /\ s \o t \in Seq(S)
                    /\ Distinct(s \o t)
                    /\ Elements(s \o t) = Elements(s) \cup Elements(t)
  OBVIOUS
<1> DEFINE u == s \o t
           m == Len(s)
           n == Len(t)
<1>1. m \in Nat /\ n \in Nat /\ DOMAIN s = 1 .. m /\ DOMAIN t = 1 .. n
  OBVIOUS
<1>3. /\ u \in Seq(S) /\ Len(u) = m + n /\ DOMAIN u = 1 .. m + n
      /\ \A i \in 1 .. m : u[i] = s[i]
      /\ \A i \in m + 1 .. m + n : u[i] = t[i - m]
  OBVIOUS
<1> HIDE DEF u, m, n
<1>4. /\ \A i \in 1 .. m + n : i \in 1 .. m \/ (i \in m + 1 .. m + n /\ i - m \in 1 .. n)
      /\ \A i \in 1 .. m : i \in 1 .. m + n
      /\ \A i \in 1 .. n : i + m \in 1 .. m + n /\ i + m \in m + 1 .. m + n /\ i + m - m = i
  BY <1>1
<1>5. Elements(u) = Elements(s) \cup Elements(t)
  <2>1. ASSUME NEW i \in 1 .. m + n PROVE u[i] \in Elements(s) \cup Elements(t)
    <3>1. CASE i \in 1 .. m
      BY <1>1, <1>3, <3>1 DEF Elements
    <3>2. CASE i \in m + 1 .. m + n /\ i - m \in 1 .. n
      BY <1>1, <1>3, <3>2 DEF Elements
    <3> QED
      BY <1>4, <3>1, <3>2
  <2>2. \A e \in Elements(s) : \E i \in 1 .. m + n : u[i] = e
    BY <1>1, <1>3, <1>4 DEF Elements
  <2>3. ASSUME NEW e \in Elements(t) PROVE \E i \in 1 .. m + n : u[i] = e
    <3>1. PICK i \in 1 .. n : t[i] = e
      BY <1>1, <2>3 DEF Elements
    <3>2. PICK k : k = i + m
      OBVIOUS
    <3>3. k \in 1 .. m + n /\ k \in m + 1 .. m + n /\ k - m = i
      BY <1>1, <3>2
    <3>4. u[k] = t[i]
      BY <1>3, <3>3
    <3> QED
      BY <3>1, <3>3, <3>4
  <2>4. Elements(u) \subseteq Elements(s) \cup Elements(t)
    BY <1>3, <2>1 DEF Elements
  <2>5. Elements(s) \subseteq Elements(u) /\ Elements(t) \subseteq Elements(u)
    <3>1. \A i \in 1 .. m + n : u[i] \in Elements(u)
      BY <1>3 DEF Elements
    <3> QED
      BY <2>2, <2>3, <3>1
  <2> QED
    BY <2>4, <2>5
<1>6. ASSUME NEW i \in 1 .. m + n, NEW j \in 1 .. m + n, u[i] = u[j] PROVE i = j
  <2>1. CASE i \in 1 .. m /\ j \in 1 .. m
    BY <1>1, <1>3, <1>6, <2>1 DEF Distinct
  <2>2. CASE i \in m + 1 .. m + n /\ i - m \in 1 .. n /\ j \in m + 1 .. m + n /\ j - m \in 1 .. n
    <3>1. t[i - m] = t[j - m]
      BY <1>3, <1>6, <2>2
    <3>2. i - m = j - m
      BY <1>1, <2>2, <3>1 DEF Distinct
    <3> QED
      BY <1>1, <2>2, <3>2
  <2>3. ASSUME NEW k \in 1 .. m, NEW l \in m + 1 .. m + n, l - m \in 1 .. n, u[k] = u[l] PROVE FALSE
    <3>1. s[k] = t[l - m]
      BY <1>3, <2>3
    <3>2. s[k] \in Elements(s) /\ t[l - m] \in Elements(t)
      BY <1>1, <2>3 DEF Elements
    <3> QED
      BY <3>1, <3>2
  <2> QED
    BY <1>4, <1>6, <2>1, <2>2, <2>3
<1> QED
  BY <1>3, <1>5, <1>6 DEF Distinct, u

\* What the answer does not show it names or counts.
LEMMA Finishes == Accounting /\ Finish => Accounting'
<1> SUFFICES ASSUME Accounting, Finish PROVE Accounting'
  OBVIOUS
<1>1. /\ phase = "files" /\ todo = <<>> /\ phase' = "done"
      /\ UNCHANGED <<project, todo, sections, remaining, selected>>
  BY DEF Finish
<1>2. \/ answer' = Whole
      \/ answer' = CutSource(SourceRoom)
      \/ answer' = CutAnywhere
  BY DEF Finish
<1> DEFINE F == FilesOf(AllSections)
           R == Elements(remaining)
           E == Elements(selected)
<1>3. /\ F \cap R = {} /\ E = F \cup R
      /\ \A i, j \in AllSections : sections[i].file = sections[j].file => i = j
      /\ \A i, j \in DOMAIN remaining : remaining[i] = remaining[j] => i = j
      /\ remaining \in Seq(DOMAIN project.lines)
  <2>1. Elements(todo) = {}
    BY <1>1 DEF Elements
  <2> QED
    BY <2>1 DEF Accounting
<1>4. PICK S : sections \in Seq(S)
  BY DEF Accounting
<1>5. ASSUME NEW shown, NEW rest, NEW N, NEW more,
             answer'.shown = shown, answer'.named = N, answer'.more = more,
             shown \subseteq F, shown \cap N = {},
             rest = E \ (shown \cup N), Cardinality(rest \ ((Blank \cap F) \ shown)) = more
      PROVE  FilesAccounted'
  <2>1. F' = F /\ E' = E
    BY <1>1 DEF FilesOf, AllSections, Elements
  <2>2. {selected'[i] : i \in DOMAIN selected'} = E
    BY <2>1 DEF Elements
  <2>3. FilesOf(AllSections)' = F
    BY <2>1
  <2> HIDE DEF E, F
  <2> QED
    BY <1>5, <2>2, <2>3 DEF FilesAccounted
<1>6. FilesAccounted'
  <2>1. CASE answer' = Whole
    <3>1. answer'.shown = F /\ answer'.named = Named(remaining) /\ answer'.more = More(remaining)
      BY <2>1 DEF Whole, Answer
    <3>2. Named(remaining) \subseteq R /\ Cardinality(R \ Named(remaining)) = More(remaining)
      BY <1>3, ListCounts
    <3> HIDE DEF F, R, E
    <3>3. F \cap Named(remaining) = {} /\ R \ Named(remaining) = (E \ (F \cup Named(remaining))) \ ((Blank \cap F) \ F)
      BY <1>3, <3>2
    <3> QED
      BY <1>5, <3>1, <3>2, <3>3
  <2>2. CASE answer' = CutSource(SourceRoom)
    <3>1. PICK cut \in SUBSET AllSections :
             /\ answer'.shown = FilesOf(AllSections \ cut)
             /\ answer'.named = Named(remaining \o CutFiles(cut))
             /\ answer'.more = More(remaining \o CutFiles(cut))
      <4> DEFINE begun == {i \in AllSections : Start(i) < SourceRoom}
                 last == IF begun = {} THEN 0 ELSE Start(Max(begun))
                 boundary == IF 10 * last > 3 * SourceRoom THEN last ELSE SourceRoom
                 cut == {i \in AllSections : Start(i) >= boundary}
                 list == remaining \o CutFiles(cut)
      <4>1. answer' = Answer("source_cut", StructureSize + boundary + ListSize(list) + Truncated, AllSections \ cut, list)
        BY <2>2 DEF CutSource
      <4>2. cut \in SUBSET AllSections
        OBVIOUS
      <4> HIDE DEF cut, boundary, list
      <4>3. answer'.shown = FilesOf(AllSections \ cut) /\ answer'.named = Named(list) /\ answer'.more = More(list)
        BY <4>1 DEF Answer
      <4> QED
        BY <4>2, <4>3 DEF list
    <3> DEFINE A == FilesOf(AllSections \ cut)
               B == FilesOf(cut)
               c == CutFiles(cut)
               list == remaining \o c
    <3>2. F = A \cup B /\ A \cap B = {}
      BY <1>3 DEF FilesOf
    <3>3. PICK T : c \in Seq(T) /\ (\A i, j \in DOMAIN c : c[i] = c[j] => i = j) /\ Elements(c) = B \ Blank
      BY <1>3, <1>4, CutList
    <3>4. answer'.shown = A /\ answer'.named = Named(list) /\ answer'.more = More(list)
      BY <3>1
    <3> HIDE DEF A, B, F, E, c
    <3>5. R \cap Elements(c) = {}
      BY <1>3, <3>2, <3>3
    <3> DEFINE D == DOMAIN project.lines
    <3>6. remaining \in Seq(D)
      BY <1>3
    <3> HIDE DEF D
    <3>7. /\ list \in Seq(D \cup T)
          /\ \A i, j \in DOMAIN list : list[i] = list[j] => i = j
          /\ Elements(list) = R \cup (B \ Blank)
      <4>1. Elements(remaining) \cap Elements(c) = {} /\ c \in Seq(T)
        BY <3>3, <3>5
      <4>2. Distinct(remaining)
        BY <1>3 DEF Distinct
      <4>3. Distinct(c)
        BY <3>3 DEF Distinct
      <4>4. /\ list \in Seq(D \cup T)
            /\ Distinct(list)
            /\ Elements(list) = Elements(remaining) \cup Elements(c)
        <5> DEFINE Z == D \cup T
        <5>2. remaining \in Seq(Z) /\ c \in Seq(Z)
          BY <3>6, <4>1, SeqMonotone
        <5> HIDE DEF Z
        <5>3. list \in Seq(Z) /\ Distinct(list) /\ Elements(list) = Elements(remaining) \cup Elements(c)
          BY <4>1, <4>2, <4>3, <5>2, Joined
        <5> QED
          BY <5>3 DEF Z
      <4> HIDE DEF list
      <4> QED
        BY <3>3, <4>4 DEF Distinct
    <3> HIDE DEF list, R
    <3>8. Named(list) \subseteq R \cup (B \ Blank) /\ Cardinality((R \cup (B \ Blank)) \ Named(list)) = More(list)
      BY <3>7, ListCounts
    <3>9. /\ A \cap Named(list) = {} /\ A \subseteq F
          /\ (R \cup (B \ Blank)) \ Named(list) = (E \ (A \cup Named(list))) \ ((Blank \cap F) \ A)
      BY <1>3, <3>2, <3>8
    <3> QED
      BY <1>5, <3>4, <3>8, <3>9
  <2>3. CASE answer' = CutAnywhere
    <3>1. answer'.how = "cut"
      BY <2>3 DEF CutAnywhere, Answer
    <3> QED
      BY <3>1, NotYet
  <2> QED
    BY <1>2, <2>1, <2>2, <2>3
<1> QED
  BY <1>1, <1>6, SameFiles DEF Accounting

LEMMA AccountingStep == Accounting /\ [Next]_vars => Accounting'
<1> SUFFICES ASSUME Accounting, [Next]_vars PROVE Accounting'
  OBVIOUS
<1>1. ASSUME UNCHANGED <<project, todo, sections, remaining, selected, answer, phase>> PROVE Accounting'
  <2>1. FilesAccounted /\ answer' = answer /\ selected' = selected /\ sections' = sections
    BY <1>1 DEF Accounting
  <2>2. FilesAccounted'
    BY <2>1 DEF FilesAccounted, FilesOf, AllSections
  <2> QED
    BY <1>1, <2>2, SameFiles DEF Accounting
<1>2. phase = "render" => todo # <<>>
  BY DEF Accounting
<1>3. ASSUME phase \in {"files", "render"}, todo # <<>>, LeavesOne \/ \E s : AddsOne(s) PROVE Accounting'
  BY <1>3, Leaves, Adds
<1>4. \A forSize : LeaveOut(forSize) => LeavesOne
  BY DEF LeaveOut, LeavesOne, Current
<1>5. ASSUME NEW how, NEW text, NEW size, NEW partly, AddSection(how, text, size, partly)
      PROVE  \E s : AddsOne(s)
  <2> DEFINE s == [file |-> Current, how |-> how, text |-> text, size |-> size]
  <2>1. s.file = todo[1]
    BY DEF Current
  <2>2. /\ sections' = Append(sections, s) /\ todo' = Tail(todo) /\ phase' = "files"
        /\ UNCHANGED <<project, remaining, selected, answer>>
    BY <1>5 DEF AddSection
  <2> HIDE DEF s
  <2> QED
    BY <2>1, <2>2 DEF AddsOne
<1>6. ASSUME NEW how, NEW text, NEW partly, Show(how, text, partly) PROVE LeavesOne \/ \E s : AddsOne(s)
  <2>1. CASE Refused(text)
    BY <1>4, <1>6, <2>1 DEF Show
  <2>2. CASE ~Refused(text)
    <3> DEFINE size == CapNecessarySection(SectionSize(text))
               p == partly \/ Oversize(SectionSize(text))
    <3>1. AddSection(how, text, size, p)
      BY <1>6, <2>2 DEF Show
    <3> HIDE DEF size, p
    <3> QED
      BY <1>5, <3>1
  <2> QED
    BY <2>1, <2>2
<1>7. CASE TraceFlow
  BY <1>1, <1>7 DEF TraceFlow, exploreVars
<1>8. CASE SelectFiles
  BY <1>8, Selects
<1>9. CASE FindNothing
  <2>1. /\ phase = "flow" /\ answer'.how = "nothing" /\ phase' = "done"
        /\ UNCHANGED <<project, todo, sections, remaining, selected>>
    BY <1>9 DEF FindNothing, NoAnswer
  <2>2. FilesAccounted'
    BY <2>1, NotYet
  <2> QED
    BY <2>1, <2>2, SameFiles DEF Accounting
<1>10. CASE ReadFile
  <2>1. phase = "files" /\ todo # <<>>
    BY <1>10 DEF ReadFile
  <2>2. CASE LeaveOut(FALSE)
    BY <1>3, <1>4, <2>1, <2>2
  <2>3. CASE phase' = "render" /\ UNCHANGED <<project, todo, sections, remaining, selected, answer>>
    <3>1. answer' = NoAnswer
      BY <2>1, <2>3 DEF Accounting
    <3>2. FilesAccounted'
      BY <3>1, NotYet DEF NoAnswer
    <3> QED
      BY <2>1, <2>3, <3>1, <3>2, SameFiles DEF Accounting
  <2> QED
    BY <1>10, <2>2, <2>3 DEF ReadFile
<1>11. CASE ShowWhole
  <2>1. phase = "render" /\ (LeaveOut(FALSE) \/ Show("whole", LinesFrom(1, disk[Current]), FALSE))
    BY <1>11 DEF ShowWhole
  <2> QED
    BY <1>2, <1>3, <1>4, <1>6, <2>1
<1>12. CASE ShowSkeleton
  <2>1. phase = "render" /\ (LeaveOut(TRUE) \/ AddSection("skeleton", Skeleton, SectionSize(Skeleton), FALSE))
    BY <1>12 DEF ShowSkeleton
  <2> QED
    BY <1>2, <1>3, <1>4, <1>5, <2>1
<1>13. CASE ShowOversized
  <2>1. phase = "render" /\ AddSection("skeleton", Skeleton, SectionSize(Skeleton), FALSE)
    BY <1>13 DEF ShowOversized
  <2> QED
    BY <1>2, <1>3, <1>5, <2>1
<1>14. CASE ShowClusters
  <2>1. phase = "render" /\ (LeaveOut(FALSE) \/ \E text, partly : Show("clusters", text, partly))
    BY <1>14 DEF ShowClusters
  <2> QED
    BY <1>2, <1>3, <1>4, <1>6, <2>1
<1>15. CASE Finish
  BY <1>15, Finishes
<1>16. CASE EditFile
  BY <1>1, <1>16 DEF EditFile
<1>17. CASE UNCHANGED vars
  BY <1>1, <1>17 DEF vars, exploreVars
<1> QED
  BY <1>7, <1>8, <1>9, <1>10, <1>11, <1>12, <1>13, <1>14, <1>15, <1>16, <1>17 DEF Next

\* No selected file is lost (explore, _add_remaining, format_remaining_files): an
\* answer with room for the source shows each of them, names it or counts it, and
\* no two of these, whatever the files have become meanwhile and wherever the
\* answer was cut, but for a file that was cut off and has a blank in its path.
THEOREM NoFileLost == Spec => []FilesAccounted
<1>1. Accounting => FilesAccounted
  BY DEF Accounting
<1> QED
  BY <1>1, AccountStart, AccountingStep, PTL DEF Spec

-----------------------------------------------------------------------------
(* What the search does not miss. *)

Known == named \cup {e[2] : e \in calls}

Row(a, b, c) == a # c /\ <<a, b>> \in calls /\ <<b, c>> \in calls /\ <<a, c>> \notin calls

Waits(n, d) == \E i \in DOMAIN queue : queue[i].id = n /\ queue[i].depth >= d

\* From the seed a call leads to b and from there to c: either it is still all
\* ahead, or b waits one call away, or c has been found, two calls away or more.
Underway(b, c) ==
    /\ \/ queue = <<Entry(seed, 0, 0)>> /\ DOMAIN parent = {seed}
       \/ \E i \in DOMAIN queue : queue[i].id = b /\ queue[i].depth = 1
       \/ c \in DOMAIN parent
    /\ c \in DOMAIN parent => deep.depth >= 2 \/ Waits(c, 2)

FoundInv ==
    /\ NoSeed \notin named
    /\ IsFiniteSet(Known) /\ Cardinality(Known) <= ParentLimit
    /\ DOMAIN parent \subseteq Known
    /\ best \in Seq(Known)
    /\ phase # "flow" => seeds = {} /\ seed = NoSeed
    /\ MaxDepth >= 3 =>
          \A a, b, c \in named : Row(a, b, c) => a \in seeds \/ (a = seed /\ Underway(b, c)) \/ Len(best) >= 3

LEMMA FoundStart == FewSymbols /\ Init => FoundInv
<1> SUFFICES ASSUME FewSymbols, Init PROVE FoundInv
  OBVIOUS
<1> DEFINE T == {project.edges[i].target : i \in DOMAIN project.edges}
<1>1. /\ project \in Projects /\ named = project.named /\ parent = <<>> /\ best = <<>> /\ phase = "flow"
      /\ calls = {<<project.edges[i].source, project.edges[i].target>> :
                    i \in Sites(project.edges, LAMBDA e : e.kind = "calls")}
      /\ seeds = IF Cardinality(named) >= 2 THEN named ELSE {}
  BY DEF Init, FlowInit
<1>2. NoSeed \notin named /\ IsFiniteSet(named) /\ IsFiniteSet(DOMAIN project.edges)
      /\ Cardinality(named \cup T) <= ParentLimit
  BY <1>1, ExploreAssumption DEF FewSymbols
<1>3. IsFiniteSet(T)
  <2> DEFINE f == [i \in DOMAIN project.edges |-> project.edges[i].target]
  <2>1. f \in [DOMAIN project.edges -> T] /\ \A t \in T : \E i \in DOMAIN project.edges : f[i] = t
    OBVIOUS
  <2> HIDE DEF f, T
  <2>2. f \in Surjection(DOMAIN project.edges, T)
    BY <2>1 DEF Surjection
  <2> QED
    BY <1>2, <2>2, FS_Surjection
<1>4. Known \subseteq named \cup T
  <2> SUFFICES ASSUME NEW e \in calls PROVE e[2] \in T
    BY DEF Known
  <2>1. PICK i \in Sites(project.edges, LAMBDA x : x.kind = "calls") :
           e = <<project.edges[i].source, project.edges[i].target>>
    BY <1>1
  <2> QED
    BY <2>1 DEF Sites
<1> HIDE DEF T
<1>5. IsFiniteSet(named \cup T)
  BY <1>2, <1>3, FS_Union
<1>6. IsFiniteSet(Known) /\ Cardinality(Known) <= ParentLimit
  <2>1. IsFiniteSet(Known) /\ Cardinality(Known) <= Cardinality(named \cup T)
    BY <1>4, <1>5, FS_Subset
  <2>2. Cardinality(Known) \in Nat /\ Cardinality(named \cup T) \in Nat /\ ParentLimit \in Nat
    BY <1>5, <2>1, FS_CardinalityType, FlowAssumption
  <2> QED
    BY <1>2, <2>1, <2>2
<1>7. ASSUME NEW a \in named, NEW c \in named, a # c PROVE a \in seeds
  <2>1. IsFiniteSet({a}) /\ Cardinality({a}) = 1
    BY FS_Singleton
  <2>2. IsFiniteSet({a} \cup {c}) /\ Cardinality({a} \cup {c}) = 2
    BY <1>7, <2>1, FS_AddElement
  <2>3. {a} \cup {c} \subseteq named
    OBVIOUS
  <2>4. 2 <= Cardinality(named) /\ Cardinality(named) \in Nat
    BY <1>2, <2>2, <2>3, FS_Subset, FS_CardinalityType
  <2> QED
    BY <1>1, <2>4
<1>8. DOMAIN parent \subseteq Known /\ best \in Seq(Known)
  BY <1>1
<1> QED
  BY <1>1, <1>2, <1>6, <1>7, <1>8 DEF FoundInv, Row

LEMMA FoundStarts == FlowInv /\ FoundInv /\ StartTrace /\ UNCHANGED exploreVars => FoundInv'
<1> SUFFICES ASSUME FlowInv, FoundInv, StartTrace, UNCHANGED exploreVars PROVE FoundInv'
  OBVIOUS
<1>1. PICK s \in seeds : /\ seed' = s /\ seeds' = seeds \ {s}
                         /\ parent' = [n \in {s} |-> s]
                         /\ queue' = <<Entry(s, 0, 0)>>
  BY DEF StartTrace
<1>2. UNCHANGED <<calls, named, best, phase>> /\ seed = NoSeed
  BY DEF StartTrace, exploreVars
<1>3. s \in named
  BY <1>1 DEF FlowInv
<1>4. DOMAIN parent' = {s}
  BY <1>1
<1>5. Known' = Known
  BY <1>2 DEF Known
<1>6. ASSUME MaxDepth >= 3, NEW a \in named, NEW b \in named, NEW c \in named, Row(a, b, c)
      PROVE  a \in seeds' \/ (a = seed' /\ Underway(b, c)') \/ Len(best) >= 3
  <2>1. a \in seeds \/ Len(best) >= 3
    BY <1>2, <1>6 DEF FoundInv
  <2>2. CASE a = s
    <3>1. c \notin DOMAIN parent'
      BY <1>4, <1>6, <2>2 DEF Row
    <3> QED
      BY <1>1, <1>4, <2>2, <3>1 DEF Underway
  <2> QED
    BY <1>1, <2>1, <2>2
<1>7. \A a, b, c : Row(a, b, c)' <=> Row(a, b, c)
  BY <1>2 DEF Row
<1>8. /\ NoSeed \notin named' /\ IsFiniteSet(Known') /\ Cardinality(Known') <= ParentLimit
      /\ DOMAIN parent' \subseteq Known' /\ best' \in Seq(Known')
      /\ phase' = "flow"
  <2>1. {s} \subseteq Known
    BY <1>3 DEF Known
  <2>2. phase = "flow"
    BY <1>1 DEF FoundInv
  <2> QED
    BY <1>2, <1>4, <1>5, <2>1, <2>2 DEF FoundInv
<1> QED
  BY <1>2, <1>6, <1>7, <1>8 DEF FoundInv

\* A turn brings a row forward: its second symbol, once at the head of the
\* queue, finds the third; the third, once there, is deep enough.
LEMMA RowForward ==
    ASSUME FlowInv, FoundInv, Trace, seed # NoSeed, MaxDepth >= 3,
           NEW b \in named, NEW c \in named, Row(seed, b, c), Underway(b, c)
    PROVE  Underway(b, c)'
<1> DEFINE item == AtHead
           found == NewlyFound
           X == [id : DOMAIN parent, depth : Nat, streak : Nat]
<1>1. /\ queue \in Seq(X) /\ 1 \in DOMAIN queue /\ item = queue[1]
      /\ item.id \in DOMAIN parent /\ item.depth \in Nat /\ deep.depth \in Nat /\ MaxDepth \in Nat
      /\ parent' = Grown(parent, found, item.id)
      /\ UNCHANGED <<calls, named, seeds, seed, best>>
      /\ DOMAIN parent' = DOMAIN parent \cup found
      /\ \A n \in found : n \notin DOMAIN parent /\ <<item.id, n>> \in calls
  BY TurnIs
<1>2. ~TooMany
  <2>1. Cardinality(DOMAIN parent) <= Cardinality(Known) /\ IsFiniteSet(DOMAIN parent)
    BY FS_Subset DEF FoundInv
  <2>2. Cardinality(DOMAIN parent) \in Nat /\ Cardinality(Known) \in Nat /\ ParentLimit \in Nat
    BY <2>1, FS_CardinalityType, FlowAssumption DEF FoundInv
  <2>3. Cardinality(Known) <= ParentLimit
    BY DEF FoundInv
  <2> QED
    BY <2>1, <2>2, <2>3 DEF TooMany
<1>3. /\ deep' = IF item.id \in named \ {seed} /\ item.depth > deep.depth
                 THEN [id |-> item.id, depth |-> item.depth] ELSE deep
      /\ \A j \in DOMAIN queue \ {1} : \E i \in DOMAIN queue' : queue'[i] = queue[j]
      /\ \A n \in found : \E i \in DOMAIN queue' : queue'[i] = EntryFor(n)
  BY <1>2, TurnIs
<1>4. item.depth < MaxDepth - 1 => found = Callees(item)
  BY <1>1, <1>2 DEF NewlyFound
<1>5. /\ seed # c /\ <<seed, b>> \in calls /\ <<b, c>> \in calls /\ <<seed, c>> \notin calls
  BY DEF Row
<1>6. ASSUME NEW n \in named, <<item.id, n>> \in calls, n \notin DOMAIN parent PROVE n \in Callees(item)
  <2>1. Streak(item, n) <= MaxBridge
    BY <1>6, FlowAssumption DEF Streak
  <2>2. n = <<item.id, n>>[2] /\ item.id = <<item.id, n>>[1]
    OBVIOUS
  <2>3. n \in {e[2] : e \in {e \in calls : e[1] = item.id}}
    BY <1>6, <2>2
  <2> QED
    BY <1>6, <2>1, <2>3 DEF Callees
<1> HIDE DEF item, found, X
<1>7. \A n \in found : EntryFor(n).id = n /\ EntryFor(n).depth = item.depth + 1
  BY DEF EntryFor, Entry, item
<1>8. deep.depth >= 2 => deep'.depth >= 2
  BY <1>1, <1>3
<1>9. c \in DOMAIN parent' => deep'.depth >= 2 \/ Waits(c, 2)'
  <2>1. CASE c \in DOMAIN parent
    <3>1. CASE deep.depth >= 2
      BY <1>8, <3>1
    <3>2. CASE Waits(c, 2)
      <4>1. PICK j \in DOMAIN queue : queue[j].id = c /\ queue[j].depth >= 2
        BY <3>2 DEF Waits
      <4>2. CASE j = 1
        <5>1. item.id \in named \ {seed} /\ item.depth >= 2
          BY <1>1, <1>5, <4>1, <4>2
        <5>2. deep'.depth >= 2
          BY <1>1, <1>3, <5>1
        <5> QED
          BY <5>2
      <4>3. CASE j # 1
        <5>1. \E i \in DOMAIN queue' : queue'[i] = queue[j]
          BY <1>3, <4>3
        <5> QED
          BY <4>1, <5>1 DEF Waits
      <4> QED
        BY <4>2, <4>3
    <3> QED
      BY <2>1, <3>1, <3>2 DEF Underway
  <2>2. CASE c \in found
    <3>1. item.depth >= 1
      <4> SUFFICES ASSUME item.depth = 0 PROVE FALSE
        BY <1>1
      <4>1. Searching
        BY DEF FlowInv
      <4>2. PICK p : Way(parent, seed, p, item.id)
        BY <1>1, <4>1 DEF Searching, Rooted
      <4>3. Knows(item, p)
        BY <1>1, <4>1, <4>2 DEF Searching
      <4>4. Len(p) = 1
        BY <4>3 DEF Knows
      <4>5. item.id = seed
        BY <4>2, <4>4 DEF Way
      <4> QED
        BY <1>1, <1>5, <2>2, <4>5
    <3>2. PICK i \in DOMAIN queue' : queue'[i] = EntryFor(c)
      BY <1>3, <2>2
    <3>3. queue'[i].id = c /\ queue'[i].depth >= 2
      BY <1>1, <1>7, <2>2, <3>1, <3>2
    <3> QED
      BY <3>3 DEF Waits
  <2> QED
    BY <1>1, <2>1, <2>2
<1>10. (\E i \in DOMAIN queue' : queue'[i].id = b /\ queue'[i].depth = 1) \/ c \in DOMAIN parent'
  <2>1. CASE queue = <<Entry(seed, 0, 0)>> /\ DOMAIN parent = {seed}
    <3>1. item.id = seed /\ item.depth = 0
      BY <1>1, <2>1 DEF Entry
    <3>2. b # seed
      BY <1>5
    <3>3. b \in found
      BY <1>1, <1>4, <1>5, <1>6, <2>1, <3>1, <3>2
    <3>4. PICK i \in DOMAIN queue' : queue'[i] = EntryFor(b)
      BY <1>3, <3>3
    <3> QED
      BY <1>7, <3>1, <3>3, <3>4
  <2>2. CASE \E i \in DOMAIN queue : queue[i].id = b /\ queue[i].depth = 1
    <3>1. PICK j \in DOMAIN queue : queue[j].id = b /\ queue[j].depth = 1
      BY <2>2
    <3>2. CASE j = 1
      <4>1. item.id = b /\ item.depth = 1 /\ item.depth < MaxDepth - 1
        BY <1>1, <3>1, <3>2
      <4>2. c \in DOMAIN parent \/ c \in found
        BY <1>4, <1>5, <1>6, <4>1
      <4> QED
        BY <1>1, <4>2
    <3>3. CASE j # 1
      <4>1. \E i \in DOMAIN queue' : queue'[i] = queue[j]
        BY <1>3, <3>3
      <4> QED
        BY <3>1, <4>1
    <3> QED
      BY <3>2, <3>3
  <2>3. CASE c \in DOMAIN parent
    BY <1>1, <2>3
  <2> QED
    BY <2>1, <2>2, <2>3 DEF Underway
<1> QED
  BY <1>9, <1>10 DEF Underway

LEMMA FoundTurns == FlowInv /\ FoundInv /\ Trace /\ UNCHANGED exploreVars => FoundInv'
<1> SUFFICES ASSUME FlowInv, FoundInv, Trace, UNCHANGED exploreVars PROVE FoundInv'
  OBVIOUS
<1>1. /\ UNCHANGED <<calls, named, seeds, seed, best>>
      /\ DOMAIN parent' = DOMAIN parent \cup NewlyFound
      /\ \A n \in NewlyFound : <<AtHead.id, n>> \in calls
  BY TurnIs
<1>2. UNCHANGED phase
  BY DEF exploreVars
<1>3. Known' = Known
  BY <1>1 DEF Known
<1>4. NewlyFound \subseteq Known
  <2> SUFFICES ASSUME NEW n \in NewlyFound PROVE n \in Known
    OBVIOUS
  <2>1. <<AtHead.id, n>> \in calls /\ <<AtHead.id, n>>[2] = n
    BY <1>1
  <2> QED
    BY <2>1 DEF Known
<1>5. \A a, b, c : Row(a, b, c)' <=> Row(a, b, c)
  BY <1>1 DEF Row
<1>6. ASSUME MaxDepth >= 3, NEW a \in named, NEW b \in named, NEW c \in named, Row(a, b, c)
      PROVE  a \in seeds \/ (a = seed /\ Underway(b, c)') \/ Len(best) >= 3
  <2>1. a \in seeds \/ (a = seed /\ Underway(b, c)) \/ Len(best) >= 3
    BY <1>6 DEF FoundInv
  <2>2. CASE a = seed /\ Underway(b, c)
    <3>1. seed # NoSeed
      BY <2>2 DEF FoundInv
    <3> QED
      BY <1>6, <2>2, <3>1, RowForward
  <2> QED
    BY <2>1, <2>2
<1>7. /\ NoSeed \notin named' /\ IsFiniteSet(Known') /\ Cardinality(Known') <= ParentLimit
      /\ DOMAIN parent' \subseteq Known' /\ best' \in Seq(Known')
      /\ phase' # "flow" => seeds' = {} /\ seed' = NoSeed
  BY <1>1, <1>2, <1>3, <1>4 DEF FoundInv
<1> QED
  BY <1>1, <1>5, <1>6, <1>7 DEF FoundInv

LEMMA FoundEnds == FlowInv /\ FoundInv /\ EndTrace /\ UNCHANGED exploreVars => FoundInv'
<1> SUFFICES ASSUME FlowInv, FoundInv, EndTrace, UNCHANGED exploreVars PROVE FoundInv'
  OBVIOUS
<1>1. /\ seed # NoSeed /\ queue = <<>> /\ seed' = NoSeed
      /\ UNCHANGED <<calls, named, seeds, parent, queue, deep, phase>>
      /\ best' = IF deep # NotDeep /\ Len(Chain(deep.id)) > Len(best) THEN Chain(deep.id) ELSE best
  BY DEF EndTrace, exploreVars
<1>2. Searching /\ best \in Seq(Known) /\ DOMAIN parent \subseteq Known /\ deep.depth \in Nat
  BY <1>1 DEF FlowInv, FoundInv
<1>3. Known' = Known /\ \A a, b, c : Row(a, b, c)' <=> Row(a, b, c)
  BY <1>1 DEF Known, Row
<1>4. ASSUME deep # NotDeep
      PROVE  /\ Chain(deep.id) \in Seq(Known)
             /\ Len(Chain(deep.id)) = deep.depth + 1
  <2>1. PICK p : Way(parent, seed, p, deep.id)
    BY <1>2, <1>4 DEF Searching, Rooted
  <2>2. Chain(deep.id) = p
    BY <1>2, <2>1, ChainIsWay DEF Searching
  <2>3. Len(p) = deep.depth + 1
    BY <1>2, <1>4, <2>1 DEF Searching
  <2>4. p \in Seq(DOMAIN parent)
    BY <2>1 DEF Way
  <2>5. p \in Seq(Known)
    BY <1>2, <2>4, SeqMonotone
  <2> QED
    BY <2>2, <2>3, <2>5
<1>5. /\ best' \in Seq(Known) /\ Len(best) \in Nat /\ Len(best') \in Nat /\ Len(best') >= Len(best)
      /\ deep # NotDeep => Len(best') >= deep.depth + 1
  <2>1. Len(best) \in Nat
    BY <1>2
  <2>2. CASE deep # NotDeep
    <3>1. Len(Chain(deep.id)) = deep.depth + 1 /\ Chain(deep.id) \in Seq(Known)
      BY <1>4, <2>2
    <3> QED
      BY <1>1, <1>2, <2>1, <2>2, <3>1
  <2>3. CASE deep = NotDeep
    BY <1>1, <1>2, <2>1, <2>3
  <2> QED
    BY <2>2, <2>3
<1>6. ASSUME MaxDepth >= 3, NEW a \in named, NEW b \in named, NEW c \in named, Row(a, b, c)
      PROVE  a \in seeds \/ Len(best') >= 3
  <2>1. a \in seeds \/ (a = seed /\ Underway(b, c)) \/ Len(best) >= 3
    BY <1>6 DEF FoundInv
  <2>2. CASE Underway(b, c)
    <3>1. DOMAIN queue = {} /\ queue # <<Entry(seed, 0, 0)>>
      BY <1>1
    <3>2. deep.depth >= 2
      BY <2>2, <3>1 DEF Underway, Waits
    <3>3. deep # NotDeep
      BY <3>2 DEF NotDeep
    <3> QED
      BY <1>2, <1>5, <3>2, <3>3
  <2> QED
    BY <1>5, <2>1, <2>2
<1>7. /\ NoSeed \notin named' /\ IsFiniteSet(Known') /\ Cardinality(Known') <= ParentLimit
      /\ DOMAIN parent' \subseteq Known' /\ best' \in Seq(Known')
      /\ phase' # "flow" => seeds' = {} /\ seed' = NoSeed
  BY <1>1, <1>3, <1>5 DEF FoundInv
<1> QED
  BY <1>1, <1>3, <1>6, <1>7 DEF FoundInv

LEMMA FoundStep == FlowInv /\ FoundInv /\ [Next]_vars => FoundInv'
<1> SUFFICES ASSUME FlowInv, FoundInv, [Next]_vars PROVE FoundInv'
  OBVIOUS
<1>1. CASE TraceFlow
  BY <1>1, FoundStarts, FoundTurns, FoundEnds DEF TraceFlow, FlowStep
<1>2. ASSUME UNCHANGED flowVars, phase = "flow" => FlowEnded \/ UNCHANGED phase PROVE FoundInv'
  <2>1. UNCHANGED <<calls, named, seeds, seed, parent, queue, deep, best>>
    BY <1>2 DEF flowVars
  <2>2. Known' = Known
    BY <2>1 DEF Known
  <2>3. \A a, b, c : Row(a, b, c)' <=> Row(a, b, c)
    BY <2>1 DEF Row
  <2>4. \A b, c : Underway(b, c)' <=> Underway(b, c)
    BY <2>1 DEF Underway, Waits
  <2>5. phase' # "flow" => seeds' = {} /\ seed' = NoSeed
    BY <1>2, <2>1 DEF FoundInv, FlowEnded
  <2> QED
    BY <2>1, <2>2, <2>3, <2>4, <2>5 DEF FoundInv
<1>3. CASE ~TraceFlow
  <2>1. UNCHANGED flowVars
    BY <1>3 DEF Next, vars, SelectFiles, FindNothing, ReadFile, ShowWhole, ShowSkeleton, ShowOversized,
           ShowClusters, Finish, EditFile, LeaveOut, Show, AddSection
  <2>2. phase = "flow" => FlowEnded \/ UNCHANGED phase
    BY <1>3 DEF Next, vars, exploreVars, SelectFiles, FindNothing, ReadFile, ShowWhole, ShowSkeleton, ShowOversized,
           ShowClusters, Finish, EditFile
  <2> QED
    BY <1>2, <2>1, <2>2
<1> QED
  BY <1>1, <1>3

\* The search does not miss what lies in the open (find_flow_chain): when a named
\* symbol calls a second and that a third, which the first does not call, a
\* spine is found, whatever the order of symbols and calls.
THEOREM ChainFound == FewSymbols => (Spec => []FlowFound)
<1>1. FewSymbols /\ Init => FlowInv /\ FoundInv
  BY FlowStart, FiniteCalls, FoundStart
<1>2. FlowInv /\ FoundInv /\ [Next]_vars => FlowInv' /\ FoundInv'
  BY FlowInvStep, FoundStep
<1>3. FlowInv /\ FoundInv => FlowFound
  <2> SUFFICES ASSUME FoundInv, phase # "flow", MaxDepth >= 3,
                      NEW a \in named, NEW b \in named, NEW c \in named, Row(a, b, c)
               PROVE  Spine # <<>>
    BY DEF FlowFound, Row
  <2>1. seeds = {} /\ seed = NoSeed /\ NoSeed \notin named
    BY DEF FoundInv
  <2>2. Len(best) >= 3
    BY <2>1 DEF FoundInv
  <2>3. best # <<>>
    BY <2>2
  <2> QED
    BY <2>2, <2>3 DEF Spine
<1> QED
  BY <1>1, <1>2, <1>3, PTL DEF Spec

-----------------------------------------------------------------------------
(* Texts and clusters. *)

LEMMA MinIn ==
    ASSUME NEW T \in SUBSET Nat, T # {}
    PROVE  Min(T) \in T /\ \A x \in T : Min(T) <= x
<1>1. \E x \in T : \A y \in T : x =< y
  BY Smallest
<1> QED
  BY <1>1 DEF Min

LEMMA MaxIn ==
    ASSUME NEW n \in Nat, NEW T \in SUBSET (0 .. n), T # {}
    PROVE  Max(T) \in T /\ \A x \in T : Max(T) >= x
<1> DEFINE U == {n - x : x \in T}
<1>1. U \in SUBSET Nat /\ U # {}
  <2>1. \A x \in T : x \in 0 .. n /\ n - x \in Nat
    OBVIOUS
  <2>2. PICK x : x \in T
    OBVIOUS
  <2>3. n - x \in U
    BY <2>2
  <2> QED
    BY <2>1, <2>3
<1>2. PICK u \in U : \A v \in U : u <= v
  <2> HIDE DEF U
  <2> QED
    BY <1>1, Smallest
<1>3. PICK x \in T : u = n - x
  BY <1>2
<1>4. \A y \in T : x >= y
  <2> SUFFICES ASSUME NEW y \in T PROVE x >= y
    OBVIOUS
  <2>1. n - y \in U /\ y \in 0 .. n /\ x \in 0 .. n
    OBVIOUS
  <2> HIDE DEF U
  <2>2. n - x <= n - y
    BY <1>2, <1>3, <2>1
  <2> QED
    BY <2>1, <2>2
<1> QED
  BY <1>4 DEF Max

LEMMA LinesFromIs ==
    ASSUME NEW a \in Int, NEW b \in Int
    PROVE  /\ LinesFrom(a, b) \in Seq(Int)
           /\ Len(LinesFrom(a, b)) = IF a <= b THEN b - a + 1 ELSE 0
           /\ \A i \in 1 .. Len(LinesFrom(a, b)) : LinesFrom(a, b)[i] = a + i - 1
<1> DEFINE n == IF a <= b THEN b - a + 1 ELSE 0
           t == LinesFrom(a, b)
<1>1. n \in Nat /\ 1 .. b - a + 1 = 1 .. n
  OBVIOUS
<1>2. t \in [1 .. n -> Int] /\ \A i \in 1 .. n : t[i] = a + i - 1
  BY <1>1 DEF LinesFrom
<1> HIDE DEF t
<1>3. t \in Seq(Int) /\ Len(t) = n
  <2> HIDE DEF n
  <2> QED
    BY <1>1, <1>2, IsSeq
<1> QED
  BY <1>2, <1>3 DEF t

Spans(x) == x.first \in Nat \ {0} /\ x.last \in Nat /\ x.first <= x.last

Spanning(s) == \A k \in DOMAIN s : Spans(s[k])

\* A cluster opened by a range in the line o begins there, or with the first of
\* the envelopes around it.
Opens(c, o, envelopes) ==
    LET around == {i \in DOMAIN envelopes : envelopes[i].first <= o /\ o <= envelopes[i].last}
    IN  /\ o \in Nat /\ o <= c.last
        /\ c.first = IF around = {} THEN o ELSE Min({envelopes[i].first : i \in around})

\* More than Gap lines lie between a cluster and the range that opens a later one.
Apart(cs, envelopes) ==
    \E o \in [1 .. Len(cs) -> Nat] :
       /\ \A l \in 1 .. Len(cs) : Opens(cs[l], o[l], envelopes)
       /\ \A k, l \in 1 .. Len(cs) : k < l => cs[k].last + Gap < o[l]

\* In whatever order they come: a cluster that does not begin in one of A begins
\* more than Gap lines behind the clusters that begin before it.
Clear(cs, A) ==
    \A k, l \in 1 .. Len(cs) :
       k # l /\ cs[l].first \notin A /\ cs[k].first <= cs[l].first => cs[k].last + Gap < cs[l].first

LEMMA ApartClear ==
    ASSUME NEW C, NEW cs \in Seq(C), Spanning(cs), NEW envelopes, Spanning(envelopes), Apart(cs, envelopes),
           NEW A, \A i \in DOMAIN envelopes : envelopes[i].first \in A
    PROVE  Clear(cs, A)
<1> DEFINE Around(x) == {i \in DOMAIN envelopes : envelopes[i].first <= x /\ x <= envelopes[i].last}
           Firsts(x) == {envelopes[i].first : i \in Around(x)}
           n == Len(cs)
<1>1. PICK o \in [1 .. n -> Nat] :
         /\ \A l \in 1 .. n : Opens(cs[l], o[l], envelopes)
         /\ \A k, l \in 1 .. n : k < l => cs[k].last + Gap < o[l]
  BY DEF Apart
<1>2. n \in Nat /\ DOMAIN cs = 1 .. n /\ \A l \in 1 .. n : Spans(cs[l])
  BY DEF Spanning
<1>3. \A i \in DOMAIN envelopes : envelopes[i].first \in Nat /\ envelopes[i].last \in Nat
  BY DEF Spanning, Spans
<1>4. \A l \in 1 .. n : /\ o[l] \in Nat /\ o[l] <= cs[l].last
                       /\ cs[l].first = IF Around(o[l]) = {} THEN o[l] ELSE Min(Firsts(o[l]))
  BY <1>1 DEF Opens
<1>5. ASSUME NEW x \in Nat, Around(x) # {} PROVE \E i \in Around(x) : Min(Firsts(x)) = envelopes[i].first
  <2>1. Firsts(x) \in SUBSET Nat /\ Firsts(x) # {}
    BY <1>3, <1>5
  <2>2. Min(Firsts(x)) \in Firsts(x)
    <3> HIDE DEF Firsts
    <3> QED
      BY <2>1, MinIn
  <2> QED
    BY <2>2
<1> HIDE DEF n, Firsts
<1> SUFFICES ASSUME NEW k \in 1 .. n, NEW l \in 1 .. n, k # l, cs[l].first \notin A, cs[k].first <= cs[l].first
             PROVE  cs[k].last + Gap < cs[l].first
  BY DEF Clear, n
<1>6. Around(o[l]) = {}
  <2> SUFFICES ASSUME Around(o[l]) # {} PROVE FALSE
    OBVIOUS
  <2>1. PICK i \in Around(o[l]) : Min(Firsts(o[l])) = envelopes[i].first
    BY <1>4, <1>5
  <2>2. cs[l].first = envelopes[i].first
    BY <1>4, <2>1
  <2> QED
    BY <2>2
<1>7. cs[l].first = o[l] /\ o[l] \in Nat /\ o[l] <= cs[l].last
  BY <1>4, <1>6
<1>8. ~(l < k)
  <2> SUFFICES ASSUME l < k PROVE FALSE
    OBVIOUS
  <2>1. cs[l].last + Gap < o[k] /\ o[k] \in Nat
    BY <1>1
  <2>2. Gap \in Nat /\ cs[l].last \in Nat /\ cs[k].first \in Nat
    BY <1>2, ClustersAssumption DEF Spans
  <2>3. o[l] < o[k] /\ cs[k].first # o[k]
    BY <1>7, <2>1, <2>2
  <2>4. Around(o[k]) # {} /\ cs[k].first = Min(Firsts(o[k]))
    BY <1>4, <2>3
  <2>5. PICK i \in Around(o[k]) : Min(Firsts(o[k])) = envelopes[i].first
    BY <1>5, <2>1, <2>4
  <2>6. envelopes[i].first <= o[l] /\ o[k] <= envelopes[i].last /\ i \in DOMAIN envelopes
    BY <1>7, <2>4, <2>5
  <2>7. o[l] <= envelopes[i].last
    BY <1>3, <1>7, <2>1, <2>3, <2>6
  <2>8. i \in Around(o[l])
    BY <2>6, <2>7
  <2> QED
    BY <1>6, <2>8
<1>9. k < l
  BY <1>2, <1>8
<1> QED
  BY <1>1, <1>7, <1>9

\* A cluster begins with its first range, or with an envelope around it.
LEMMA ClusterIs ==
    ASSUME NEW open, 1 \in DOMAIN open, Spans(open[1]), NEW last \in Nat, open[1].first <= last,
           NEW envelopes, Spanning(envelopes)
    PROVE  /\ Spans(Cluster(open, last, envelopes))
           /\ Cluster(open, last, envelopes).last = last
           /\ Opens(Cluster(open, last, envelopes), open[1].first, envelopes)
<1> DEFINE first == open[1].first
           around == {i \in DOMAIN envelopes : envelopes[i].first <= first /\ first <= envelopes[i].last}
           T == {envelopes[i].first : i \in around}
           c == Cluster(open, last, envelopes)
<1>1. c.first = (IF around = {} THEN first ELSE Min(T)) /\ c.last = last
  BY DEF Cluster
<1>2. first \in Nat \ {0} /\ \A i \in DOMAIN envelopes : envelopes[i].first \in Nat \ {0}
  BY DEF Spans, Spanning
<1>5. Opens(c, first, envelopes)
  <2> HIDE DEF c
  <2> QED
    BY <1>1, <1>2 DEF Opens
<1>3. CASE around = {}
  BY <1>1, <1>2, <1>3, <1>5 DEF Spans
<1>4. CASE around # {}
  <2>1. T \in SUBSET Nat /\ T # {} /\ \A x \in T : x # 0 /\ x <= first
    BY <1>2, <1>4
  <2>2. Min(T) \in T
    <3> HIDE DEF T
    <3> QED
      BY <2>1, MinIn
  <2> HIDE DEF T, c
  <2>3. c.first \in Nat \ {0} /\ c.first <= first
    BY <1>1, <1>4, <2>1, <2>2
  <2>4. c.first <= last
    BY <1>2, <2>3
  <2> QED
    BY <1>1, <1>4, <1>5, <2>3, <2>4 DEF Spans, c
<1> QED
  BY <1>3, <1>4

LEMMA ClusterBegins ==
    ASSUME NEW open, 1 \in DOMAIN open, Spans(open[1]), NEW last, NEW envelopes, Spanning(envelopes)
    PROVE  Cluster(open, last, envelopes).first <= open[1].first
<1> DEFINE first == open[1].first
           around == {i \in DOMAIN envelopes : envelopes[i].first <= first /\ first <= envelopes[i].last}
           T == {envelopes[i].first : i \in around}
           c == Cluster(open, last, envelopes)
<1>1. c.first = IF around = {} THEN first ELSE Min(T)
  BY DEF Cluster
<1>2. first \in Nat \ {0} /\ \A i \in DOMAIN envelopes : envelopes[i].first \in Nat \ {0}
  BY DEF Spans, Spanning
<1>3. CASE around = {}
  BY <1>1, <1>2, <1>3
<1>4. CASE around # {}
  <2>1. T \in SUBSET Nat /\ T # {} /\ \A x \in T : x <= first
    BY <1>2, <1>4
  <2>2. Min(T) \in T
    <3> HIDE DEF T
    <3> QED
      BY <2>1, MinIn
  <2> HIDE DEF T, c
  <2> QED
    BY <1>1, <1>4, <2>1, <2>2 DEF c
<1> QED
  BY <1>3, <1>4

Added(acc, r, envelopes) ==
    IF Near(r, acc.last)
    THEN [acc EXCEPT !.open = Append(@, r), !.last = Max({@, r.last})]
    ELSE [done |-> Append(acc.done, Cluster(acc.open, acc.last, envelopes)), open |-> <<r>>, last |-> r.last]

ClustersOf(R, envelopes) == {Cluster(open, last, envelopes) : open \in {o \in Seq(R) : Len(o) > 0}, last \in Nat}

\* What holds while ranges are merged.
Merging(acc, R, envelopes) ==
    /\ acc \in [done : Seq(ClustersOf(R, envelopes)), open : Seq(R), last : Nat]
    /\ Len(acc.open) > 0 /\ acc.open[1].first <= acc.last
    /\ Spanning(acc.done)
    /\ Apart(Append(acc.done, Cluster(acc.open, acc.last, envelopes)), envelopes)

\* One more cluster behind the others.
LEMMA ApartMore ==
    ASSUME NEW C, NEW s \in Seq(C), NEW c, NEW d, Spanning(s), Spans(c), NEW envelopes,
           Apart(Append(s, c), envelopes), NEW p, Opens(d, p, envelopes), c.last + Gap < p
    PROVE  Apart(Append(Append(s, c), d), envelopes)
<1> DEFINE m == Len(s)
           t == Append(s, c)
           u == Append(t, d)
<1>1. /\ m \in Nat /\ Len(t) = m + 1 /\ t[m + 1] = c
      /\ Len(u) = m + 2 /\ u[m + 2] = d /\ \A i \in 1 .. m + 1 : u[i] = t[i]
  OBVIOUS
<1>9. DOMAIN s = 1 .. m /\ \A i \in 1 .. m : t[i] = s[i]
  OBVIOUS
<1>2. PICK o \in [1 .. Len(t) -> Nat] :
         /\ \A l \in 1 .. Len(t) : Opens(t[l], o[l], envelopes)
         /\ \A k, l \in 1 .. Len(t) : k < l => t[k].last + Gap < o[l]
  BY DEF Apart
<1> HIDE DEF m, t, u
<1>3. Gap \in Nat /\ c.last \in Nat /\ p \in Nat
  BY ClustersAssumption DEF Spans, Opens
<1>4. ASSUME NEW k \in 1 .. m + 1 PROVE t[k].last + Gap < p
  <2>1. CASE k = m + 1
    BY <1>1, <2>1
  <2>2. CASE k # m + 1
    <3>1. k < m + 1 /\ m + 1 \in 1 .. m + 1 /\ k \in 1 .. m
      BY <1>1, <2>2
    <3>2. t[k].last + Gap < o[m + 1] /\ o[m + 1] <= c.last /\ o[m + 1] \in Nat
      BY <1>1, <1>2, <3>1 DEF Opens
    <3>3. t[k].last \in Nat
      BY <1>9, <3>1 DEF Spanning, Spans
    <3> QED
      BY <1>3, <3>2, <3>3
  <2> QED
    BY <2>1, <2>2
<1> DEFINE q == [l \in 1 .. m + 2 |-> IF l = m + 2 THEN p ELSE o[l]]
<1>5. /\ q \in [1 .. m + 2 -> Nat] /\ q[m + 2] = p /\ \A l \in 1 .. m + 1 : q[l] = o[l]
      /\ \A l \in 1 .. m + 2 : l \in 1 .. m + 1 \/ l = m + 2
  <2>1. \A l \in 1 .. m + 2 : l = m + 2 \/ l \in 1 .. m + 1
    BY <1>1
  <2>2. \A l \in 1 .. m + 1 : l \in 1 .. m + 2 /\ l # m + 2
    BY <1>1
  <2>3. m + 2 \in 1 .. m + 2 /\ Len(t) = m + 1
    BY <1>1
  <2> QED
    BY <1>2, <1>3, <2>1, <2>2, <2>3
<1> HIDE DEF q
<1>6. \A l \in 1 .. m + 2 : Opens(u[l], q[l], envelopes)
  BY <1>1, <1>2, <1>5
<1>7. ASSUME NEW k \in 1 .. m + 2, NEW l \in 1 .. m + 2, k < l PROVE u[k].last + Gap < q[l]
  <2>1. k \in 1 .. m + 1 /\ u[k] = t[k]
    BY <1>1, <1>7
  <2>2. CASE l = m + 2
    BY <1>4, <1>5, <2>1, <2>2
  <2>3. CASE l \in 1 .. m + 1
    BY <1>1, <1>2, <1>5, <1>7, <2>1, <2>3
  <2> QED
    BY <1>5, <2>2, <2>3
<1>8. Apart(u, envelopes)
  BY <1>1, <1>5, <1>6, <1>7 DEF Apart
<1> QED
  BY <1>8 DEF t, u

\* The last cluster may reach further.
LEMMA ApartFurther ==
    ASSUME NEW C, NEW s \in Seq(C), NEW c, NEW d, NEW envelopes, Apart(Append(s, c), envelopes),
           Spans(c), Spans(d), d.first = c.first, c.last <= d.last
    PROVE  Apart(Append(s, d), envelopes)
<1> DEFINE m == Len(s)
           t == Append(s, c)
           u == Append(s, d)
<1>1. /\ m \in Nat /\ Len(t) = m + 1 /\ t[m + 1] = c /\ Len(u) = m + 1 /\ u[m + 1] = d
      /\ \A i \in 1 .. m : t[i] = s[i] /\ u[i] = s[i]
  OBVIOUS
<1>2. PICK o \in [1 .. Len(t) -> Nat] :
         /\ \A l \in 1 .. Len(t) : Opens(t[l], o[l], envelopes)
         /\ \A k, l \in 1 .. Len(t) : k < l => t[k].last + Gap < o[l]
  BY DEF Apart
<1> HIDE DEF m, t, u
<1>3. \A k, l \in 1 .. m + 1 : k < l => k \in 1 .. m
  BY <1>1
<1>4. \A k, l \in 1 .. m + 1 : k < l => u[k].last + Gap < o[l]
  BY <1>1, <1>2, <1>3
<1>5. \A l \in 1 .. m + 1 : l \in 1 .. m \/ l = m + 1
  BY <1>1
<1>6. Opens(d, o[m + 1], envelopes)
  <2>1. Opens(c, o[m + 1], envelopes) /\ c.last \in Nat /\ d.last \in Nat
    BY <1>1, <1>2 DEF Spans
  <2> QED
    BY <2>1 DEF Opens
<1>7. \A l \in 1 .. m + 1 : Opens(u[l], o[l], envelopes)
  BY <1>1, <1>2, <1>5, <1>6
<1>8. o \in [1 .. Len(u) -> Nat] /\ Len(u) = m + 1
  BY <1>1, <1>2
<1>9. Apart(u, envelopes)
  BY <1>4, <1>7, <1>8 DEF Apart
<1> QED
  BY <1>9 DEF u

LEMMA AddMerges ==
    ASSUME NEW R, \A x \in R : Spans(x), NEW envelopes, Spanning(envelopes),
           NEW acc, Merging(acc, R, envelopes), NEW r \in R
    PROVE  Merging(Added(acc, r, envelopes), R, envelopes)
<1> DEFINE CL == ClustersOf(R, envelopes)
           c == Cluster(acc.open, acc.last, envelopes)
           new == Added(acc, r, envelopes)
<1>1. /\ acc \in [done : Seq(CL), open : Seq(R), last : Nat]
      /\ acc.done \in Seq(CL) /\ acc.open \in Seq(R) /\ acc.last \in Nat
      /\ Len(acc.open) > 0 /\ acc.open[1].first <= acc.last
      /\ Spanning(acc.done)
      /\ Apart(Append(acc.done, c), envelopes)
  BY DEF Merging
<1>2. Spans(r) /\ r.last \in Nat /\ r.first \in Nat /\ r.first <= r.last
  BY DEF Spans
<1>3. 1 \in DOMAIN acc.open /\ acc.open[1] \in R
  BY <1>1
<1>4. Spans(c) /\ c.last = acc.last
  BY <1>1, <1>3, ClusterIs
<1>5. CASE Near(r, acc.last)
  <2> DEFINE open == Append(acc.open, r)
             last == Max({acc.last, r.last})
             d == Cluster(open, last, envelopes)
  <2>1. new = [acc EXCEPT !.open = open, !.last = last]
    BY <1>5 DEF Added
  <2>2. last \in Nat /\ acc.last <= last
    <3>1. \A a, b \in Nat : Max({a, b}) = IF a >= b THEN a ELSE b
      BY TwoOf
    <3> QED
      BY <1>1, <1>2, <3>1
  <2>3. open \in Seq(R) /\ Len(open) > 0 /\ 1 \in DOMAIN open /\ open[1] = acc.open[1]
    BY <1>1
  <2> HIDE DEF open, last
  <2>4. new \in [done : Seq(CL), open : Seq(R), last : Nat] /\ new.open = open /\ new.last = last /\ new.done = acc.done
    <3> HIDE DEF CL, new
    <3> QED
      BY <1>1, <2>1, <2>2, <2>3
  <2>5. open[1].first <= last
    BY <1>1, <1>3, <2>2, <2>3 DEF Spans
  <2>6. Spans(d) /\ d.last = last
    BY <1>3, <2>2, <2>3, <2>5, ClusterIs
  <2>7. Apart(Append(acc.done, d), envelopes)
    <3>1. d.first = c.first
      BY <2>3 DEF Cluster
    <3>2. c.last <= d.last
      BY <1>4, <2>2, <2>6
    <3> HIDE DEF c, d, CL
    <3> QED
      BY <1>1, <1>4, <2>6, <3>1, <3>2, ApartFurther
  <2> HIDE DEF new
  <2>8. Merging(new, R, envelopes)
    BY <1>1, <2>3, <2>4, <2>5, <2>7 DEF Merging
  <2> QED
    BY <2>8 DEF new
<1>6. CASE ~Near(r, acc.last)
  <2> DEFINE done == Append(acc.done, c)
             open == <<r>>
             d == Cluster(open, r.last, envelopes)
  <2>1. new = [done |-> done, open |-> open, last |-> r.last]
    BY <1>6 DEF Added
  <2>2. c \in CL
    BY <1>1 DEF ClustersOf
  <2>3. open \in Seq(R) /\ Len(open) > 0 /\ 1 \in DOMAIN open /\ open[1] = r
    OBVIOUS
  <2>4. done \in Seq(CL)
    <3> HIDE DEF CL, c
    <3> QED
      BY <1>1, <2>2
  <2>5. Spanning(done)
    <3> HIDE DEF CL, c
    <3>1. /\ Len(acc.done) \in Nat /\ DOMAIN done = 1 .. Len(acc.done) + 1
          /\ \A k \in 1 .. Len(acc.done) : done[k] = acc.done[k] /\ k \in DOMAIN acc.done
          /\ done[Len(acc.done) + 1] = c
      BY <1>1
    <3>2. \A k \in 1 .. Len(acc.done) + 1 : k \in 1 .. Len(acc.done) \/ k = Len(acc.done) + 1
      BY <3>1
    <3> QED
      BY <1>1, <1>4, <3>1, <3>2 DEF Spanning
  <2> HIDE DEF open
  <2>6. Opens(d, r.first, envelopes)
    BY <1>2, <2>3, ClusterIs
  <2>7. Apart(Append(done, d), envelopes)
    <3>1. c.last + Gap < r.first
      <4>1. r.first > acc.last + Gap
        BY <1>1, <1>2, <1>6, ClustersAssumption DEF Near
      <4> QED
        BY <1>1, <1>2, <1>4, <4>1, ClustersAssumption
    <3> HIDE DEF CL, c, d
    <3> QED
      BY <1>1, <1>4, <2>6, <3>1, ApartMore
  <2> HIDE DEF done
  <2>8. new \in [done : Seq(CL), open : Seq(R), last : Nat] /\ new.open = open /\ new.last = r.last /\ new.done = done
    <3> HIDE DEF CL, new
    <3> QED
      BY <1>2, <2>1, <2>3, <2>4
  <2> HIDE DEF new
  <2>9. Merging(new, R, envelopes)
    BY <1>2, <2>3, <2>5, <2>7, <2>8 DEF Merging
  <2> QED
    BY <2>9 DEF new
<1> QED
  BY <1>5, <1>6

LEMMA MergeIs ==
    ASSUME NEW R, \A x \in R : Spans(x), NEW ranges \in Seq(R), Len(ranges) > 0,
           NEW envelopes, Spanning(envelopes)
    PROVE  /\ Merge(ranges, envelopes) \in Seq(ClustersOf(R, envelopes)) /\ Len(Merge(ranges, envelopes)) > 0
           /\ Spanning(Merge(ranges, envelopes))
           /\ Apart(Merge(ranges, envelopes), envelopes)
<1> DEFINE S == {acc \in [done : Seq(ClustersOf(R, envelopes)), open : Seq(R), last : Nat] : Merging(acc, R, envelopes)}
           a == [done |-> <<>>, open |-> <<ranges[1]>>, last |-> ranges[1].last]
           m == Len(ranges)
           g == [p \in Nat \X S |-> IF p[1] \in 1 .. m THEN Added(p[2], ranges[p[1]], envelopes) ELSE p[2]]
           f == CHOOSE f : f = [i \in 1 .. m |-> IF i = 1 THEN a ELSE Added(f[i - 1], ranges[i], envelopes)]
<1>1. m \in Nat \ {0} /\ \A i \in 1 .. m : ranges[i] \in R
  OBVIOUS
<1>2. Merge(ranges, envelopes) = Append(f[m].done, Cluster(f[m].open, f[m].last, envelopes))
  BY DEF Merge, Added
<1> HIDE DEF m
<1>3. a \in S
  <2>1. ranges[1] \in R
    BY <1>1
  <2>2. Spans(ranges[1])
    BY <2>1
  <2> DEFINE c == Cluster(a.open, a.last, envelopes)
  <2>3. /\ a \in [done : Seq(ClustersOf(R, envelopes)), open : Seq(R), last : Nat]
        /\ a.open = <<ranges[1]>> /\ a.done = <<>> /\ Len(a.open) > 0 /\ a.open[1].first <= a.last
    BY <2>1, <2>2 DEF Spans
  <2>4. Spanning(a.done)
    BY <2>3 DEF Spanning
  <2>7. Opens(c, ranges[1].first, envelopes)
    <3>1. 1 \in DOMAIN a.open /\ a.open[1] = ranges[1] /\ a.last \in Nat
      BY <2>3
    <3> HIDE DEF a
    <3> QED
      BY <2>2, <2>3, <3>1, ClusterIs
  <2>8. ranges[1].first \in Nat
    BY <2>2 DEF Spans
  <2> HIDE DEF a, c
  <2>5. Apart(Append(a.done, c), envelopes)
    <3> DEFINE o == [l \in 1 .. 1 |-> ranges[1].first]
    <3>1. /\ Append(a.done, c) = <<c>> /\ Len(<<c>>) = 1 /\ <<c>>[1] = c
          /\ o \in [1 .. 1 -> Nat] /\ o[1] = ranges[1].first /\ \A l \in 1 .. 1 : l = 1
      BY <2>3, <2>8
    <3> HIDE DEF o
    <3> QED
      BY <2>7, <3>1 DEF Apart
  <2>6. Merging(a, R, envelopes)
    BY <2>3, <2>4, <2>5 DEF Merging, c
  <2> QED
    BY <2>3, <2>6
<1> HIDE DEF a
<1>4. ASSUME NEW acc \in S, NEW r \in R PROVE Added(acc, r, envelopes) \in S
  <2>1. Merging(Added(acc, r, envelopes), R, envelopes)
    BY AddMerges
  <2> QED
    BY <2>1 DEF Merging
<1> HIDE DEF S
<1>5. Stepping(S, g)
  <2>1. \A p \in Nat \X S : (IF p[1] \in 1 .. m THEN Added(p[2], ranges[p[1]], envelopes) ELSE p[2]) \in S
    BY <1>1, <1>4
  <2> QED
    BY <2>1 DEF Stepping
<1>6. ASSUME NEW i \in 1 .. m, NEW x \in S PROVE g[<<i, x>>] = Added(x, ranges[i], envelopes)
  <2>1. <<i, x>> \in Nat \X S /\ <<i, x>>[1] = i /\ <<i, x>>[2] = x
    BY <1>1
  <2> QED
    BY <2>1
<1> HIDE DEF g
<1>7. PICK h : RecursFromOne(S, a, g, m, h)
  BY <1>1, <1>3, <1>5, RecursionFromOne
<1>23. h \in [1 .. m -> S] /\ h[1] = a /\ \A i \in 2 .. m : h[i] = g[<<i, h[i - 1]>>]
  BY <1>7 DEF RecursFromOne
<1> DEFINE l == [i \in 1 .. m |-> IF i = 1 THEN a ELSE Added(h[i - 1], ranges[i], envelopes)]
<1>8. ASSUME NEW i \in 1 .. m PROVE h[i] = l[i]
  <2>1. CASE i = 1
    BY <1>23, <2>1
  <2>2. CASE i # 1
    <3>1. i \in 2 .. m /\ i - 1 \in 1 .. m
      BY <1>1, <2>2
    <3>2. h[i] = g[<<i, h[i - 1]>>] /\ h[i - 1] \in S
      BY <1>23, <3>1
    <3>3. g[<<i, h[i - 1]>>] = Added(h[i - 1], ranges[i], envelopes)
      BY <1>6, <3>2
    <3> QED
      BY <2>2, <3>2, <3>3
  <2> QED
    BY <2>1, <2>2
<1>9. h = [i \in 1 .. m |-> h[i]] /\ l = [i \in 1 .. m |-> l[i]]
  BY <1>23
<1>10. h = l
  <2> HIDE DEF l
  <2> QED
    BY <1>8, <1>9
<1>11. f = [i \in 1 .. m |-> IF i = 1 THEN a ELSE Added(f[i - 1], ranges[i], envelopes)]
  <2>1. h = [i \in 1 .. m |-> IF i = 1 THEN a ELSE Added(h[i - 1], ranges[i], envelopes)]
    BY <1>10
  <2> QED
    BY <2>1
<1> HIDE DEF f
<1>12. \A i \in 1 .. m : f[i] = IF i = 1 THEN a ELSE Added(f[i - 1], ranges[i], envelopes)
  BY <1>11
<1> DEFINE K == {i \in Nat : i \in 1 .. m => f[i] \in S}
<1>13. 0 \in K
  OBVIOUS
<1>14. ASSUME NEW i \in Nat, i \in K PROVE i + 1 \in K
  <2> SUFFICES ASSUME i + 1 \in 1 .. m PROVE f[i + 1] \in S
    OBVIOUS
  <2>1. CASE i = 0
    BY <1>3, <1>12, <2>1
  <2>2. CASE i # 0
    <3>1. i \in 1 .. m /\ i + 1 # 1 /\ (i + 1) - 1 = i
      BY <1>1, <2>2
    <3>2. f[i] \in S /\ f[i + 1] = Added(f[i], ranges[i + 1], envelopes) /\ ranges[i + 1] \in R
      BY <1>1, <1>12, <1>14, <3>1
    <3> QED
      BY <1>4, <3>2
  <2> QED
    BY <2>1, <2>2
<1> HIDE DEF K
<1>15. \A i \in Nat : i \in K
  BY <1>13, <1>14, SetInduction
<1>16. f[m] \in S
  <2>1. m \in Nat /\ m \in 1 .. m /\ m \in K
    BY <1>1, <1>15
  <2> QED
    BY <2>1 DEF K
<1> DEFINE acc == f[m]
           c == Cluster(acc.open, acc.last, envelopes)
           C == ClustersOf(R, envelopes)
<1>17. /\ acc.done \in Seq(C) /\ acc.open \in Seq(R) /\ acc.last \in Nat
       /\ Len(acc.open) > 0 /\ acc.open[1].first <= acc.last /\ Spanning(acc.done)
       /\ Apart(Append(acc.done, c), envelopes)
  BY <1>16 DEF S, Merging
<1>18. 1 \in DOMAIN acc.open /\ acc.open[1] \in R
  BY <1>17
<1>19. Spans(c) /\ c \in C
  BY <1>17, <1>18, ClusterIs DEF ClustersOf
<1> HIDE DEF acc, c, C
<1>20. Append(acc.done, c) \in Seq(C) /\ Len(Append(acc.done, c)) > 0
  BY <1>17, <1>19
<1>21. Spanning(Append(acc.done, c))
  <2>1. /\ Len(acc.done) \in Nat /\ DOMAIN Append(acc.done, c) = 1 .. Len(acc.done) + 1
        /\ \A k \in 1 .. Len(acc.done) : Append(acc.done, c)[k] = acc.done[k] /\ k \in DOMAIN acc.done
        /\ Append(acc.done, c)[Len(acc.done) + 1] = c
    BY <1>17, <1>19
  <2>2. \A k \in 1 .. Len(acc.done) + 1 : k \in 1 .. Len(acc.done) \/ k = Len(acc.done) + 1
    BY <2>1
  <2> QED
    BY <1>17, <1>19, <2>1, <2>2 DEF Spanning
<1>22. Merge(ranges, envelopes) = Append(acc.done, c)
  BY <1>2 DEF acc, c
<1> QED
  BY <1>17, <1>20, <1>21, <1>22 DEF C

LEMMA PickedSpanning ==
    ASSUME NEW N, NEW nodes \in Seq(N), Spanning(nodes), NEW at
    PROVE  /\ Picked(nodes, at) \in Seq(N)
           /\ Spanning(Picked(nodes, at))
           /\ \A k \in DOMAIN Picked(nodes, at) : \E i \in DOMAIN nodes \cap at : Picked(nodes, at)[k] = nodes[i]
           /\ Len(Picked(nodes, at)) = 0 => DOMAIN nodes \cap at = {}
<1> DEFINE t == Picked(nodes, at)
<1>1. t \in Seq(N) /\ \E h : PickedBy(nodes, at, t, h)
  BY PickedIs
<1> HIDE DEF t
<1>2. PICK h : PickedBy(nodes, at, t, h)
  BY <1>1
<1>3. /\ h \in [1 .. Len(t) -> DOMAIN nodes \cap at]
      /\ \A k \in 1 .. Len(t) : t[k] = nodes[h[k]]
      /\ \A i \in DOMAIN nodes \cap at : \E k \in 1 .. Len(t) : h[k] = i
  BY <1>2 DEF PickedBy
<1>4. DOMAIN t = 1 .. Len(t) /\ Len(t) \in Nat
  BY <1>1
<1>5. \A k \in DOMAIN t : h[k] \in DOMAIN nodes \cap at /\ t[k] = nodes[h[k]]
  BY <1>3, <1>4
<1>6. Spanning(t)
  BY <1>5 DEF Spanning
<1>7. ASSUME Len(t) = 0 PROVE DOMAIN nodes \cap at = {}
  <2>1. 1 .. Len(t) = {}
    BY <1>7
  <2> QED
    BY <1>3, <2>1
<1> QED
  BY <1>1, <1>5, <1>6, <1>7 DEF t

\* The lines of uses, as stretches of one line.
LEMMA EdgeRangesSpan ==
    ASSUME NEW kept, NEW E, NEW edges \in Seq(E), \A i \in DOMAIN edges : edges[i].line \in Nat
    PROVE  \E R : /\ EdgeRanges(kept, edges) \in Seq(R)
                  /\ \A r \in R : Spans(r) /\ \E i \in DOMAIN edges : r.first = edges[i].line
<1> DEFINE counting == {i \in DOMAIN edges : /\ edges[i].line > 0 /\ edges[i].kind # "contains"
                                             /\ \E j \in DOMAIN kept : kept[j].id = edges[i].source}
           counted == Picked(edges, counting)
           once == {i \in DOMAIN counted :
                      \A j \in 1 .. i - 1 : counted[j].line # counted[i].line \/ counted[j].target # counted[i].target}
           uses == Picked(counted, once)
           t == [k \in DOMAIN uses |-> Stretch(uses[k].line, uses[k].line, EdgeImportance, <<>>)]
<1>1. EdgeRanges(kept, edges) = t
  BY DEF EdgeRanges, Where, Sites
<1>2. counted \in Seq(E) /\ \E h : PickedBy(edges, counting, counted, h)
  <2> HIDE DEF counting
  <2> QED
    BY PickedIs
<1>3. \A i \in counting : edges[i].line \in Nat \ {0} /\ i \in DOMAIN edges
  OBVIOUS
<1> HIDE DEF counting, counted
<1>4. \A k \in 1 .. Len(counted) : counted[k].line \in Nat \ {0}
                                    /\ \E i \in DOMAIN edges : counted[k].line = edges[i].line
  <2>1. PICK h : PickedBy(edges, counting, counted, h)
    BY <1>2
  <2> QED
    BY <1>3, <2>1 DEF PickedBy
<1>5. DOMAIN counted = 1 .. Len(counted)
  BY <1>2
<1> HIDE DEF once
<1>6. uses \in Seq(E) /\ \E h : PickedBy(counted, once, uses, h)
  BY <1>2, PickedIs
<1> HIDE DEF uses
<1>7. \A k \in 1 .. Len(uses) : uses[k].line \in Nat \ {0}
                                 /\ \E i \in DOMAIN edges : uses[k].line = edges[i].line
  <2>1. PICK h : PickedBy(counted, once, uses, h)
    BY <1>6
  <2>2. \A k \in 1 .. Len(uses) : h[k] \in DOMAIN counted /\ uses[k] = counted[h[k]]
    BY <2>1 DEF PickedBy
  <2> QED
    BY <1>4, <1>5, <2>2
<1> DEFINE R == {t[k] : k \in DOMAIN uses}
<1>8. DOMAIN uses = 1 .. Len(uses) /\ Len(uses) \in Nat
  BY <1>6
<1>9. \A r \in R : Spans(r) /\ \E i \in DOMAIN edges : r.first = edges[i].line
  BY <1>7, <1>8 DEF Stretch, Spans
<1>10. t \in [1 .. Len(uses) -> R]
  BY <1>8
<1> HIDE DEF R, t
<1>11. t \in Seq(R)
  BY <1>8, <1>10, IsSeq
<1> QED
  BY <1>1, <1>9, <1>11

UpTo(s, bound) == \A k \in DOMAIN s : s[k].first <= bound

\* Where the envelopes among the nodes of a file begin.
Envelopes(nodes, lines) == {nodes[i].first : i \in {i \in DOMAIN nodes : IsEnvelope(nodes[i], lines)}}

\* What is shown of a file: stretches of lines, clear of each other but for those
\* that begin with an envelope.
LEMMA ClustersAre ==
    ASSUME NEW N, NEW nodes \in Seq(N), Spanning(nodes), NEW score, NEW lines,
           NEW E, NEW edges \in Seq(E), \A i \in DOMAIN edges : edges[i].line \in Nat, NEW bound \in Nat
    PROVE  \E C : /\ ClusterNodesInFile(nodes, score, lines, edges) \in Seq(C)
                  /\ Spanning(ClusterNodesInFile(nodes, score, lines, edges))
                  /\ Len(nodes) > 0 => Len(ClusterNodesInFile(nodes, score, lines, edges)) > 0
                  /\ Clear(ClusterNodesInFile(nodes, score, lines, edges), Envelopes(nodes, lines))
                  /\ UpTo(nodes, bound) /\ (\A i \in DOMAIN edges : edges[i].line <= bound)
                        => UpTo(ClusterNodesInFile(nodes, score, lines, edges), bound)
<1> DEFINE hull == {i \in DOMAIN nodes : IsEnvelope(nodes[i], lines)}
           rest == {i \in DOMAIN nodes : ~IsEnvelope(nodes[i], lines)}
           envelopes == Picked(nodes, hull)
           kept == Picked(nodes, rest)
           stretches == [i \in DOMAIN kept |->
                           Stretch(kept[i].first, kept[i].last,
                                   Redistributed(kept[i], kept, envelopes, score), <<kept[i]>>)]
           all == stretches \o EdgeRanges(kept, edges)
           earlier == {p \in (DOMAIN all) \X (DOMAIN all) :
                         \/ all[p[1]].first < all[p[2]].first
                         \/ all[p[1]].first = all[p[2]].first /\ all[p[1]].last < all[p[2]].last}
           ranges == [k \in DOMAIN all |-> all[Arranged(Len(all), earlier)[k]]]
           higher == {p \in (DOMAIN envelopes) \X (DOMAIN envelopes) : envelopes[p[1]].first < envelopes[p[2]].first}
           sorted == [k \in DOMAIN envelopes |-> envelopes[Arranged(Len(envelopes), higher)[k]]]
           hulls == [i \in DOMAIN sorted |->
                       Cluster(<<Stretch(sorted[i].first, sorted[i].last, score[sorted[i].id], <<sorted[i]>>)>>,
                               sorted[i].last, <<>>)]
           cs == ClusterNodesInFile(nodes, score, lines, edges)
<1>1. cs = CASE nodes = <<>> -> <<>>
             [] nodes # <<>> /\ kept = <<>> -> hulls
             [] OTHER -> Merge(ranges, envelopes)
  BY DEF ClusterNodesInFile, Where, Sites, SortedBy
<1>2. hull \cup rest = DOMAIN nodes
  OBVIOUS
<1> DEFINE A == Envelopes(nodes, lines)
<1>3. \A i \in hull : nodes[i].first \in A
  BY DEF Envelopes
<1> HIDE DEF A
<1> HIDE DEF hull, rest
<1>4. /\ envelopes \in Seq(N) /\ Spanning(envelopes)
      /\ \A k \in DOMAIN envelopes : \E i \in DOMAIN nodes \cap hull : envelopes[k] = nodes[i]
      /\ Len(envelopes) = 0 => DOMAIN nodes \cap hull = {}
  BY PickedSpanning
<1>5. /\ kept \in Seq(N) /\ Spanning(kept)
      /\ \A k \in DOMAIN kept : \E i \in DOMAIN nodes \cap rest : kept[k] = nodes[i]
      /\ Len(kept) = 0 => DOMAIN nodes \cap rest = {}
  BY PickedSpanning
<1>9. ASSUME UpTo(nodes, bound) PROVE UpTo(envelopes, bound) /\ UpTo(kept, bound)
  BY <1>4, <1>5, <1>9 DEF UpTo
<1>10. \A k \in DOMAIN envelopes : envelopes[k].first \in A
  BY <1>3, <1>4
<1> HIDE DEF envelopes, kept, cs
<1>6. CASE nodes = <<>>
  <2>1. cs = <<>> /\ Len(nodes) = 0
    BY <1>1, <1>6
  <2>2. cs \in Seq({}) /\ Spanning(cs) /\ Clear(cs, A) /\ UpTo(cs, bound)
    BY <2>1 DEF Spanning, Clear, UpTo
  <2> QED
    BY <2>1, <2>2 DEF cs, A
<1>7. CASE nodes # <<>> /\ kept = <<>>
  <2> DEFINE o == Arranged(Len(envelopes), higher)
  <2>1. Reorders(sorted, envelopes, o, higher)
    BY DEF Reorders
  <2> HIDE DEF sorted, o, higher
  <2>2. /\ sorted \in Seq(N) /\ Len(sorted) = Len(envelopes)
        /\ \A k \in 1 .. Len(envelopes) : o[k] \in 1 .. Len(envelopes) /\ sorted[k] = envelopes[o[k]]
    BY <1>4, <2>1, ReorderedIs
  <2>3. DOMAIN envelopes = 1 .. Len(envelopes) /\ DOMAIN sorted = 1 .. Len(envelopes) /\ Len(envelopes) \in Nat
    BY <1>4, <2>2
  <2>4. \A k \in 1 .. Len(envelopes) : Spans(sorted[k])
    BY <1>4, <2>2, <2>3 DEF Spanning
  <2>5. ASSUME NEW k \in 1 .. Len(envelopes) PROVE Spans(hulls[k]) /\ hulls[k].first = sorted[k].first
    <3> DEFINE r == Stretch(sorted[k].first, sorted[k].last, score[sorted[k].id], <<sorted[k]>>)
               e == <<>>
    <3>1. hulls[k] = Cluster(<<r>>, sorted[k].last, e)
      BY <2>3
    <3>2. r.first = sorted[k].first /\ r.last = sorted[k].last
      BY DEF Stretch
    <3>3. Spans(r) /\ sorted[k].last \in Nat /\ r.first <= sorted[k].last
      BY <2>4, <3>2 DEF Spans
    <3>4. Spanning(e)
      BY DEF Spanning
    <3> HIDE DEF r, e, hulls
    <3>5. 1 \in DOMAIN <<r>> /\ <<r>>[1] = r
      OBVIOUS
    <3>6. Spans(Cluster(<<r>>, sorted[k].last, e))
      BY <3>3, <3>4, <3>5, ClusterIs
    <3>7. Cluster(<<r>>, sorted[k].last, e).first = r.first
      BY <3>5 DEF Cluster, e
    <3> QED
      BY <3>1, <3>2, <3>6, <3>7
  <2> DEFINE C == {hulls[k] : k \in 1 .. Len(envelopes)}
  <2>6. DOMAIN hulls = 1 .. Len(envelopes) /\ hulls \in [1 .. Len(envelopes) -> C]
    BY <2>3
  <2> HIDE DEF hulls, C
  <2>7. hulls \in Seq(C) /\ Len(hulls) = Len(envelopes)
    BY <2>3, <2>6, IsSeq
  <2>8. Spanning(hulls)
    BY <2>5, <2>6 DEF Spanning
  <2>12. ASSUME UpTo(nodes, bound) PROVE UpTo(hulls, bound)
    <3> SUFFICES ASSUME NEW k \in 1 .. Len(envelopes) PROVE hulls[k].first <= bound
      BY <2>6 DEF UpTo
    <3>1. sorted[k].first <= bound
      BY <1>9, <2>2, <2>3, <2>12 DEF UpTo
    <3>2. sorted[k].first \in Nat /\ hulls[k].first \in Nat
      BY <2>4, <2>5 DEF Spans
    <3> QED
      BY <2>5, <3>1, <3>2
  <2>9. cs = hulls
    BY <1>1, <1>7
  <2>11. Clear(hulls, A)
    <3>1. \A k \in 1 .. Len(hulls) : hulls[k].first \in A
      BY <1>10, <2>2, <2>3, <2>5, <2>7
    <3> QED
      BY <3>1 DEF Clear
  <2>10. Len(envelopes) > 0
    <3> HIDE DEF hulls
    <3>3. kept = <<>> /\ nodes # <<>>
      BY <1>7
    <3>4. Len(kept) = 0
      BY <3>3
    <3>5. DOMAIN nodes # {}
      <4>1. nodes \in Seq(N) /\ nodes # <<>>
        BY <3>3
      <4>2. Len(nodes) \in Nat \ {0} /\ DOMAIN nodes = 1 .. Len(nodes)
        BY ONLY <4>1
      <4>3. 1 \in DOMAIN nodes
        BY ONLY <4>2
      <4> QED
        BY <4>3
    <3>1. Len(kept) = 0 /\ DOMAIN nodes # {}
      BY <3>4, <3>5
    <3>2. DOMAIN nodes \cap hull # {}
      BY <1>2, <1>5, <3>1
    <3> QED
      BY <1>4, <2>3, <3>2
  <2> QED
    BY <2>7, <2>8, <2>9, <2>10, <2>11, <2>12 DEF cs, A
<1>8. CASE nodes # <<>> /\ kept # <<>>
  <2>1. cs = Merge(ranges, envelopes)
    BY <1>1, <1>8
  <2>2. DOMAIN kept = 1 .. Len(kept) /\ Len(kept) \in Nat /\ Len(kept) > 0
    BY <1>5, <1>8
  <2> DEFINE S == {stretches[k] : k \in 1 .. Len(kept)}
  <2>3. stretches \in [1 .. Len(kept) -> S]
    BY <2>2
  <2>4. \A r \in S : Spans(r) /\ \E i \in DOMAIN kept : r.first = kept[i].first
    BY <1>5, <2>2 DEF Stretch, Spans, Spanning
  <2> HIDE DEF stretches, S
  <2>5. stretches \in Seq(S) /\ Len(stretches) = Len(kept)
    BY <2>2, <2>3, IsSeq
  <2>6. PICK U : /\ EdgeRanges(kept, edges) \in Seq(U)
                 /\ \A r \in U : Spans(r) /\ \E i \in DOMAIN edges : r.first = edges[i].line
    BY EdgeRangesSpan
  <2> DEFINE R == S \cup U
  <2>7. stretches \in Seq(R) /\ EdgeRanges(kept, edges) \in Seq(R)
    <3>1. S \subseteq R /\ U \subseteq R
      OBVIOUS
    <3> HIDE DEF R
    <3> QED
      BY <2>5, <2>6, <3>1, SeqMonotone
  <2>8. \A r \in R : Spans(r)
    BY <2>4, <2>6
  <2>14. ASSUME UpTo(nodes, bound), \A i \in DOMAIN edges : edges[i].line <= bound
         PROVE  \A r \in R : r.first <= bound
    BY <1>9, <2>4, <2>6, <2>14 DEF UpTo
  <2> HIDE DEF R
  <2>9. all \in Seq(R) /\ Len(all) > 0
    BY <2>2, <2>5, <2>7
  <2> DEFINE o == Arranged(Len(all), earlier)
  <2>10. Reorders(ranges, all, o, earlier)
    BY DEF Reorders
  <2> HIDE DEF ranges, all, o, earlier
  <2>11. ranges \in Seq(R) /\ Len(ranges) = Len(all)
    BY <2>9, <2>10, ReorderedIs
  <2>12. /\ Merge(ranges, envelopes) \in Seq(ClustersOf(R, envelopes)) /\ Len(Merge(ranges, envelopes)) > 0
         /\ Spanning(Merge(ranges, envelopes))
         /\ Apart(Merge(ranges, envelopes), envelopes)
    BY <1>4, <2>8, <2>9, <2>11, MergeIs
  <2>13. Clear(Merge(ranges, envelopes), A)
    BY <1>4, <1>10, <2>12, ApartClear
  <2>15. ASSUME UpTo(nodes, bound), \A i \in DOMAIN edges : edges[i].line <= bound
         PROVE  UpTo(cs, bound)
    <3> SUFFICES ASSUME NEW c \in ClustersOf(R, envelopes), Spans(c) PROVE c.first <= bound
      BY <2>1, <2>12 DEF UpTo, Spanning
    <3>1. PICK open \in Seq(R), last \in Nat : Len(open) > 0 /\ c = Cluster(open, last, envelopes)
      BY DEF ClustersOf
    <3>2. 1 \in DOMAIN open /\ open[1] \in R
      BY <3>1
    <3>3. c.first <= open[1].first /\ open[1].first <= bound
      BY <1>4, <2>8, <2>14, <2>15, <3>1, <3>2, ClusterBegins
    <3>4. c.first \in Nat /\ open[1].first \in Nat
      BY <2>8, <3>2 DEF Spans
    <3> QED
      BY <3>3, <3>4
  <2> QED
    BY <2>1, <2>12, <2>13, <2>15 DEF cs, A
<1> QED
  BY <1>6, <1>7, <1>8

LEMMA RankedIs ==
    ASSUME NEW C, NEW cs \in Seq(C), Spanning(cs)
    PROVE  /\ Ranked(cs) \in Seq(C) /\ Len(Ranked(cs)) = Len(cs)
           /\ Spanning(Ranked(cs))
           /\ \A A : Clear(cs, A) => Clear(Ranked(cs), A)
           /\ \A bound : UpTo(cs, bound) => UpTo(Ranked(cs), bound)
<1> DEFINE before == {p \in (DOMAIN cs) \X (DOMAIN cs) :
             LET c == cs[p[1]]
                 d == cs[p[2]]
                 density == c.importance * Rows(d) - d.importance * Rows(c)
             IN \/ c.peak > d.peak
                \/ c.peak = d.peak /\ density > 0
                \/ c.peak = d.peak /\ density = 0 /\ c.importance > d.importance
                \/ c.peak = d.peak /\ density = 0 /\ c.importance = d.importance /\ Rows(c) < Rows(d)}
           o == Arranged(Len(cs), before)
           t == Ranked(cs)
<1>1. Reorders(t, cs, o, before)
  BY DEF Reorders, Ranked, SortedBy
<1> HIDE DEF t, o, before
<1>2. /\ t \in Seq(C) /\ Len(t) = Len(cs)
      /\ \A k \in 1 .. Len(cs) : o[k] \in 1 .. Len(cs) /\ t[k] = cs[o[k]]
  BY <1>1, ReorderedIs
<1>7. Permutes(o, Len(cs))
  BY <1>1, ReorderedIs
<1>6. \A k, l \in 1 .. Len(cs) : o[k] = o[l] => k = l
  BY <1>7 DEF Permutes
<1>3. DOMAIN t = 1 .. Len(cs) /\ DOMAIN cs = 1 .. Len(cs)
  BY <1>2
<1>4. Spanning(t)
  BY <1>2, <1>3 DEF Spanning
<1>5. ASSUME NEW A, Clear(cs, A) PROVE Clear(t, A)
  <2> SUFFICES ASSUME NEW k \in 1 .. Len(cs), NEW l \in 1 .. Len(cs),
                      k # l, t[l].first \notin A, t[k].first <= t[l].first
               PROVE  t[k].last + Gap < t[l].first
    BY <1>2 DEF Clear
  <2>1. /\ o[k] \in 1 .. Len(cs) /\ o[l] \in 1 .. Len(cs) /\ o[k] # o[l]
        /\ t[k] = cs[o[k]] /\ t[l] = cs[o[l]]
    BY <1>2, <1>6
  <2> QED
    BY <1>5, <2>1 DEF Clear
<1>8. \A bound : UpTo(cs, bound) => UpTo(t, bound)
  BY <1>2, <1>3 DEF UpTo
<1> QED
  BY <1>2, <1>4, <1>5, <1>8 DEF t

\* At least one is shown, and those that are shown are the first.
LEMMA SelectedAre ==
    ASSUME NEW C, NEW cs \in Seq(C), Len(cs) > 0, Spanning(cs), NEW budget
    PROVE  LET chosen == SelectClustersWithinBudget(cs, budget)
           IN  /\ chosen \in Seq(C) /\ Len(chosen) \in 1 .. Len(cs)
               /\ Spanning(chosen)
               /\ \A A : Clear(cs, A) => Clear(chosen, A)
               /\ \A bound : UpTo(cs, bound) => UpTo(chosen, bound)
<1> DEFINE T == {1} \cup {k \in DOMAIN cs : Estimate * SumOver(SubSeq(cs, 1, k), Rows) <= budget}
           m == Max(T)
           n == Len(cs)
           chosen == SelectClustersWithinBudget(cs, budget)
<1>1. chosen = SubSeq(cs, 1, m)
  BY DEF SelectClustersWithinBudget
<1>2. T \in SUBSET (0 .. n) /\ T # {} /\ n \in Nat /\ \A k \in T : k \in 1 .. n
  <2>1. DOMAIN cs = 1 .. n /\ n \in Nat \ {0}
    OBVIOUS
  <2> QED
    BY <2>1
<1>3. m \in 1 .. n
  <2> HIDE DEF T
  <2> QED
    BY <1>2, MaxIn
<1> HIDE DEF m, chosen
<1>4. /\ chosen \in Seq(C) /\ Len(chosen) = m /\ \A k \in 1 .. m : chosen[k] = cs[k] /\ k \in 1 .. n
      /\ DOMAIN chosen = 1 .. m /\ DOMAIN cs = 1 .. n
  BY <1>1, <1>3
<1> HIDE DEF n
<1>5. Spanning(chosen)
  BY <1>4 DEF Spanning
<1>6. ASSUME NEW A, Clear(cs, A) PROVE Clear(chosen, A)
  <2>1. \A k, l \in 1 .. n :
           k # l /\ cs[l].first \notin A /\ cs[k].first <= cs[l].first => cs[k].last + Gap < cs[l].first
    BY <1>6 DEF Clear, n
  <2>2. \A k, l \in 1 .. m : k # l /\ chosen[l].first \notin A /\ chosen[k].first <= chosen[l].first
                               => chosen[k].last + Gap < chosen[l].first
    BY <1>4, <2>1
  <2> QED
    BY <1>4, <2>2 DEF Clear
<1>7. \A bound : UpTo(cs, bound) => UpTo(chosen, bound)
  BY <1>4 DEF UpTo
<1> QED
  BY <1>3, <1>4, <1>5, <1>6, <1>7 DEF n, chosen

SliceOf(c, lines) == LinesFrom(Max({1, c.first - Padding}), Min({lines, c.last + Padding}))

LEMMA SliceIs ==
    ASSUME NEW c, Spans(c), NEW lines \in Nat
    PROVE  /\ SliceOf(c, lines) \in Seq(Int)
           /\ Run(SliceOf(c, lines))
           /\ Len(SliceOf(c, lines)) > 0 => SliceOf(c, lines)[1] = Max({1, c.first - Padding})
           /\ c.first <= lines => Len(SliceOf(c, lines)) > 0
           /\ \A i \in 1 .. Len(SliceOf(c, lines)) :
                 /\ SliceOf(c, lines)[i] >= c.first - Padding
                 /\ SliceOf(c, lines)[i] <= c.last + Padding
                 /\ SliceOf(c, lines)[i] \in 1 .. lines
<1> DEFINE a == Max({1, c.first - Padding})
           b == Min({lines, c.last + Padding})
           t == LinesFrom(a, b)
<1>1. /\ c.first - Padding \in Int /\ c.last + Padding \in Int /\ c.first \in Int /\ c.last \in Int
      /\ Padding \in Int /\ Padding >= 0 /\ c.first >= 1 /\ c.first <= c.last
  BY ClustersAssumption DEF Spans
<1>2. /\ a \in Int /\ a >= 1 /\ a >= c.first - Padding
      /\ b \in Int /\ b <= lines /\ b <= c.last + Padding
      /\ c.first <= lines => a <= b
  <2> DEFINE low == c.first - Padding
             high == c.last + Padding
  <2>3. low \in Int /\ high \in Int /\ a = Max({1, low}) /\ b = Min({lines, high})
    BY <1>1
  <2> HIDE DEF low, high, a, b
  <2>1. a = IF 1 >= low THEN 1 ELSE low
    BY <2>3, TwoOf
  <2>2. b = IF lines <= high THEN lines ELSE high
    <3>1. lines \in Int
      OBVIOUS
    <3> QED
      BY <2>3, <3>1, TwoOf
  <2> USE DEF low, high
  <2> HIDE DEF a, b
  <2> QED
    BY <1>1, <2>1, <2>2
<1> HIDE DEF a, b
<1>3. /\ t \in Seq(Int) /\ Len(t) = IF a <= b THEN b - a + 1 ELSE 0
      /\ \A i \in 1 .. Len(t) : t[i] = a + i - 1
  BY <1>2, LinesFromIs
<1> HIDE DEF t
<1>4. \A i \in 1 .. Len(t) : t[i] \in Int /\ t[i] >= a /\ t[i] <= b
  BY <1>2, <1>3
<1>5. Run(t) /\ (Len(t) > 0 => t[1] = a)
  <2>1. ASSUME NEW i \in 1 .. Len(t) PROVE t[i] = t[1] + (i - 1) /\ t[1] = a
    <3>1. Len(t) \in Nat /\ 1 \in 1 .. Len(t)
      BY <1>3
    <3>2. t[1] = a + 1 - 1 /\ t[i] = a + i - 1
      BY <1>3, <3>1
    <3> QED
      BY <1>2, <3>1, <3>2
  <2>2. Len(t) > 0 => 1 \in 1 .. Len(t)
    BY <1>3
  <2> QED
    BY <2>1, <2>2 DEF Run
<1>6. \A i \in 1 .. Len(t) : t[i] >= c.first - Padding /\ t[i] <= c.last + Padding /\ t[i] \in 1 .. lines
  BY <1>1, <1>2, <1>4
<1>7. c.first <= lines => Len(t) > 0
  BY <1>2, <1>3
<1> QED
  BY <1>3, <1>5, <1>6, <1>7 DEF SliceOf, t, a, b

\* Where the lines of a cluster begin that begins in one of A.
Beginnings(A) == {Max({1, a - Padding}) : a \in A}

\* The lines of clusters that are clear of each other do not overlap.
LEMMA ExcerptIs ==
    ASSUME NEW C, NEW cs \in Seq(C), Spanning(cs), NEW lines \in Nat
    PROVE  /\ Excerpt(cs, lines) \in Seq(Int)
           /\ \A A : Clear(cs, A) => Echoes(Excerpt(cs, lines), Beginnings(A))
           /\ Len(cs) > 0 /\ UpTo(cs, lines) => Len(Excerpt(cs, lines)) > 0
<1> DEFINE before == {p \in (DOMAIN cs) \X (DOMAIN cs) : cs[p[1]].first < cs[p[2]].first}
           o == Arranged(Len(cs), before)
           sorted == [k \in DOMAIN cs |-> cs[o[k]]]
           slices == [k \in DOMAIN sorted |-> SliceOf(sorted[k], lines)]
           n == Len(cs)
<1>1. Excerpt(cs, lines) = FlattenSeq(slices)
  BY DEF Excerpt, SortedBy, SliceOf
<1>2. Reorders(sorted, cs, o, before)
  BY DEF Reorders
<1>3. n \in Nat /\ DOMAIN cs = 1 .. n
  OBVIOUS
<1>4. \A k \in 1 .. n : Spans(cs[k]) /\ cs[k].first \in Int /\ cs[k].last \in Int
  BY <1>3 DEF Spanning, Spans
<1>5. StrictOrder(before)
  <2>1. \A a, b : <<a, b>> \in before <=> a \in 1 .. n /\ b \in 1 .. n /\ cs[a].first < cs[b].first
    BY <1>3
  <2>2. \A a \in 1 .. n : cs[a].first \in Int
    BY <1>4
  <2> HIDE DEF before, n
  <2>3. \A a, b : <<a, b>> \in before => <<b, a>> \notin before
    BY <2>1, <2>2
  <2>4. \A a, b, c : <<a, b>> \in before /\ <<b, c>> \in before => <<a, c>> \in before
    BY <2>1, <2>2
  <2> QED
    BY <2>3, <2>4 DEF StrictOrder
<1>6. \A a, b \in 1 .. n : <<a, b>> \in before <=> cs[a].first < cs[b].first
  BY <1>3
<1> HIDE DEF before, o, sorted
<1>7. /\ sorted \in Seq(C) /\ Len(sorted) = n
      /\ \A k \in 1 .. n : o[k] \in 1 .. n /\ sorted[k] = cs[o[k]]
  BY <1>2, ReorderedIs
<1>16. Permutes(o, n) /\ InOrder(o, n, before)
  BY <1>2, <1>5, ReorderedIs
<1>14. \A k, l \in 1 .. n : o[k] = o[l] => k = l
  BY <1>16 DEF Permutes
<1>15. \A k, l \in 1 .. n : k < l => <<o[l], o[k]>> \notin before
  BY <1>16 DEF InOrder
<1> HIDE DEF n
<1>8. DOMAIN sorted = 1 .. n
  BY <1>7
<1>9. \A k \in 1 .. n : Spans(sorted[k])
  BY <1>4, <1>7
<1>10. slices \in [1 .. n -> Seq(Int)] /\ \A k \in 1 .. n : slices[k] = SliceOf(sorted[k], lines)
  BY <1>8, <1>9, SliceIs
<1> HIDE DEF slices
<1>11. slices \in Seq(Seq(Int)) /\ Len(slices) = n
  BY <1>3, <1>10, IsSeq
<1>12. FlattenSeq(slices) \in Seq(Int)
  BY <1>11, FlattenHas
<1>13. ASSUME NEW A, Clear(cs, A) PROVE Echoes(FlattenSeq(slices), Beginnings(A))
  <2>1. \A k \in 1 .. n : Run(slices[k])
    BY <1>9, <1>10, SliceIs
  <2>3. ASSUME NEW l \in 1 .. n, sorted[l].first \in A, Len(slices[l]) > 0 PROVE slices[l][1] \in Beginnings(A)
    <3>1. slices[l][1] = Max({1, sorted[l].first - Padding})
      BY <1>9, <1>10, <2>3, SliceIs
    <3> QED
      BY <2>3, <3>1 DEF Beginnings
  <2>2. ASSUME NEW l \in 1 .. n, sorted[l].first \notin A, NEW k \in 1 .. n, k < l PROVE Below(slices[k], slices[l])
    <3>9. k # l /\ <<o[l], o[k]>> \notin before
      BY <1>15, <2>2
    <3>10. o[k] \in 1 .. n /\ o[l] \in 1 .. n /\ o[k] # o[l]
      BY <1>7, <1>14, <3>9
    <3>1. /\ o[k] \in 1 .. n /\ o[l] \in 1 .. n /\ o[k] # o[l]
          /\ sorted[k] = cs[o[k]] /\ sorted[l] = cs[o[l]]
          /\ ~(cs[o[l]].first < cs[o[k]].first)
      BY <1>6, <1>7, <3>9, <3>10
    <3>2. Spans(sorted[k]) /\ Spans(sorted[l])
      BY <1>9
    <3>8. /\ sorted[k].first \in Int /\ sorted[k].last \in Int /\ sorted[k].first <= sorted[k].last
          /\ sorted[l].first \in Int /\ sorted[l].last \in Int /\ sorted[l].first <= sorted[l].last
      BY <3>2 DEF Spans
    <3>11. Gap \in Int /\ Gap >= 0 /\ Padding \in Int /\ 2 * Padding <= Gap
      BY ClustersAssumption
    <3>3. sorted[k].last + Gap < sorted[l].first
      <4>1. sorted[k].first <= sorted[l].first
        BY <3>1, <3>8
      <4> QED
        BY <1>3, <1>13, <2>2, <3>1, <4>1 DEF Clear, n
    <3>12. slices[k] = SliceOf(sorted[k], lines) /\ slices[l] = SliceOf(sorted[l], lines)
      BY <1>10
    <3>4. \A i \in 1 .. Len(slices[k]) : slices[k][i] <= sorted[k].last + Padding /\ slices[k][i] \in Int
      <4>1. \A i \in 1 .. Len(SliceOf(sorted[k], lines)) :
               SliceOf(sorted[k], lines)[i] <= sorted[k].last + Padding /\ SliceOf(sorted[k], lines)[i] \in 1 .. lines
        BY <3>2, SliceIs
      <4> QED
        BY <3>12, <4>1
    <3>5. \A i \in 1 .. Len(slices[l]) : slices[l][i] >= sorted[l].first - Padding /\ slices[l][i] \in Int
      <4>1. \A i \in 1 .. Len(SliceOf(sorted[l], lines)) :
               SliceOf(sorted[l], lines)[i] >= sorted[l].first - Padding /\ SliceOf(sorted[l], lines)[i] \in 1 .. lines
        BY <3>2, SliceIs
      <4> QED
        BY <3>12, <4>1
    <3>6. sorted[k].last + Padding < sorted[l].first - Padding
      <4>1. \A a, b, g, p \in Int : a + g < b /\ 2 * p <= g => a + p < b - p
        OBVIOUS
      <4> QED
        BY <3>3, <3>8, <3>11, <4>1
    <3>7. sorted[k].last + Padding \in Int /\ sorted[l].first - Padding \in Int
      BY <3>8, <3>11
    <3> QED
      BY <3>4, <3>5, <3>6, <3>7 DEF Below
  <2> QED
    BY <1>11, <2>1, <2>2, <2>3, FlattenEchoes
<1>17. ASSUME n > 0, UpTo(cs, lines) PROVE Len(FlattenSeq(slices)) > 0
  <2>1. 1 \in 1 .. n /\ o[1] \in DOMAIN cs /\ sorted[1] = cs[o[1]]
    BY <1>3, <1>7, <1>17
  <2>2. sorted[1].first <= lines
    BY <1>17, <2>1 DEF UpTo
  <2>3. Len(slices[1]) > 0 /\ slices[1] \in Seq(Int)
    BY <1>9, <1>10, <2>1, <2>2, SliceIs
  <2>4. 1 \in 1 .. Len(slices[1]) /\ 1 \in 1 .. Len(slices)
    BY <1>11, <2>1, <2>3
  <2>5. \A k \in 1 .. Len(slices) : \A j \in 1 .. Len(slices[k]) :
           \E i \in 1 .. Len(FlattenSeq(slices)) : FlattenSeq(slices)[i] = slices[k][j]
    BY <1>11, FlattenHas
  <2>6. PICK i \in 1 .. Len(FlattenSeq(slices)) : TRUE
    BY <2>4, <2>5
  <2> QED
    BY <1>12, <2>6
<1> QED
  BY <1>1, <1>12, <1>13, <1>17 DEF n

-----------------------------------------------------------------------------
(* Skeletons. *)

LEMMA ImageFinite ==
    ASSUME NEW n \in Nat, NEW T, NEW f \in [1 .. n -> T]
    PROVE  IsFiniteSet({f[i] : i \in 1 .. n})
<1> DEFINE U == {f[i] : i \in 1 .. n}
<1>1. f \in [1 .. n -> U] /\ \A e \in U : \E i \in 1 .. n : f[i] = e
  OBVIOUS
<1> HIDE DEF U
<1>2. f \in Surjection(1 .. n, U)
  BY <1>1 DEF Surjection
<1>3. IsFiniteSet(1 .. n)
  BY FS_Interval
<1> QED
  BY <1>2, <1>3, FS_Surjection DEF U

LEMMA Products ==
    /\ \A w, x, y \in Nat : w * (x + y) = w * x + w * y /\ w * x \in Nat
    /\ \A w, x, y \in Nat : x <= y => w * x <= w * y
<1>1. \A w, x, y \in Nat : w * (x + y) = w * x + w * y /\ w * x \in Nat
  OBVIOUS
<1>2. ASSUME NEW w \in Nat, NEW x \in Nat, NEW y \in Nat, x <= y PROVE w * x <= w * y
  <2>1. y - x \in Nat /\ y = x + (y - x)
    BY <1>2
  <2>2. w * y = w * x + w * (y - x) /\ w * (y - x) \in Nat
    BY <1>1, <2>1
  <2> QED
    BY <1>1, <2>2
<1> QED
  BY <1>1, <1>2

UniqueIds(nodes) == \A i, j \in DOMAIN nodes : nodes[i].id = nodes[j].id => i = j

\* The lines of a body that are in the file.
RowsIn(n, lines) == {n.id} \X (n.first .. Min({n.last, lines}))

BodyRows(nodes, ids, lines) ==
    {p \in {nodes[i].id : i \in DOMAIN nodes} \X (0 .. lines) :
       \E i \in DOMAIN nodes : nodes[i].id \in ids /\ p \in RowsIn(nodes[i], lines)}

LEMMA RowsAre ==
    ASSUME NEW n, Spans(n), NEW lines \in Nat
    PROVE  /\ IsFiniteSet(RowsIn(n, lines))
           /\ Cardinality(RowsIn(n, lines)) \in Nat
           /\ n.first <= lines => Cardinality(RowsIn(n, lines)) = Len(Body(n, lines))
           /\ BodyChars(n, lines) = Width * Cardinality(RowsIn(n, lines))
           /\ Cardinality(RowsIn(n, lines)) <= Rows(n)
           /\ Body(n, lines) \in Seq(Int)
           /\ n.first > lines => Len(Body(n, lines)) = 1
           /\ Len(Body(n, lines)) > 0
           /\ RowsIn(n, lines) \subseteq {n.id} \X (0 .. lines)
<1> DEFINE b == Min({n.last, lines})
           k == IF b < n.first THEN 0 ELSE b - n.first + 1
<1>1. n.first \in Nat \ {0} /\ n.last \in Nat /\ n.first <= n.last
  BY DEF Spans
<1>2. b = (IF n.last <= lines THEN n.last ELSE lines) /\ b \in Nat
  BY <1>1, TwoOf
<1>3. BodyChars(n, lines) = Width * Max({0, b - n.first + 1}) /\ RowsIn(n, lines) = {n.id} \X (n.first .. b)
  BY DEF BodyChars, RowsIn
<1>4. Body(n, lines) = IF n.first > lines THEN <<n.first>> ELSE LinesFrom(n.first, b)
  BY DEF Body
<1> HIDE DEF b
<1>5. IsFiniteSet({n.id}) /\ Cardinality({n.id}) = 1
  BY FS_Singleton
<1>6. IsFiniteSet(n.first .. b) /\ Cardinality(n.first .. b) = k
  <2>1. \A x, y \in Int : IsFiniteSet(x .. y) /\ Cardinality(x .. y) = IF x > y THEN 0 ELSE y - x + 1
    BY FS_Interval
  <2>2. n.first \in Int /\ b \in Int
    BY <1>1, <1>2
  <2> QED
    BY <2>1, <2>2
<1>7. IsFiniteSet(RowsIn(n, lines)) /\ Cardinality(RowsIn(n, lines)) = 1 * k
  <2> DEFINE I == {n.id}
             J == n.first .. b
  <2>1. RowsIn(n, lines) = I \X J
    BY <1>3
  <2>2. IsFiniteSet(I) /\ Cardinality(I) = 1 /\ IsFiniteSet(J) /\ Cardinality(J) = k
    BY <1>5, <1>6
  <2> HIDE DEF I, J, k
  <2> QED
    BY <2>1, <2>2, FS_Product
<1>8. k \in Nat /\ 1 * k = k
  BY <1>1, <1>2
<1>9. Max({0, b - n.first + 1}) = k
  <2> DEFINE d == b - n.first + 1
  <2>1. d \in Int /\ 0 \in Int
    BY <1>1, <1>2
  <2> HIDE DEF d
  <2>2. Max({0, d}) = IF 0 >= d THEN 0 ELSE d
    BY <2>1, TwoOf
  <2> QED
    BY <1>1, <1>2, <2>2 DEF d
<1>10. k <= Rows(n)
  BY <1>1, <1>2 DEF Rows
<1>11. n.first <= lines => n.first <= b
  BY <1>1, <1>2
<1>12. LinesFrom(n.first, b) \in Seq(Int) /\ (n.first <= b => Len(LinesFrom(n.first, b)) = b - n.first + 1)
  <2>1. \A x, y \in Int : /\ LinesFrom(x, y) \in Seq(Int)
                         /\ Len(LinesFrom(x, y)) = IF x <= y THEN y - x + 1 ELSE 0
    BY LinesFromIs
  <2>2. n.first \in Int /\ b \in Int
    BY <1>1, <1>2
  <2> QED
    BY <2>1, <2>2
<1>13. <<n.first>> \in Seq(Int) /\ Len(<<n.first>>) = 1
  BY <1>1
<1>14. n.first .. b \subseteq 0 .. lines
  BY <1>1, <1>2
<1>15. n.first <= lines => Len(Body(n, lines)) = k
  BY <1>1, <1>2, <1>4, <1>11, <1>12
<1>16. Len(Body(n, lines)) > 0
  BY <1>1, <1>2, <1>4, <1>11, <1>12, <1>13
<1> HIDE DEF k
<1> QED
  BY <1>16, <1>1, <1>3, <1>4, <1>7, <1>8, <1>9, <1>10, <1>12, <1>13, <1>14, <1>15

LEMMA BodyRowsAre ==
    ASSUME NEW N, NEW nodes \in Seq(N), Spanning(nodes), NEW lines \in Nat
    PROVE  /\ \A ids : IsFiniteSet(BodyRows(nodes, ids, lines)) /\ Cardinality(BodyRows(nodes, ids, lines)) \in Nat
           /\ IsFiniteSet(Behind(nodes, lines)) /\ Cardinality(Behind(nodes, lines)) \in Nat
<1> DEFINE f == [i \in DOMAIN nodes |-> nodes[i].id]
           I == {nodes[i].id : i \in DOMAIN nodes}
           J == {f[i] : i \in 1 .. Len(nodes)}
<1>1. DOMAIN nodes = 1 .. Len(nodes) /\ Len(nodes) \in Nat
  OBVIOUS
<1>2. I = J /\ f \in [1 .. Len(nodes) -> I]
  BY <1>1
<1> HIDE DEF f
<1>3. IsFiniteSet(I)
  <2>1. IsFiniteSet(J)
    <3> HIDE DEF I
    <3> QED
      BY <1>1, <1>2, ImageFinite
  <2> QED
    BY <1>2, <2>1
<1>4. IsFiniteSet(0 .. lines)
  BY FS_Interval
<1>5. IsFiniteSet(I \X (0 .. lines))
  <2> HIDE DEF I
  <2> QED
    BY <1>3, <1>4, FS_Product
<1>6. ASSUME NEW ids PROVE IsFiniteSet(BodyRows(nodes, ids, lines)) /\ Cardinality(BodyRows(nodes, ids, lines)) \in Nat
  <2>1. BodyRows(nodes, ids, lines) \in SUBSET (I \X (0 .. lines))
    BY DEF BodyRows
  <2> HIDE DEF I
  <2> QED
    BY <1>5, <2>1, FS_Subset, FS_CardinalityType
<1>7. Behind(nodes, lines) \in SUBSET I
  BY DEF Behind, Sites
<1> HIDE DEF I
<1>8. IsFiniteSet(Behind(nodes, lines))
  BY <1>3, <1>7, FS_Subset
<1> QED
  BY <1>6, <1>8, FS_CardinalityType

TakenNext(taken, n, path, unique, entry, lines) ==
    IF Priority(n, path, unique, entry) < 99 /\ Takes(taken, n, lines)
    THEN [ids |-> taken.ids \cup {n.id}, chars |-> taken.chars + BodyChars(n, lines)] ELSE taken

\* The callables that may keep their bodies.
Matter(nodes, path, unique, entry) == {i \in DOMAIN nodes : Priority(nodes[i], path, unique, entry) < 99}

\* The bodies that were taken are no longer than the cap, or one of these.
Affordable(taken, nodes, lines, at) ==
    /\ Width * Cardinality(BodyRows(nodes, taken.ids, lines)) <= taken.chars
    /\ taken.ids = {} => taken.chars = 0
    /\ taken.chars <= BodyCap \/ \E i \in at : taken.chars <= Width * Rows(nodes[i])

LEMMA TakeIs ==
    ASSUME NEW N, NEW nodes \in Seq(N), Spanning(nodes), UniqueIds(nodes), NEW j \in DOMAIN nodes,
           NEW path, NEW unique, NEW entry, NEW lines \in Nat, NEW I, nodes[j].id \in I,
           NEW taken \in [ids : SUBSET I, chars : Nat],
           Affordable(taken, nodes, lines, Matter(nodes, path, unique, entry))
    PROVE  /\ TakenNext(taken, nodes[j], path, unique, entry, lines) \in [ids : SUBSET I, chars : Nat]
           /\ Affordable(TakenNext(taken, nodes[j], path, unique, entry, lines), nodes, lines,
                         Matter(nodes, path, unique, entry))
<1> DEFINE n == nodes[j]
           at == Matter(nodes, path, unique, entry)
           new == TakenNext(taken, n, path, unique, entry, lines)
<1>1. CASE ~(Priority(n, path, unique, entry) < 99 /\ Takes(taken, n, lines))
  <2>1. new = taken
    BY <1>1 DEF TakenNext
  <2> QED
    BY <2>1
<1>2. CASE Priority(n, path, unique, entry) < 99 /\ Takes(taken, n, lines)
  <2> DEFINE ids == taken.ids \cup {n.id}
             k == Cardinality(RowsIn(n, lines))
             m == Cardinality(BodyRows(nodes, taken.ids, lines))
             l == Cardinality(BodyRows(nodes, ids, lines))
             chars == taken.chars + BodyChars(n, lines)
  <2>1. new = [ids |-> ids, chars |-> chars]
    BY <1>2 DEF TakenNext
  <2>2. Spans(n)
    BY DEF Spanning
  <2>3. IsFiniteSet(RowsIn(n, lines)) /\ k \in Nat /\ BodyChars(n, lines) = Width * k /\ k <= Rows(n)
    BY <2>2, RowsAre
  <2>4. BodyRows(nodes, ids, lines) \in SUBSET (BodyRows(nodes, taken.ids, lines) \cup RowsIn(n, lines))
    <3> SUFFICES ASSUME NEW p \in BodyRows(nodes, ids, lines), p \notin RowsIn(n, lines)
                 PROVE  p \in BodyRows(nodes, taken.ids, lines)
      OBVIOUS
    <3>1. PICK i \in DOMAIN nodes : nodes[i].id \in ids /\ p \in RowsIn(nodes[i], lines)
      BY DEF BodyRows
    <3>2. nodes[i].id \in taken.ids
      <4>1. CASE nodes[i].id = n.id
        BY <3>1, <4>1 DEF UniqueIds
      <4> QED
        BY <3>1, <4>1
    <3> QED
      BY <3>1, <3>2 DEF BodyRows
  <2>5. \A x : IsFiniteSet(BodyRows(nodes, x, lines)) /\ Cardinality(BodyRows(nodes, x, lines)) \in Nat
    BY BodyRowsAre
  <2>6. l <= m + k
    <3> DEFINE A == BodyRows(nodes, taken.ids, lines)
               B == RowsIn(n, lines)
    <3>1. IsFiniteSet(A) /\ IsFiniteSet(B) /\ BodyRows(nodes, ids, lines) \in SUBSET (A \cup B)
          /\ m = Cardinality(A) /\ k = Cardinality(B)
      BY <2>3, <2>4, <2>5
    <3> HIDE DEF A, B, m, k, ids
    <3>2. IsFiniteSet(A \cup B) /\ Cardinality(A \cup B) = m + k - Cardinality(A \cap B)
      BY <3>1, FS_Union
    <3>3. IsFiniteSet(A \cap B)
      BY <3>1, FS_Intersection
    <3>4. Cardinality(A \cap B) \in Nat /\ Cardinality(A \cup B) \in Nat /\ m \in Nat /\ k \in Nat
      BY <3>1, <3>2, <3>3, FS_CardinalityType
    <3>5. l <= Cardinality(A \cup B)
      BY <3>1, <3>2, FS_Subset
    <3>6. l \in Nat
      BY <2>5
    <3> QED
      BY <3>2, <3>4, <3>5, <3>6
  <2>7. l \in Nat /\ m \in Nat
    BY <2>5
  <2> HIDE DEF l, m, k, n
  <2>8. Width \in Nat
    BY ClustersAssumption
  <2>9. Width * l <= Width * m + Width * k /\ Width * k \in Nat /\ Width * l \in Nat /\ Width * m \in Nat
    <3>1. Width * l <= Width * (m + k) /\ Width * (m + k) = Width * m + Width * k
      BY <2>3, <2>6, <2>7, <2>8, Products
    <3> QED
      BY <2>3, <2>7, <2>8, <3>1, Products
  <2>10. Width * m <= taken.chars /\ taken.chars \in Nat
    BY DEF Affordable, m
  <2>11. chars \in Nat /\ Width * l <= chars /\ chars = taken.chars + Width * k
    BY <2>3, <2>9, <2>10
  <2>16. j \in at
    BY <1>2 DEF Matter, n
  <2>12. chars <= BodyCap \/ chars <= Width * Rows(n)
    <3>1. CASE taken.chars + BodyChars(n, lines) <= BodyCap
      BY <3>1
    <3>2. CASE taken.ids = {}
      <4>1. taken.chars = 0
        BY <3>2 DEF Affordable
      <4>2. Rows(n) \in Nat
        BY <2>2 DEF Spans, Rows
      <4>3. Width * k <= Width * Rows(n)
        BY <2>3, <2>8, <4>2, Products
      <4> QED
        BY <2>9, <2>11, <4>1, <4>3
    <3> QED
      BY <1>2, <3>1, <3>2 DEF Takes
  <2>13. ids # {} /\ ids \in SUBSET I
    BY DEF n
  <2>14. new.ids = ids /\ new.chars = chars /\ new \in [ids : SUBSET I, chars : Nat]
    <3> HIDE DEF ids, chars, new
    <3> QED
      BY <2>1, <2>11, <2>13
  <2> HIDE DEF chars, ids, new
  <2> HIDE DEF at
  <2>15. Affordable(new, nodes, lines, at)
    BY <2>11, <2>12, <2>13, <2>14, <2>16 DEF Affordable, l, n
  <2> QED
    BY <2>14, <2>15 DEF new, n, at
<1> QED
  BY <1>1, <1>2

LEMMA BodiesAre ==
    ASSUME NEW N, NEW nodes \in Seq(N), Spanning(nodes), UniqueIds(nodes),
           NEW path, NEW unique, NEW entry, NEW lines \in Nat
    PROVE  LET w == Width * Cardinality(BodyRows(nodes, BodiesKept(nodes, path, unique, entry, lines), lines))
           IN  w <= BodyCap \/ \E i \in Matter(nodes, path, unique, entry) : w <= Width * Rows(nodes[i])
<1> DEFINE at == Matter(nodes, path, unique, entry)
           before == {p \in (DOMAIN nodes) \X (DOMAIN nodes) :
                        Priority(nodes[p[1]], path, unique, entry) < Priority(nodes[p[2]], path, unique, entry)}
           o == Arranged(Len(nodes), before)
           order == [k \in DOMAIN nodes |-> nodes[o[k]]]
           m == Len(order)
           I == {nodes[i].id : i \in DOMAIN nodes}
           S == {t \in [ids : SUBSET I, chars : Nat] : Affordable(t, nodes, lines, at)}
           a == [ids |-> {}, chars |-> 0]
           g == [p \in Nat \X S |-> IF p[1] \in 1 .. m THEN TakenNext(p[2], order[p[1]], path, unique, entry, lines)
                                    ELSE p[2]]
           f == CHOOSE f : f = [i \in 0 .. m |-> IF i = 0 THEN a
                                                 ELSE TakenNext(f[i - 1], order[i], path, unique, entry, lines)]
<1>1. BodiesKept(nodes, path, unique, entry, lines) = f[m].ids
  BY DEF BodiesKept, TakenNext, SortedBy
<1>2. Reorders(order, nodes, o, before)
  BY DEF Reorders
<1>20. DOMAIN nodes = 1 .. Len(nodes)
  OBVIOUS
<1> HIDE DEF order, o, before
<1>3. /\ order \in Seq(N) /\ m = Len(nodes)
      /\ \A k \in 1 .. Len(nodes) : o[k] \in 1 .. Len(nodes) /\ order[k] = nodes[o[k]]
  BY <1>2, ReorderedIs
<1>4. m \in Nat /\ DOMAIN nodes = 1 .. m
  BY <1>3, <1>20
<1> HIDE DEF m
<1>5. a \in S
  <2>1. a \in [ids : SUBSET I, chars : Nat] /\ a.ids = {} /\ a.chars = 0
    OBVIOUS
  <2> HIDE DEF a, I
  <2>2. BodyRows(nodes, a.ids, lines) = {}
    BY <2>1 DEF BodyRows
  <2>3. Width * Cardinality(BodyRows(nodes, a.ids, lines)) = 0
    BY <2>2, FS_EmptySet, ClustersAssumption
  <2>4. BodyCap \in Nat
    BY ClustersAssumption DEF BodyCap
  <2>5. Affordable(a, nodes, lines, at)
    BY <2>1, <2>3, <2>4 DEF Affordable
  <2> QED
    BY <2>1, <2>5
<1> HIDE DEF a
<1>6. ASSUME NEW t \in S, NEW k \in 1 .. m PROVE TakenNext(t, order[k], path, unique, entry, lines) \in S
  <2>1. o[k] \in DOMAIN nodes /\ order[k] = nodes[o[k]]
    BY <1>3, <1>4
  <2>2. nodes[o[k]].id \in I
    BY <2>1
  <2>3. t \in [ids : SUBSET I, chars : Nat] /\ Affordable(t, nodes, lines, at)
    OBVIOUS
  <2> HIDE DEF I
  <2>4. /\ TakenNext(t, nodes[o[k]], path, unique, entry, lines) \in [ids : SUBSET I, chars : Nat]
        /\ Affordable(TakenNext(t, nodes[o[k]], path, unique, entry, lines), nodes, lines, at)
    BY <2>1, <2>2, <2>3, TakeIs
  <2> QED
    BY <2>1, <2>4
<1> HIDE DEF S
<1>7. Stepping(S, g)
  <2>1. \A p \in Nat \X S : (IF p[1] \in 1 .. m THEN TakenNext(p[2], order[p[1]], path, unique, entry, lines)
                             ELSE p[2]) \in S
    BY <1>6
  <2> QED
    BY <2>1 DEF Stepping
<1>8. ASSUME NEW i \in 1 .. m, NEW x \in S PROVE g[<<i, x>>] = TakenNext(x, order[i], path, unique, entry, lines)
  <2>1. <<i, x>> \in Nat \X S /\ <<i, x>>[1] = i /\ <<i, x>>[2] = x
    BY <1>4
  <2> QED
    BY <2>1
<1> HIDE DEF g
<1>9. PICK h : Recurs(S, a, g, m, h)
  BY <1>4, <1>5, <1>7, Recursion
<1>10. h \in [0 .. m -> S] /\ h[0] = a /\ \A i \in 1 .. m : h[i] = g[<<i, h[i - 1]>>]
  BY <1>9 DEF Recurs
<1> DEFINE l == [i \in 0 .. m |-> IF i = 0 THEN a ELSE TakenNext(h[i - 1], order[i], path, unique, entry, lines)]
<1>11. ASSUME NEW i \in 0 .. m PROVE h[i] = l[i]
  <2>1. CASE i = 0
    BY <1>10, <2>1
  <2>2. CASE i # 0
    <3>1. i \in 1 .. m /\ i - 1 \in 0 .. m
      BY <1>4, <2>2
    <3>2. h[i] = g[<<i, h[i - 1]>>] /\ h[i - 1] \in S
      BY <1>10, <3>1
    <3>3. g[<<i, h[i - 1]>>] = TakenNext(h[i - 1], order[i], path, unique, entry, lines)
      BY <1>8, <3>1, <3>2
    <3> QED
      BY <2>2, <3>2, <3>3
  <2> QED
    BY <2>1, <2>2
<1>12. h = [i \in 0 .. m |-> h[i]] /\ l = [i \in 0 .. m |-> l[i]]
  BY <1>10
<1>13. h = l
  <2> HIDE DEF l
  <2> QED
    BY <1>11, <1>12
<1>14. f = [i \in 0 .. m |-> IF i = 0 THEN a ELSE TakenNext(f[i - 1], order[i], path, unique, entry, lines)]
  <2>1. h = [i \in 0 .. m |-> IF i = 0 THEN a ELSE TakenNext(h[i - 1], order[i], path, unique, entry, lines)]
    BY <1>13
  <2> QED
    BY <2>1
<1> HIDE DEF f
<1>15. \A i \in 0 .. m : f[i] = IF i = 0 THEN a ELSE TakenNext(f[i - 1], order[i], path, unique, entry, lines)
  BY <1>14
<1> DEFINE K == {i \in Nat : i \in 0 .. m => f[i] \in S}
<1>16. 0 \in K
  BY <1>4, <1>5, <1>15
<1>17. ASSUME NEW i \in Nat, i \in K PROVE i + 1 \in K
  <2> SUFFICES ASSUME i + 1 \in 0 .. m PROVE f[i + 1] \in S
    OBVIOUS
  <2>1. i \in 0 .. m /\ i + 1 \in 1 .. m /\ i + 1 # 0 /\ (i + 1) - 1 = i
    BY <1>4
  <2>2. f[i] \in S
    BY <1>17, <2>1
  <2>3. f[i + 1] = TakenNext(f[i], order[i + 1], path, unique, entry, lines)
    BY <1>15, <2>1
  <2> QED
    BY <1>6, <2>1, <2>2, <2>3
<1> HIDE DEF K
<1>18. \A i \in Nat : i \in K
  BY <1>16, <1>17, SetInduction
<1>19. f[m] \in S
  <2>1. m \in 0 .. m /\ m \in K
    BY <1>4, <1>18
  <2> QED
    BY <2>1 DEF K
<1>21. f[m].chars \in Nat /\ Affordable(f[m], nodes, lines, at)
  BY <1>19 DEF S
<1>27. at \subseteq DOMAIN nodes
  BY DEF Matter
<1> HIDE DEF at
<1> DEFINE w == Width * Cardinality(BodyRows(nodes, f[m].ids, lines))
<1>22. w \in Nat /\ BodyCap \in Nat
  <2>1. Cardinality(BodyRows(nodes, f[m].ids, lines)) \in Nat
    BY BodyRowsAre
  <2>2. Width \in Nat /\ PerFile \in Nat
    BY ClustersAssumption
  <2>3. w \in Nat
    BY <2>1, <2>2, Products
  <2>4. BodyCap \in Nat
    BY <2>2 DEF BodyCap
  <2> QED
    BY <2>3, <2>4
<1>23. \A i \in DOMAIN nodes : Width * Rows(nodes[i]) \in Nat
  <2>1. \A i \in DOMAIN nodes : Rows(nodes[i]) \in Nat
    BY DEF Spanning, Spans, Rows
  <2> QED
    BY <2>1, ClustersAssumption, Products
<1>24. w <= f[m].chars
  BY <1>21 DEF Affordable
<1>25. f[m].chars <= BodyCap \/ \E i \in at : f[m].chars <= Width * Rows(nodes[i])
  BY <1>21 DEF Affordable
<1> HIDE DEF w
<1>26. w <= BodyCap \/ \E i \in at : w <= Width * Rows(nodes[i])
  BY <1>21, <1>22, <1>23, <1>24, <1>25, <1>27
<1> QED
  BY <1>1, <1>26 DEF w, at

ShownNext(acc, n, callables, bodies, lines) ==
    CASE acc.stop \/ n.first <= acc.covered -> acc
      [] ~acc.stop /\ n.first > acc.covered /\ n.id \in bodies ->
           [acc EXCEPT !.text = @ \o Body(n, lines), !.covered = n.last]
      [] ~acc.stop /\ n.first > acc.covered /\ n.id \notin bodies /\ acc.signatures >= MaxSignatures ->
           [acc EXCEPT !.stop = TRUE,
                       !.text = @ \o (IF \E i \in DOMAIN callables : callables[i].first > n.first
                                                                  /\ callables[i].id \notin bodies
                                      THEN <<0>> ELSE <<>>)]
      [] OTHER ->
           IF n.first > lines THEN acc
           ELSE [acc EXCEPT !.text = Append(@, n.first), !.signatures = @ + 1]

Skeletons == [text : Seq(Int), covered : Nat, signatures : Nat, stop : BOOLEAN]

\* The text is made of signatures, lines P of bodies, one line for each of the
\* bodies B behind the end, and the last line.
Counted(acc, B, P, ids, nodes, bodies, lines) ==
    /\ B \subseteq Behind(nodes, lines) /\ B \subseteq ids
    /\ P \subseteq BodyRows(nodes, bodies, lines) /\ \A p \in P : p[1] \in ids
    /\ Len(acc.text) <= acc.signatures + (IF acc.stop THEN 1 ELSE 0) + Cardinality(B) + Cardinality(P)

AllIn(nodes, lines) == \A i \in DOMAIN nodes : nodes[i].last <= lines

Skeletal(acc, ids, nodes, bodies, lines) ==
    /\ acc \in Skeletons
    /\ acc.signatures <= MaxSignatures
    /\ \E B, P : Counted(acc, B, P, ids, nodes, bodies, lines)
    /\ ids = {} => acc.covered = 0 /\ acc.signatures = 0 /\ ~acc.stop
    /\ ids # {} /\ AllIn(nodes, lines) => Len(acc.text) > 0

LEMMA ShownType ==
    ASSUME NEW acc \in Skeletons, NEW n, Spans(n), NEW callables, NEW bodies, NEW lines \in Nat
    PROVE  ShownNext(acc, n, callables, bodies, lines) \in Skeletons
<1>1. n.first \in Nat /\ n.last \in Nat /\ Body(n, lines) \in Seq(Int)
  BY RowsAre DEF Spans
<1>2. acc.text \in Seq(Int) /\ acc.covered \in Nat /\ acc.signatures \in Nat
  BY DEF Skeletons
<1> DEFINE last == IF \E i \in DOMAIN callables : callables[i].first > n.first /\ callables[i].id \notin bodies
                   THEN <<0>> ELSE <<>>
<1>3. last \in Seq(Int)
  OBVIOUS
<1> HIDE DEF last
<1>4. /\ acc.text \o Body(n, lines) \in Seq(Int) /\ acc.text \o last \in Seq(Int)
      /\ Append(acc.text, n.first) \in Seq(Int) /\ acc.signatures + 1 \in Nat
  BY <1>1, <1>2, <1>3
<1>5. /\ [acc EXCEPT !.text = acc.text \o Body(n, lines), !.covered = n.last] \in Skeletons
      /\ [acc EXCEPT !.stop = TRUE, !.text = acc.text \o last] \in Skeletons
      /\ [acc EXCEPT !.text = Append(acc.text, n.first), !.signatures = acc.signatures + 1] \in Skeletons
  BY <1>1, <1>4 DEF Skeletons
<1> QED
  BY <1>5 DEF ShownNext, last

LEMMA ShowIs ==
    ASSUME NEW N, NEW nodes \in Seq(N), Spanning(nodes), NEW j \in DOMAIN nodes, nodes[j].kind = "callable",
           NEW callables, NEW bodies, NEW lines \in Nat, NEW ids, nodes[j].id \notin ids,
           NEW acc, Skeletal(acc, ids, nodes, bodies, lines)
    PROVE  Skeletal(ShownNext(acc, nodes[j], callables, bodies, lines), ids \cup {nodes[j].id}, nodes, bodies, lines)
<1> DEFINE n == nodes[j]
           more == ids \cup {n.id}
           new == ShownNext(acc, n, callables, bodies, lines)
           k == Cardinality(RowsIn(n, lines))
           stopped == IF acc.stop THEN 1 ELSE 0
           length == Len(acc.text)
<1>1. /\ Spans(n) /\ n.first \in Nat /\ n.last \in Nat /\ n.first > 0 /\ n.first <= n.last
  BY DEF Spanning, Spans
<1>2. PICK B, P : Counted(acc, B, P, ids, nodes, bodies, lines)
  BY DEF Skeletal
<1>3. /\ B \subseteq Behind(nodes, lines) /\ B \subseteq ids
      /\ P \subseteq BodyRows(nodes, bodies, lines) /\ \A p \in P : p[1] \in ids
      /\ length <= acc.signatures + stopped + Cardinality(B) + Cardinality(P)
  BY <1>2 DEF Counted
<1>15. stopped \in Nat
  OBVIOUS
<1>4. /\ acc \in Skeletons /\ acc.signatures <= MaxSignatures
      /\ acc.text \in Seq(Int) /\ acc.signatures \in Nat /\ acc.covered \in Nat /\ Len(acc.text) \in Nat
  BY DEF Skeletal, Skeletons
<1>5. new \in Skeletons
  BY <1>1, <1>4, ShownType
<1>6. IsFiniteSet(B) /\ IsFiniteSet(P) /\ Cardinality(B) \in Nat /\ Cardinality(P) \in Nat
  <2>1. IsFiniteSet(Behind(nodes, lines)) /\ IsFiniteSet(BodyRows(nodes, bodies, lines))
    BY BodyRowsAre
  <2>2. IsFiniteSet(B) /\ IsFiniteSet(P)
    BY <1>3, <2>1, FS_Subset
  <2> QED
    BY <2>2, FS_CardinalityType
<1>7. /\ IsFiniteSet(RowsIn(n, lines)) /\ k \in Nat
      /\ n.first <= lines => k = Len(Body(n, lines))
      /\ Body(n, lines) \in Seq(Int)
      /\ n.first > lines => Len(Body(n, lines)) = 1
      /\ RowsIn(n, lines) \subseteq {n.id} \X (0 .. lines)
  BY <1>1, RowsAre
<1>18. Len(Body(n, lines)) > 0
  BY <1>1, RowsAre
<1>8. MaxSignatures \in Nat /\ MaxSignatures > 0
  BY ClustersAssumption
<1>16. length \in Nat
  BY <1>4
<1>19. more # {}
  OBVIOUS
<1>20. /\ ids = {} => acc.covered = 0 /\ acc.signatures = 0 /\ ~acc.stop
       /\ ids # {} /\ AllIn(nodes, lines) => length > 0
  BY DEF Skeletal
<1>21. AllIn(nodes, lines) => n.first <= lines
  BY <1>1 DEF AllIn
<1> HIDE DEF k, length, stopped
<1> DEFINE b == Cardinality(B)
           c == Cardinality(P)
           signatures == acc.signatures
<1>17. /\ b \in Nat /\ c \in Nat /\ signatures \in Nat /\ stopped \in Nat /\ length \in Nat
       /\ length <= signatures + stopped + b + c
  BY <1>3, <1>4, <1>6, <1>15, <1>16
<1> HIDE DEF b, c, signatures
<1>9. CASE acc.stop \/ n.first <= acc.covered
  <2>1. new = acc
    BY <1>1, <1>4, <1>9 DEF ShownNext
  <2>2. Counted(new, B, P, more, nodes, bodies, lines)
    BY <1>3, <2>1 DEF Counted, length, stopped
  <2>3. ids # {}
    BY <1>1, <1>9, <1>20
  <2>4. AllIn(nodes, lines) => Len(new.text) > 0
    BY <1>20, <2>1, <2>3 DEF length
  <2> QED
    BY <1>4, <1>5, <1>19, <2>1, <2>2, <2>4 DEF Skeletal
<1>10. CASE ~acc.stop /\ n.first > acc.covered /\ n.id \in bodies
  <2>1. new = [acc EXCEPT !.text = @ \o Body(n, lines), !.covered = n.last]
    BY <1>10 DEF ShownNext
  <2>2. new.text = acc.text \o Body(n, lines) /\ new.signatures = acc.signatures /\ new.stop = acc.stop
    BY <1>4, <2>1 DEF Skeletons
  <2>3. Len(new.text) = length + Len(Body(n, lines))
    BY <1>4, <1>7, <2>2 DEF length
  <2>6. (IF new.stop THEN 1 ELSE 0) = stopped
    BY <2>2 DEF stopped
  <2>7. Len(new.text) > 0
    <3>1. Len(Body(n, lines)) \in Nat
      BY <1>7
    <3> QED
      BY <1>16, <1>18, <2>3, <3>1
  <2> HIDE DEF new
  <2>4. CASE n.first > lines
    <3> DEFINE C == B \cup {n.id}
    <3>1. n.id \notin B
      BY <1>3
    <3>2. Cardinality(C) = Cardinality(B) + 1
      BY <1>6, <3>1, FS_AddElement
    <3>3. C \subseteq Behind(nodes, lines) /\ C \subseteq more
      BY <1>3, <2>4 DEF Behind, Sites
    <3>4. Len(Body(n, lines)) = 1
      BY <1>7, <2>4
    <3> HIDE DEF C
    <3>5. Len(new.text) <= signatures + stopped + (b + 1) + c
      BY <1>17, <2>3, <3>4
    <3>6. Counted(new, C, P, more, nodes, bodies, lines)
      BY <1>3, <2>2, <2>6, <3>2, <3>3, <3>5 DEF Counted, signatures, b, c
    <3> QED
      BY <1>4, <1>5, <1>19, <2>2, <2>7, <3>6 DEF Skeletal, new
  <2>5. CASE ~(n.first > lines)
    <3> DEFINE Q == RowsIn(n, lines)
               R == P \cup Q
    <3>1. k = Len(Body(n, lines)) /\ k = Cardinality(Q) /\ IsFiniteSet(Q)
      BY <1>1, <1>7, <2>5 DEF k
    <3>2. P \cap Q = {}
      <4> SUFFICES ASSUME NEW p \in P, p \in Q PROVE FALSE
        OBVIOUS
      <4>1. p[1] = n.id /\ p[1] \in ids
        BY <1>3, <1>7
      <4> QED
        BY <4>1
    <3>3. Q \subseteq BodyRows(nodes, bodies, lines) /\ \A p \in Q : p[1] \in more
      BY <1>7, <1>10 DEF BodyRows
    <3> HIDE DEF Q
    <3>4. Cardinality(R) = Cardinality(P) + Cardinality(Q)
      <4>1. Cardinality(P \cap Q) = 0
        BY <3>2, FS_EmptySet
      <4>2. Cardinality(R) = Cardinality(P) + Cardinality(Q) - Cardinality(P \cap Q)
        BY <1>6, <3>1, FS_Union
      <4>3. Cardinality(Q) \in Nat
        BY <3>1, FS_CardinalityType
      <4> QED
        BY <1>6, <4>1, <4>2, <4>3
    <3>5. R \subseteq BodyRows(nodes, bodies, lines) /\ \A p \in R : p[1] \in more
      BY <1>3, <3>3
    <3> HIDE DEF R
    <3>6. Len(new.text) <= signatures + stopped + b + (c + k)
      BY <1>7, <1>17, <2>3, <3>1
    <3>8. Cardinality(R) = c + k
      BY <3>1, <3>4 DEF c
    <3>7. Counted(new, B, R, more, nodes, bodies, lines)
      BY <1>3, <2>2, <2>6, <3>5, <3>6, <3>8 DEF Counted, signatures, b
    <3> QED
      BY <1>4, <1>5, <1>19, <2>2, <2>7, <3>7 DEF Skeletal, new
  <2> QED
    BY <2>4, <2>5
<1>11. CASE ~acc.stop /\ n.first > acc.covered /\ n.id \notin bodies /\ acc.signatures >= MaxSignatures
  <2> DEFINE last == IF \E i \in DOMAIN callables : callables[i].first > n.first /\ callables[i].id \notin bodies
                     THEN <<0>> ELSE <<>>
  <2>1. new = [acc EXCEPT !.stop = TRUE, !.text = @ \o last]
    BY <1>11 DEF ShownNext
  <2>2. new.text = acc.text \o last /\ new.signatures = acc.signatures /\ new.stop = TRUE
    BY <1>4, <2>1 DEF Skeletons
  <2>3. last \in Seq(Int) /\ Len(last) <= 1 /\ Len(last) \in Nat
    OBVIOUS
  <2> HIDE DEF last, new
  <2>4. Len(new.text) = length + Len(last)
    BY <1>4, <2>2, <2>3 DEF length
  <2>7. stopped = 0 /\ (IF new.stop THEN 1 ELSE 0) = 1
    BY <1>11, <2>2 DEF stopped
  <2>5. Len(new.text) <= signatures + 1 + b + c
    BY <1>17, <2>3, <2>4, <2>7
  <2>6. Counted(new, B, P, more, nodes, bodies, lines)
    BY <1>3, <2>2, <2>5, <2>7 DEF Counted, signatures, b, c
  <2>8. ids # {}
    <3>1. acc.signatures # 0
      BY <1>4, <1>8, <1>11
    <3> QED
      BY <1>20, <3>1
  <2>9. AllIn(nodes, lines) => Len(new.text) > 0
    BY <1>16, <1>20, <2>3, <2>4, <2>8
  <2> QED
    BY <1>4, <1>5, <1>19, <2>2, <2>6, <2>9 DEF Skeletal, new
<1>12. CASE ~acc.stop /\ n.first > acc.covered /\ n.id \notin bodies /\ ~(acc.signatures >= MaxSignatures)
  <2>1. new = IF n.first > lines THEN acc ELSE [acc EXCEPT !.text = Append(@, n.first), !.signatures = @ + 1]
    BY <1>1, <1>4, <1>12 DEF ShownNext
  <2>2. CASE n.first > lines
    <3>1. new = acc
      BY <2>1, <2>2
    <3>2. Counted(new, B, P, more, nodes, bodies, lines)
      BY <1>3, <3>1 DEF Counted, length, stopped
    <3>3. ~AllIn(nodes, lines)
      BY <1>1, <1>21, <2>2
    <3> QED
      BY <1>4, <1>5, <1>19, <3>1, <3>2, <3>3 DEF Skeletal
  <2>3. CASE ~(n.first > lines)
    <3>1. new = [acc EXCEPT !.text = Append(@, n.first), !.signatures = @ + 1]
      BY <2>1, <2>3
    <3>2. new.text = Append(acc.text, n.first) /\ new.signatures = acc.signatures + 1 /\ new.stop = acc.stop
      BY <1>4, <3>1 DEF Skeletons
    <3>3. Len(new.text) = length + 1
      BY <1>4, <3>2 DEF length
    <3>7. (IF new.stop THEN 1 ELSE 0) = stopped
      BY <3>2 DEF stopped
    <3> HIDE DEF new
    <3>4. new.signatures <= MaxSignatures
      BY <1>4, <1>8, <1>12, <3>2
    <3>5. Len(new.text) <= (signatures + 1) + stopped + b + c
      BY <1>17, <3>3
    <3>6. Counted(new, B, P, more, nodes, bodies, lines)
      BY <1>3, <3>2, <3>5, <3>7 DEF Counted, signatures, b, c
    <3>8. Len(new.text) > 0
      BY <1>16, <3>3
    <3> QED
      BY <1>5, <1>19, <3>4, <3>6, <3>8 DEF Skeletal, new
  <2> QED
    BY <2>2, <2>3
<1>13. n.first > acc.covered \/ n.first <= acc.covered
  BY <1>1, <1>4 DEF Skeletons
<1> QED
  BY <1>9, <1>10, <1>11, <1>12, <1>13

LEMMA SkeletonIs ==
    ASSUME NEW N, NEW nodes \in Seq(N), Spanning(nodes), UniqueIds(nodes), NEW bodies, NEW lines \in Nat
    PROVE  /\ RenderSkeletonized(nodes, bodies, lines) \in Seq(Int)
           /\ Len(RenderSkeletonized(nodes, bodies, lines))
                 <= MaxSignatures + 1 + Cardinality(Behind(nodes, lines)) + Cardinality(BodyRows(nodes, bodies, lines))
           /\ (\E i \in DOMAIN nodes : nodes[i].kind = "callable") /\ AllIn(nodes, lines)
                => Len(RenderSkeletonized(nodes, bodies, lines)) > 0
<1> DEFINE at == {i \in DOMAIN nodes : nodes[i].kind = "callable"}
           callables == Picked(nodes, at)
           before == {p \in (DOMAIN callables) \X (DOMAIN callables) : callables[p[1]].first < callables[p[2]].first}
           o == Arranged(Len(callables), before)
           order == [k \in DOMAIN callables |-> callables[o[k]]]
           m == Len(order)
           S == Skeletons
           a == [text |-> <<>>, covered |-> 0, signatures |-> 0, stop |-> FALSE]
           g == [p \in Nat \X S |-> IF p[1] \in 1 .. m THEN ShownNext(p[2], order[p[1]], callables, bodies, lines)
                                    ELSE p[2]]
           f == CHOOSE f : f = [i \in 0 .. m |-> IF i = 0 THEN a
                                                 ELSE ShownNext(f[i - 1], order[i], callables, bodies, lines)]
           text == RenderSkeletonized(nodes, bodies, lines)
<1>1. text = f[m].text
  BY DEF RenderSkeletonized, ShownNext, SortedBy, Where, Sites
<1>2. Reorders(order, callables, o, before)
  BY DEF Reorders
<1>36. (\E i \in DOMAIN nodes : nodes[i].kind = "callable") => DOMAIN nodes \cap at # {}
  OBVIOUS
<1>3. \A i \in DOMAIN nodes \cap at : nodes[i].kind = "callable"
  OBVIOUS
<1> HIDE DEF at, text
<1>4. callables \in Seq(N) /\ \E h : PickedBy(nodes, at, callables, h)
  BY PickedIs
<1> HIDE DEF callables, o, before
<1>5. PICK q : PickedBy(nodes, at, callables, q)
  BY <1>4
<1>6. /\ q \in [1 .. Len(callables) -> DOMAIN nodes \cap at]
      /\ \A k \in 1 .. Len(callables) : callables[k] = nodes[q[k]]
      /\ \A j, k \in 1 .. Len(callables) : j < k => q[j] < q[k]
  BY <1>5 DEF PickedBy
<1> HIDE DEF order
<1>7. /\ order \in Seq(N) /\ m = Len(callables)
      /\ \A k \in 1 .. Len(callables) : o[k] \in 1 .. Len(callables) /\ order[k] = callables[o[k]]
      /\ Permutes(o, Len(callables))
  BY <1>2, <1>4, ReorderedIs
<1>8. m \in Nat
  BY <1>7
<1> HIDE DEF m
<1>9. ASSUME NEW k \in 1 .. m
      PROVE  /\ q[o[k]] \in DOMAIN nodes /\ order[k] = nodes[q[o[k]]]
             /\ nodes[q[o[k]]].kind = "callable"
  <2>1. o[k] \in 1 .. Len(callables) /\ order[k] = callables[o[k]]
    BY <1>7
  <2>2. q[o[k]] \in DOMAIN nodes \cap at
    BY <1>6, <2>1
  <2> QED
    BY <1>3, <1>6, <2>1, <2>2
<1>10. ASSUME NEW j \in 1 .. m, NEW k \in 1 .. m, j # k PROVE order[j].id # order[k].id
  <2>1. o[j] \in 1 .. m /\ o[k] \in 1 .. m /\ o[j] # o[k]
    BY <1>7, <1>10 DEF Permutes
  <2>2. o[j] < o[k] \/ o[k] < o[j]
    BY <2>1
  <2>3. q[o[j]] # q[o[k]]
    <3>1. DOMAIN nodes \subseteq Nat
      OBVIOUS
    <3>2. q[o[j]] \in Nat /\ q[o[k]] \in Nat
      BY <1>9, <3>1
    <3>3. q[o[j]] < q[o[k]] \/ q[o[k]] < q[o[j]]
      BY <1>6, <1>7, <2>1, <2>2
    <3> QED
      BY <3>2, <3>3
  <2> QED
    BY <1>9, <2>3 DEF UniqueIds
<1>11. a \in S /\ a.text = <<>> /\ a.signatures = 0 /\ a.stop = FALSE /\ a.covered = 0
  BY DEF Skeletons
<1> HIDE DEF a
<1>12. ASSUME NEW t \in S, NEW k \in 1 .. m PROVE ShownNext(t, order[k], callables, bodies, lines) \in S
  <2>1. Spans(order[k])
    BY <1>9 DEF Spanning
  <2> QED
    BY <2>1, ShownType
<1> HIDE DEF S
<1>13. Stepping(S, g)
  <2>1. \A p \in Nat \X S : (IF p[1] \in 1 .. m THEN ShownNext(p[2], order[p[1]], callables, bodies, lines)
                             ELSE p[2]) \in S
    BY <1>12
  <2> QED
    BY <2>1 DEF Stepping
<1>14. ASSUME NEW i \in 1 .. m, NEW x \in S PROVE g[<<i, x>>] = ShownNext(x, order[i], callables, bodies, lines)
  <2>1. <<i, x>> \in Nat \X S /\ <<i, x>>[1] = i /\ <<i, x>>[2] = x
    BY <1>8
  <2> QED
    BY <2>1
<1> HIDE DEF g
<1>15. PICK h : Recurs(S, a, g, m, h)
  BY <1>8, <1>11, <1>13, Recursion
<1>16. h \in [0 .. m -> S] /\ h[0] = a /\ \A i \in 1 .. m : h[i] = g[<<i, h[i - 1]>>]
  BY <1>15 DEF Recurs
<1> DEFINE l == [i \in 0 .. m |-> IF i = 0 THEN a ELSE ShownNext(h[i - 1], order[i], callables, bodies, lines)]
<1>17. ASSUME NEW i \in 0 .. m PROVE h[i] = l[i]
  <2>1. CASE i = 0
    BY <1>16, <2>1
  <2>2. CASE i # 0
    <3>1. i \in 1 .. m /\ i - 1 \in 0 .. m
      BY <1>8, <2>2
    <3>2. h[i] = g[<<i, h[i - 1]>>] /\ h[i - 1] \in S
      BY <1>16, <3>1
    <3>3. g[<<i, h[i - 1]>>] = ShownNext(h[i - 1], order[i], callables, bodies, lines)
      BY <1>14, <3>1, <3>2
    <3> QED
      BY <2>2, <3>2, <3>3
  <2> QED
    BY <2>1, <2>2
<1>18. h = [i \in 0 .. m |-> h[i]] /\ l = [i \in 0 .. m |-> l[i]]
  BY <1>16
<1>19. h = l
  <2> HIDE DEF l
  <2> QED
    BY <1>17, <1>18
<1>20. f = [i \in 0 .. m |-> IF i = 0 THEN a ELSE ShownNext(f[i - 1], order[i], callables, bodies, lines)]
  <2>1. h = [i \in 0 .. m |-> IF i = 0 THEN a ELSE ShownNext(h[i - 1], order[i], callables, bodies, lines)]
    BY <1>19
  <2> QED
    BY <2>1
<1> HIDE DEF f
<1>21. \A i \in 0 .. m : f[i] = IF i = 0 THEN a ELSE ShownNext(f[i - 1], order[i], callables, bodies, lines)
  BY <1>20
<1> DEFINE Seen(i) == {order[j].id : j \in 1 .. i}
           K == {i \in Nat : i \in 0 .. m => Skeletal(f[i], Seen(i), nodes, bodies, lines)}
<1>22. 0 \in K
  <2>1. f[0] = a
    BY <1>8, <1>21
  <2>2. Counted(a, {}, {}, Seen(0), nodes, bodies, lines)
    BY <1>11, FS_EmptySet DEF Counted
  <2>3. Skeletal(a, Seen(0), nodes, bodies, lines)
    <3>1. MaxSignatures \in Nat
      BY ClustersAssumption
    <3>2. a \in Skeletons /\ a.signatures <= MaxSignatures
      BY <1>11, <3>1 DEF S
    <3>3. Seen(0) = {}
      OBVIOUS
    <3> HIDE DEF Seen
    <3> QED
      BY <1>11, <2>2, <3>2, <3>3 DEF Skeletal
  <2> QED
    BY <2>1, <2>3
<1>23. ASSUME NEW i \in Nat, i \in K PROVE i + 1 \in K
  <2> SUFFICES ASSUME i + 1 \in 0 .. m PROVE Skeletal(f[i + 1], Seen(i + 1), nodes, bodies, lines)
    OBVIOUS
  <2>1. i \in 0 .. m /\ i + 1 \in 1 .. m /\ i + 1 # 0 /\ (i + 1) - 1 = i
    BY <1>8
  <2>2. Skeletal(f[i], Seen(i), nodes, bodies, lines)
    BY <1>23, <2>1
  <2>3. f[i + 1] = ShownNext(f[i], order[i + 1], callables, bodies, lines)
    BY <1>21, <2>1
  <2> DEFINE j == q[o[i + 1]]
  <2>4. j \in DOMAIN nodes /\ order[i + 1] = nodes[j] /\ nodes[j].kind = "callable"
    BY <1>9, <2>1
  <2>5. nodes[j].id \notin Seen(i)
    <3>1. \A k \in 1 .. i : k \in 1 .. m /\ k # i + 1
      BY <1>8, <2>1
    <3> QED
      BY <1>10, <2>1, <2>4, <3>1
  <2>6. Seen(i + 1) = Seen(i) \cup {nodes[j].id}
    <3>1. 1 .. i + 1 = 1 .. i \cup {i + 1}
      OBVIOUS
    <3> QED
      BY <2>4, <3>1
  <2> HIDE DEF Seen, j
  <2>7. Skeletal(ShownNext(f[i], nodes[j], callables, bodies, lines), Seen(i) \cup {nodes[j].id}, nodes, bodies, lines)
    BY <2>2, <2>4, <2>5, ShowIs
  <2> QED
    BY <2>3, <2>4, <2>6, <2>7
<1> HIDE DEF K
<1>24. \A i \in Nat : i \in K
  BY <1>22, <1>23, SetInduction
<1>25. Skeletal(f[m], Seen(m), nodes, bodies, lines)
  <2>1. m \in 0 .. m /\ m \in K
    BY <1>8, <1>24
  <2> QED
    BY <2>1 DEF K
<1>37. ASSUME \E i \in DOMAIN nodes : nodes[i].kind = "callable" PROVE Seen(m) # {}
  <2>1. PICK i : i \in DOMAIN nodes \cap at
    BY <1>36, <1>37
  <2>2. PICK k \in 1 .. Len(callables) : q[k] = i
    BY <1>5, <2>1 DEF PickedBy
  <2>3. k \in 1 .. m
    BY <1>7, <2>2
  <2> QED
    BY <2>3
<1> HIDE DEF Seen
<1>38. AllIn(nodes, lines) /\ Seen(m) # {} => Len(f[m].text) > 0
  BY <1>25 DEF Skeletal
<1>26. f[m] \in Skeletons /\ f[m].signatures <= MaxSignatures
  BY <1>25 DEF Skeletal
<1>27. PICK B, P : Counted(f[m], B, P, Seen(m), nodes, bodies, lines)
  BY <1>25 DEF Skeletal
<1> DEFINE b == Cardinality(Behind(nodes, lines))
           r == Cardinality(BodyRows(nodes, bodies, lines))
<1>28. /\ IsFiniteSet(BodyRows(nodes, bodies, lines)) /\ r \in Nat
       /\ IsFiniteSet(Behind(nodes, lines)) /\ b \in Nat
  BY BodyRowsAre
<1>29. B \in SUBSET Behind(nodes, lines) /\ P \in SUBSET BodyRows(nodes, bodies, lines)
  BY <1>27 DEF Counted
<1>30. Cardinality(B) \in Nat /\ Cardinality(B) <= b /\ Cardinality(P) \in Nat /\ Cardinality(P) <= r
  BY <1>28, <1>29, FS_Subset, FS_CardinalityType
<1>31. Len(f[m].text) <= f[m].signatures + (IF f[m].stop THEN 1 ELSE 0) + Cardinality(B) + Cardinality(P)
  BY <1>27 DEF Counted
<1>32. f[m].text \in Seq(Int) /\ f[m].signatures \in Nat /\ Len(f[m].text) \in Nat
  BY <1>26 DEF Skeletons
<1>33. MaxSignatures \in Nat
  BY ClustersAssumption
<1> DEFINE c == Cardinality(B)
           d == Cardinality(P)
           e == IF f[m].stop THEN 1 ELSE 0
           s == f[m].signatures
           t == Len(f[m].text)
<1>34. /\ t \in Nat /\ s \in Nat /\ c \in Nat /\ d \in Nat /\ e \in Nat /\ e <= 1 /\ b \in Nat /\ r \in Nat
       /\ c <= b /\ d <= r /\ s <= MaxSignatures /\ t <= s + e + c + d
  BY <1>26, <1>28, <1>30, <1>31, <1>32
<1> HIDE DEF b, r, c, d, e, s, t
<1>35. t <= MaxSignatures + 1 + b + r
  BY <1>33, <1>34
<1> QED
  BY <1>1, <1>32, <1>35, <1>37, <1>38 DEF t, b, r, text

-----------------------------------------------------------------------------
(* The graph of a project, and where its sections begin. *)

LEMMA NodesAre ==
    ASSUME project \in Projects
    PROVE  /\ \A f : \E N : NodesIn(f) \in Seq(N) /\ Spanning(NodesIn(f)) /\ UniqueIds(NodesIn(f))
           /\ \A f : \A j \in DOMAIN NodesIn(f) : NodesIn(f)[j].file = f
<1>1. /\ IsList(project.nodes) /\ \A i, j \in DOMAIN project.nodes : project.nodes[i].id = project.nodes[j].id => i = j
      /\ \A i \in DOMAIN project.nodes : project.nodes[i].first \in Nat \ {0} /\ project.nodes[i].last \in Nat
                                         /\ project.nodes[i].first <= project.nodes[i].last
  BY ExploreAssumption
<1> DEFINE N == {Nodes[i] : i \in DOMAIN Nodes}
<1>2. Nodes \in Seq(N) /\ UniqueIds(Nodes)
  BY <1>1 DEF IsList, UniqueIds, Nodes
<1>3. Spanning(Nodes)
  BY <1>1 DEF Spanning, Spans, Nodes
<1> HIDE DEF N
<1>4. ASSUME NEW f PROVE /\ NodesIn(f) \in Seq(N) /\ Spanning(NodesIn(f)) /\ UniqueIds(NodesIn(f))
                         /\ \A j \in DOMAIN NodesIn(f) : NodesIn(f)[j].file = f
  <2> DEFINE at == {i \in DOMAIN Nodes : Nodes[i].file = f}
             t == Picked(Nodes, at)
  <2>1. NodesIn(f) = t
    BY DEF NodesIn, Where, Sites
  <2>2. \A i \in DOMAIN Nodes \cap at : Nodes[i].file = f
    OBVIOUS
  <2> HIDE DEF at
  <2>3. t \in Seq(N) /\ Spanning(t)
    BY <1>2, <1>3, PickedSpanning
  <2>4. \E h : PickedBy(Nodes, at, t, h)
    BY <1>2, PickedIs
  <2> HIDE DEF t
  <2>5. PICK h : PickedBy(Nodes, at, t, h)
    BY <2>4
  <2>6. /\ h \in [1 .. Len(t) -> DOMAIN Nodes \cap at]
        /\ \A k \in 1 .. Len(t) : t[k] = Nodes[h[k]]
        /\ \A j, k \in 1 .. Len(t) : j < k => h[j] < h[k]
    BY <2>5 DEF PickedBy
  <2>7. DOMAIN t = 1 .. Len(t) /\ DOMAIN Nodes \subseteq Nat
    BY <1>2, <2>3
  <2>8. UniqueIds(t)
    <3> SUFFICES ASSUME NEW j \in 1 .. Len(t), NEW k \in 1 .. Len(t), t[j].id = t[k].id PROVE j = k
      BY <2>7 DEF UniqueIds
    <3>1. h[j] \in DOMAIN Nodes /\ h[k] \in DOMAIN Nodes /\ Nodes[h[j]].id = Nodes[h[k]].id
      BY <2>6
    <3>2. h[j] = h[k]
      BY <1>2, <3>1 DEF UniqueIds
    <3>3. h[j] \in Nat
      BY <2>7, <3>1
    <3>4. ~(h[j] < h[k]) /\ ~(h[k] < h[j])
      BY <3>2, <3>3
    <3>5. ~(j < k) /\ ~(k < j)
      BY <2>6, <3>4
    <3> QED
      BY <3>5
  <2>9. \A j \in DOMAIN t : t[j].file = f
    BY <2>2, <2>6, <2>7
  <2> QED
    BY <2>1, <2>3, <2>8, <2>9
<1> QED
  BY <1>4

LEMMA EdgesAre ==
    ASSUME project \in Projects, NEW f
    PROVE  \E E : EdgesFrom(f) \in Seq(E) /\ \A j \in DOMAIN EdgesFrom(f) : EdgesFrom(f)[j].line \in Nat
                  /\ \E i \in DOMAIN project.edges : EdgesFrom(f)[j] = project.edges[i]
<1> DEFINE edges == project.edges
           E == {edges[i] : i \in DOMAIN edges}
           ids == Ids(LAMBDA n : n.file = f)
           at == {i \in DOMAIN edges : edges[i].source \in ids}
           t == Picked(edges, at)
<1>1. edges \in Seq(E) /\ \A i \in DOMAIN edges : edges[i].line \in Nat
  BY ExploreAssumption DEF IsList
<1>2. EdgesFrom(f) = t
  BY DEF EdgesFrom, Where, Sites
<1> HIDE DEF at, E
<1>3. t \in Seq(E) /\ \E h : PickedBy(edges, at, t, h)
  BY <1>1, PickedIs
<1> HIDE DEF t
<1>4. PICK h : PickedBy(edges, at, t, h)
  BY <1>3
<1>5. \A k \in 1 .. Len(t) : h[k] \in DOMAIN edges /\ t[k] = edges[h[k]]
  BY <1>4 DEF PickedBy
<1>6. DOMAIN t = 1 .. Len(t)
  BY <1>3
<1> HIDE DEF edges
<1>7. \A j \in DOMAIN t : t[j].line \in Nat /\ \E i \in DOMAIN edges : t[j] = edges[i]
  BY <1>1, <1>5, <1>6
<1> QED
  BY <1>2, <1>3, <1>7 DEF edges

\* A file with a score has symbols.
LEMMA ScoredHaveNodes ==
    ASSUME NEW f, ScoreFile(f) > 0
    PROVE  NodesIn(f) # <<>>
<1> SUFFICES ASSUME NodesIn(f) = <<>> PROVE FALSE
  OBVIOUS
<1> DEFINE Boost(n) ==
          CASE n.kind = "import" -> 0
            [] n.kind # "import" /\ n.id \in project.named -> 50
            [] n.kind # "import" /\ n.id \in project.roots \ project.named -> 10
            [] n.kind # "import" /\ n.id \in ConnectedToEntry \ EntryIds -> 3
            [] OTHER -> 1
           w == [i \in DOMAIN NodesIn(f) |-> Boost(NodesIn(f)[i])]
<1>1. ScoreFile(f) = Total(w)
  BY DEF ScoreFile, SumOver
<1> HIDE DEF Boost
<1>2. w = <<>>
  <2>1. DOMAIN NodesIn(f) = {}
    OBVIOUS
  <2>2. w = [i \in {} |-> Boost(NodesIn(f)[i])]
    BY <2>1
  <2>3. w = <<>>
    BY <2>2
  <2> QED
    BY <2>3
<1> QED
  BY <1>1, <1>2, TotalNone

\* Where the i-th of the sections s begins, with the newline before it.
StartOf(s, i) == Notice + SumOver(SubSeq(s, 1, i - 1), LAMBDA x : x.size + 1)

Sized(s) == \A i \in DOMAIN s : s[i].size \in Nat

LEMMA StartIs ==
    ASSUME NEW S, NEW s \in Seq(S), Sized(s), NEW i \in 0 .. Len(s)
    PROVE  /\ StartOf(s, i + 1) = Notice + Total([k \in 1 .. i |-> s[k].size + 1])
           /\ [k \in 1 .. i |-> s[k].size + 1] \in Seq(Nat) /\ Len([k \in 1 .. i |-> s[k].size + 1]) = i
           /\ StartOf(s, i + 1) \in Nat
<1> DEFINE t == SubSeq(s, 1, i)
           w == [k \in 1 .. i |-> s[k].size + 1]
<1>1. StartOf(s, i + 1) = Notice + Total([k \in DOMAIN t |-> t[k].size + 1])
  BY DEF StartOf, SumOver
<1>2. DOMAIN t = 1 .. i /\ \A k \in 1 .. i : t[k] = s[k] /\ s[k].size \in Nat
  BY DEF Sized
<1> HIDE DEF t
<1>3. [k \in DOMAIN t |-> t[k].size + 1] = w
  BY <1>2
<1>4. w \in [1 .. i -> Nat] /\ i \in Nat
  BY <1>2
<1> HIDE DEF w
<1>5. w \in Seq(Nat) /\ Len(w) = i
  BY <1>4, IsSeq
<1>6. Total(w) \in Nat
  BY <1>5, TotalNat
<1>7. Notice \in Nat
  BY ExploreAssumption
<1>8. StartOf(s, i + 1) = Notice + Total(w)
  BY <1>1, <1>3
<1>9. StartOf(s, i + 1) \in Nat
  BY <1>6, <1>7, <1>8
<1> QED
  BY <1>5, <1>8, <1>9 DEF w

LEMMA StartNext ==
    ASSUME NEW S, NEW s \in Seq(S), Sized(s)
    PROVE  /\ StartOf(s, 1) = Notice
           /\ \A i \in 1 .. Len(s) : /\ StartOf(s, i) \in Nat /\ StartOf(s, i + 1) \in Nat
                                     /\ StartOf(s, i + 1) = StartOf(s, i) + s[i].size + 1
<1>1. StartOf(s, 1) = Notice
  <2>1. 0 \in 0 .. Len(s) /\ 0 + 1 = 1
    OBVIOUS
  <2>2. StartOf(s, 0 + 1) = Notice + Total([k \in 1 .. 0 |-> s[k].size + 1])
    BY <2>1, StartIs
  <2>3. [k \in 1 .. 0 |-> s[k].size + 1] = <<>>
    OBVIOUS
  <2> QED
    BY <2>1, <2>2, <2>3, TotalNone, ExploreAssumption
<1>2. ASSUME NEW i \in 1 .. Len(s)
      PROVE  /\ StartOf(s, i) \in Nat /\ StartOf(s, i + 1) \in Nat
             /\ StartOf(s, i + 1) = StartOf(s, i) + s[i].size + 1
  <2> DEFINE v == [k \in 1 .. i - 1 |-> s[k].size + 1]
             w == [k \in 1 .. i |-> s[k].size + 1]
  <2>1. i - 1 \in 0 .. Len(s) /\ (i - 1) + 1 = i /\ i \in 0 .. Len(s) /\ i \in Nat \ {0}
    OBVIOUS
  <2>2. /\ StartOf(s, (i - 1) + 1) = Notice + Total(v) /\ v \in Seq(Nat) /\ Len(v) = i - 1
        /\ StartOf(s, (i - 1) + 1) \in Nat
    BY <2>1, StartIs
  <2>3. /\ StartOf(s, i + 1) = Notice + Total(w) /\ w \in Seq(Nat) /\ Len(w) = i
        /\ StartOf(s, i + 1) \in Nat
    BY <2>1, StartIs
  <2>4. /\ \A k \in 1 .. i - 1 : w[k] = v[k]
        /\ w[i] = s[i].size + 1
    BY <2>1
  <2> HIDE DEF v, w
  <2>5. v \in Seq(Int) /\ w \in Seq(Int)
    BY <2>2, <2>3, SeqMonotone
  <2>6. Total(w) = Total(v) + w[Len(w)]
    BY <2>1, <2>2, <2>3, <2>4, <2>5, TotalMore
  <2>7. Total(v) \in Int /\ Notice \in Nat
    BY <2>5, TotalType, ExploreAssumption
  <2>8. s[i].size \in Nat
    BY DEF Sized
  <2>9. StartOf(s, i) = Notice + Total(v) /\ StartOf(s, i) \in Nat
    BY <2>1, <2>2
  <2>10. Total(w) = Total(v) + (s[i].size + 1)
    BY <2>3, <2>4, <2>6
  <2>11. StartOf(s, i + 1) = StartOf(s, i) + s[i].size + 1
    BY <2>3, <2>7, <2>8, <2>9, <2>10
  <2> QED
    BY <2>3, <2>9, <2>11
<1> QED
  BY <1>1, <1>2

LEMMA StartPrefix ==
    ASSUME NEW S, NEW s \in Seq(S), Sized(s), NEW x, x.size \in Nat, NEW t, t = Append(s, x)
    PROVE  /\ Sized(t)
           /\ \A i \in 1 .. Len(s) + 1 : StartOf(t, i) = StartOf(s, i)
<1>1. /\ t \in Seq(S \cup {x})
      /\ DOMAIN s = 1 .. Len(s) /\ DOMAIN t = DOMAIN s \cup {Len(s) + 1} /\ Len(s) \in Nat
      /\ \A i \in DOMAIN s : t[i] = s[i]
      /\ t[Len(s) + 1] = x
  BY AppendIs
<1>2. Sized(t)
  BY <1>1 DEF Sized
<1>3. ASSUME NEW i \in 1 .. Len(s) + 1 PROVE StartOf(t, i) = StartOf(s, i)
  <2> DEFINE u == SubSeq(s, 1, i - 1)
             v == SubSeq(t, 1, i - 1)
  <2>1. u = v
    <3>1. \A k \in 1 .. i - 1 : s[k] = t[k]
      BY <1>1
    <3>2. u = [k \in 1 .. i - 1 |-> s[k]] /\ v = [k \in 1 .. i - 1 |-> t[k]]
      BY <1>1
    <3> QED
      BY <3>1, <3>2
  <2>2. StartOf(t, i) = Notice + SumOver(v, LAMBDA y : y.size + 1) /\ StartOf(s, i) = Notice + SumOver(u, LAMBDA y : y.size + 1)
    BY DEF StartOf
  <2>3. StartOf(t, i) = Notice + Total([k \in DOMAIN v |-> v[k].size + 1])
        /\ StartOf(s, i) = Notice + Total([k \in DOMAIN u |-> u[k].size + 1])
    BY <2>2 DEF SumOver
  <2> HIDE DEF u, v
  <2> QED
    BY <2>1, <2>3
<1> QED
  BY <1>2, <1>3

-----------------------------------------------------------------------------
(* The texts of the current file. *)

LongestOf(nodes, at) == Max({0} \cup {Rows(nodes[j]) : j \in at})

LEMMA LongestIs ==
    ASSUME NEW N, NEW nodes \in Seq(N), Spanning(nodes), NEW at, at \subseteq DOMAIN nodes
    PROVE  /\ LongestOf(nodes, at) \in Nat
           /\ \A j \in at : Rows(nodes[j]) \in Nat /\ Rows(nodes[j]) <= LongestOf(nodes, at)
<1> DEFINE n == Len(nodes)
           w == [j \in 1 .. n |-> Rows(nodes[j])]
           T == {0} \cup {Rows(nodes[j]) : j \in at}
<1>1. DOMAIN nodes = 1 .. n /\ n \in Nat
  OBVIOUS
<1>2. \A j \in 1 .. n : Rows(nodes[j]) \in Nat
  BY <1>1 DEF Spanning, Spans, Rows
<1> HIDE DEF n
<1>3. w \in [1 .. n -> Nat] /\ \A j \in 1 .. n : w[j] = Rows(nodes[j])
  BY <1>2
<1> HIDE DEF w
<1>4. w \in Seq(Nat) /\ Len(w) = n
  BY <1>1, <1>3, IsSeq
<1>5. Total(w) \in Nat /\ \A j \in 1 .. n : w[j] <= Total(w)
  BY <1>4, TotalNat
<1> DEFINE top == Total(w)
<1>6. T \in SUBSET (0 .. top) /\ T # {}
  <2>1. \A j \in 1 .. n : Rows(nodes[j]) \in 0 .. top
    <3>1. \A j \in 1 .. n : Rows(nodes[j]) <= top
      BY <1>3, <1>5
    <3>2. top \in Nat
      BY <1>5
    <3> HIDE DEF top
    <3> QED
      BY <1>2, <3>1, <3>2
  <2>2. \A j \in at : j \in 1 .. n
    BY <1>1
  <2>3. 0 \in 0 .. top
    BY <1>5
  <2> HIDE DEF top
  <2> QED
    BY <1>1, <2>1, <2>2, <2>3
<1> HIDE DEF top
<1>7. \A j \in at : Rows(nodes[j]) \in T
  OBVIOUS
<1>10. LongestOf(nodes, at) = Max(T)
  BY DEF LongestOf
<1> HIDE DEF T
<1>8. Max(T) \in T /\ \A x \in T : Max(T) >= x
  <2>1. top \in Nat
    BY <1>5 DEF top
  <2> QED
    BY <1>6, <2>1, MaxIn
<1>9. Max(T) \in Nat
  <2>1. Max(T) \in 0 .. top
    BY <1>6, <1>8
  <2>2. top \in Nat
    BY <1>5 DEF top
  <2> QED
    BY <2>1, <2>2
<1>11. \A j \in at : Rows(nodes[j]) \in Nat
  BY <1>1, <1>2
<1> QED
  BY <1>7, <1>8, <1>9, <1>10, <1>11

\* The callables of these that may keep their bodies.
MatterHere(nodes) == Matter(nodes, Path, ComputeUniqueNamed, EntryIds)

LEMMA LongestHere == \A nodes : Longest(nodes) = LongestOf(nodes, MatterHere(nodes))
BY DEF Longest, LongestOf, MatterHere, Matter, Sites

LEMMA BehindMore ==
    ASSUME NEW N, NEW nodes \in Seq(N), Spanning(nodes), NEW a \in Nat, NEW b \in Nat, a <= b
    PROVE  /\ Cardinality(Behind(nodes, b)) <= Cardinality(Behind(nodes, a))
           /\ Cardinality(Behind(nodes, b)) \in Nat /\ Cardinality(Behind(nodes, a)) \in Nat
<1>1. /\ IsFiniteSet(Behind(nodes, a)) /\ Cardinality(Behind(nodes, a)) \in Nat
      /\ Cardinality(Behind(nodes, b)) \in Nat
  BY BodyRowsAre
<1>2. \A i \in DOMAIN nodes : nodes[i].first \in Nat
  BY DEF Spanning, Spans
<1>3. Behind(nodes, b) \in SUBSET Behind(nodes, a)
  BY <1>2 DEF Behind, Sites
<1> QED
  BY <1>1, <1>3, FS_Subset

\* The length that a skeleton may have.
MaySkeleton(longest, nodes, read) ==
    LET lines == MaxSignatures + 1 + Cardinality(Behind(nodes, read))
    IN  Max({BodyCap, Width * longest}) + Width * lines

LEMMA MaySkeletonMore ==
    ASSUME NEW N, NEW nodes \in Seq(N), Spanning(nodes), NEW longest \in Nat,
           NEW a \in Nat, NEW b \in Nat, a <= b
    PROVE  /\ MaySkeleton(longest, nodes, b) <= MaySkeleton(longest, nodes, a)
           /\ MaySkeleton(longest, nodes, a) \in Nat /\ MaySkeleton(longest, nodes, b) \in Nat
<1> DEFINE top == Max({BodyCap, Width * longest})
           x == Cardinality(Behind(nodes, a))
           y == Cardinality(Behind(nodes, b))
<1>2. x \in Nat /\ y \in Nat /\ y <= x
  BY BehindMore
<1>3. Width \in Nat /\ MaxSignatures \in Nat /\ BodyCap \in Nat
  BY ClustersAssumption DEF BodyCap
<1>4. MaySkeleton(longest, nodes, a) = top + Width * (MaxSignatures + 1 + x)
      /\ MaySkeleton(longest, nodes, b) = top + Width * (MaxSignatures + 1 + y)
  BY DEF MaySkeleton
<1> HIDE DEF x, y
<1>5. top \in Nat
  <2> DEFINE z == Width * longest
             cap == BodyCap
  <2>1. z \in Nat /\ cap \in Nat
    BY <1>3, Products
  <2> HIDE DEF z, cap
  <2>2. z \in Int /\ cap \in Int
    BY <2>1
  <2>3. Max({cap, z}) = IF cap >= z THEN cap ELSE z
    BY <2>2, TwoOf
  <2>4. Max({cap, z}) \in Nat
    BY <2>1, <2>3
  <2> QED
    BY <2>4 DEF z, cap
<1> HIDE DEF top
<1> DEFINE v == MaxSignatures + 1 + x
           w == MaxSignatures + 1 + y
<1>6. v \in Nat /\ w \in Nat /\ w <= v
  BY <1>2, <1>3
<1> HIDE DEF v, w
<1>7. Width * w <= Width * v /\ Width * w \in Nat /\ Width * v \in Nat
  BY <1>3, <1>6, Products
<1> QED
  BY <1>4, <1>5, <1>7 DEF v, w

LEMMA SkeletonText ==
    ASSUME project \in Projects, content \in Nat
    PROVE  /\ Skeleton \in Seq(Int)
           /\ Width * Len(Skeleton) <= MaySkeleton(Longest(NodesIn(Current)), NodesIn(Current), content)
           /\ (\E i \in DOMAIN NodesIn(Current) : NodesIn(Current)[i].kind = "callable") /\ AllIn(NodesIn(Current), content)
                 => Skeleton # <<>>
<1> DEFINE nodes == NodesIn(Current)
           bodies == BodiesKept(nodes, Path, ComputeUniqueNamed, EntryIds, content)
           b == Cardinality(Behind(nodes, content))
           r == Cardinality(BodyRows(nodes, bodies, content))
           longest == Longest(nodes)
           at == MatterHere(nodes)
<1>1. PICK N : nodes \in Seq(N) /\ Spanning(nodes) /\ UniqueIds(nodes)
  BY NodesAre
<1>2. Skeleton = RenderSkeletonized(nodes, bodies, content)
  BY DEF Skeleton
<1>3. longest = LongestOf(nodes, at) /\ at \subseteq DOMAIN nodes
  BY LongestHere DEF MatterHere, Matter
<1> HIDE DEF bodies, nodes
<1>4. /\ Skeleton \in Seq(Int)
      /\ Len(Skeleton) <= MaxSignatures + 1 + b + r
      /\ (\E i \in DOMAIN nodes : nodes[i].kind = "callable") /\ AllIn(nodes, content) => Len(Skeleton) > 0
  BY <1>1, <1>2, SkeletonIs
<1>5. Width * r <= BodyCap \/ \E i \in at : Width * r <= Width * Rows(nodes[i])
  BY <1>1, BodiesAre DEF bodies, MatterHere
<1>6. longest \in Nat /\ \A i \in at : Rows(nodes[i]) \in Nat /\ Rows(nodes[i]) <= longest
  BY <1>1, <1>3, LongestIs
<1>7. r \in Nat /\ b \in Nat
  BY <1>1, BodyRowsAre
<1>8. Width \in Nat /\ MaxSignatures \in Nat /\ BodyCap \in Nat
  BY ClustersAssumption DEF BodyCap
<1>9. MaySkeleton(longest, nodes, content) = Max({BodyCap, Width * longest}) + Width * (MaxSignatures + 1 + b)
  BY DEF MaySkeleton
<1> HIDE DEF r, b, longest, at
<1>10. Width * longest \in Nat /\ Width * r \in Nat
  BY <1>6, <1>7, <1>8, Products
<1>11. Width * r <= BodyCap \/ Width * r <= Width * longest
  <2>1. ASSUME NEW i \in at, Width * r <= Width * Rows(nodes[i]) PROVE Width * r <= Width * longest
    <3>1. Width * Rows(nodes[i]) <= Width * longest /\ Width * Rows(nodes[i]) \in Nat
      BY <1>6, <1>8, Products
    <3> QED
      BY <1>10, <2>1, <3>1
  <2> QED
    BY <1>5, <2>1
<1>12. Max({BodyCap, Width * longest}) = IF BodyCap >= Width * longest THEN BodyCap ELSE Width * longest
  <2> DEFINE z == Width * longest
  <2>1. z \in Nat
    BY <1>10
  <2> HIDE DEF z
  <2>2. Max({BodyCap, z}) = IF BodyCap >= z THEN BodyCap ELSE z
    <3>1. z \in Int /\ BodyCap \in Int
      BY <1>8, <2>1
    <3> QED
      BY <3>1, TwoOf
  <2> QED
    BY <2>2 DEF z
<1> DEFINE k == MaxSignatures + 1 + b
           t == Len(Skeleton)
<1>13. k \in Nat /\ t \in Nat /\ t <= k + r
  BY <1>4, <1>7, <1>8
<1> HIDE DEF k, t
<1>14. Width * t <= Width * (k + r) /\ Width * (k + r) = Width * k + Width * r
       /\ Width * k \in Nat /\ Width * t \in Nat
  <2>1. k + r \in Nat
    BY <1>7, <1>13
  <2> QED
    BY <1>7, <1>8, <1>13, <2>1, Products
<1>15. Width * t <= Max({BodyCap, Width * longest}) + Width * k
  BY <1>8, <1>10, <1>11, <1>12, <1>14
<1> QED
  BY <1>4, <1>9, <1>15 DEF k, t, nodes, longest

\* Where a stretch of the file may begin that shows a line again.
MayBegin(f, lines) == Beginnings(Envelopes(NodesIn(f), lines))

LEMMA EchoesMore ==
    ASSUME NEW t, NEW A, NEW B, A \subseteq B, Echoes(t, A)
    PROVE  Echoes(t, B)
BY DEF Echoes

\* A shorter file has more envelopes.
LEMMA MayBeginMore ==
    ASSUME project \in Projects, NEW f, NEW a \in Nat, NEW b \in Nat, a <= b
    PROVE  MayBegin(f, b) \subseteq MayBegin(f, a)
<1> DEFINE nodes == NodesIn(f)
<1>1. PICK N : nodes \in Seq(N) /\ Spanning(nodes)
  BY NodesAre
<1> HIDE DEF nodes
<1>2. ASSUME NEW i \in DOMAIN nodes, IsEnvelope(nodes[i], b) PROVE IsEnvelope(nodes[i], a)
  <2> DEFINE rows == Rows(nodes[i])
  <2>1. rows \in Nat
    BY <1>1 DEF Spanning, Spans, Rows
  <2>2. nodes[i].kind = "container" /\ 2 * rows > b
    BY <1>2 DEF IsEnvelope
  <2> HIDE DEF rows
  <2>3. 2 * rows > a
    BY <2>1, <2>2
  <2> QED
    BY <2>2, <2>3 DEF IsEnvelope, rows
<1>3. Envelopes(nodes, b) \subseteq Envelopes(nodes, a)
  BY <1>2 DEF Envelopes
<1>4. Beginnings(Envelopes(nodes, b)) \subseteq Beginnings(Envelopes(nodes, a))
  BY <1>3 DEF Beginnings
<1> QED
  BY <1>4 DEF MayBegin, nodes

LEMMA ClusterText ==
    ASSUME project \in Projects, NodesIn(Current) # <<>>, NEW lines \in Nat
    PROVE  /\ Excerpt(Chosen, lines) \in Seq(Int)
           /\ Echoes(Excerpt(Chosen, lines), MayBegin(Current, content))
           /\ UpTo(NodesIn(Current), lines)
              /\ (\A j \in DOMAIN EdgesFrom(Current) : EdgesFrom(Current)[j].line <= lines)
                 => Excerpt(Chosen, lines) # <<>>
<1> DEFINE nodes == NodesIn(Current)
           edges == EdgesFrom(Current)
           cs == ClustersHere
           budget == Min({PerFile, Max({0, MaxOutput - total - Reserve})})
           text == Excerpt(Chosen, lines)
           A == Envelopes(nodes, content)
<1>1. PICK N : nodes \in Seq(N) /\ Spanning(nodes)
  BY NodesAre
<1>2. PICK E : edges \in Seq(E) /\ \A j \in DOMAIN edges : edges[j].line \in Nat
  BY EdgesAre
<1>3. Len(nodes) > 0
  BY <1>1
<1>4. cs = ClusterNodesInFile(nodes, project.importance, content, edges)
      /\ Chosen = SelectClustersWithinBudget(Ranked(cs), budget)
  BY DEF ClustersHere, Chosen
<1>5. MayBegin(Current, content) = Beginnings(A)
  BY DEF MayBegin
<1> HIDE DEF nodes, edges, cs, budget, text
<1>6. PICK C : /\ cs \in Seq(C) /\ Spanning(cs) /\ Len(cs) > 0
               /\ Clear(cs, A)
               /\ UpTo(nodes, lines) /\ (\A j \in DOMAIN edges : edges[j].line <= lines) => UpTo(cs, lines)
  BY <1>1, <1>2, <1>3, <1>4, ClustersAre
<1> HIDE DEF A
<1>7. /\ Ranked(cs) \in Seq(C) /\ Len(Ranked(cs)) = Len(cs) /\ Spanning(Ranked(cs))
      /\ Clear(Ranked(cs), A)
      /\ UpTo(cs, lines) => UpTo(Ranked(cs), lines)
  BY <1>6, RankedIs
<1>8. /\ Chosen \in Seq(C) /\ Len(Chosen) > 0 /\ Spanning(Chosen)
      /\ Clear(Chosen, A)
      /\ UpTo(Ranked(cs), lines) => UpTo(Chosen, lines)
  <2> DEFINE ranked == Ranked(cs)
  <2>1. ranked \in Seq(C) /\ Len(ranked) > 0 /\ Spanning(ranked) /\ Clear(ranked, A)
    BY <1>6, <1>7
  <2> HIDE DEF ranked
  <2>2. /\ Chosen \in Seq(C) /\ Len(Chosen) \in 1 .. Len(ranked) /\ Spanning(Chosen)
        /\ Clear(Chosen, A)
        /\ UpTo(ranked, lines) => UpTo(Chosen, lines)
    BY <1>4, <2>1, SelectedAre DEF ranked
  <2> QED
    BY <2>1, <2>2 DEF ranked
<1>9. /\ text \in Seq(Int)
      /\ Echoes(text, Beginnings(A))
      /\ UpTo(Chosen, lines) => Len(text) > 0
  BY <1>8, ExcerptIs DEF text
<1> QED
  BY <1>5, <1>6, <1>7, <1>8, <1>9 DEF text, nodes, edges

-----------------------------------------------------------------------------
(* The texts of an answer. *)

\* What the graph says of the file is about lines that it had.
Fits(f) ==
    /\ \A j \in DOMAIN NodesIn(f) : NodesIn(f)[j].last <= project.lines[f]
    /\ \A j \in DOMAIN EdgesFrom(f) : EdgesFrom(f)[j].line <= project.lines[f]

\* A necessary file is only left out when it has changed, or never was what the
\* graph says.
Excused(f) == IsNecessary(f) => f \in Edited \/ ~Fits(f)

Stored ==
    /\ project \in Projects
    /\ disk \in [DOMAIN project.lines -> Nat]
    /\ \A f \in DOMAIN project.lines : disk[f] \in {project.lines[f], project.lines[f] \div 2, 0}

\* The lines read last are those the file has or had.
Reading ==
    /\ content \in Nat
    /\ phase = "render" => /\ content >= ReadLines(todo[1])
                           /\ todo[1] \in Edited \/ content = project.lines[todo[1]]

\* A section's text in itself.
Proper(s) ==
    /\ NodesIn(s.file) # <<>>
    /\ s.size \in Nat /\ s.text \in Seq(Int)
    /\ s.how = "clusters" => Echoes(s.text, MayBegin(s.file, ReadLines(s.file)))
    /\ s.how = "skeleton" =>
          Width * Len(s.text) <= MaySkeleton(Longest(NodesIn(s.file)), NodesIn(s.file), ReadLines(s.file))

\* A section that is not necessary ends in the first nine tenths of the budget,
\* but for the newlines.
Within(s, i) == ~IsNecessary(s[i].file) => 10 * (Preface + StartOf(s, i + 1)) <= 9 * MaxOutput + 10 * i

Texts ==
    /\ Stored
    /\ Reading
    /\ \A i \in DOMAIN todo : NodesIn(todo[i]) # <<>>
    /\ \A i \in AllSections : Proper(sections[i]) /\ sections[i].file \in DOMAIN project.lines
    /\ \A i \in AllSections : Within(sections, i)
    /\ total \in Nat
    /\ phase \in {"files", "render"} => total + Len(sections) = Preface + StartOf(sections, Len(sections) + 1)
    /\ \A i \in DOMAIN remaining : Excused(remaining[i])
    /\ phase = "done" => todo = <<>>

\* What is derived from the project stays while it does.
LEMMA SameProject ==
    ASSUME UNCHANGED project
    PROVE  \A f : /\ NodesIn(f)' = NodesIn(f) /\ EdgesFrom(f)' = EdgesFrom(f)
                  /\ IsNecessary(f)' <=> IsNecessary(f)
                  /\ Fits(f)' <=> Fits(f)
<1>1. Nodes' = Nodes
  BY DEF Nodes
<1>2. \A f : NodesIn(f)' = NodesIn(f)
  BY <1>1 DEF NodesIn, Where, Sites
<1>3. \A f : EdgesFrom(f)' = EdgesFrom(f)
  BY <1>1 DEF EdgesFrom, Ids, Where, Sites
<1>4. EntryIds' = EntryIds
  BY DEF EntryIds
<1>5. \A f : IsNecessary(f)' <=> IsNecessary(f)
  BY <1>2, <1>4 DEF IsNecessary
<1>7. \A f : Fits(f)' <=> Fits(f)
  BY <1>2, <1>3 DEF Fits
<1> QED
  BY <1>2, <1>3, <1>5, <1>7

\* What may keep its body depends on the call chain as well.
LEMMA SameLongest ==
    ASSUME UNCHANGED <<project, best>>
    PROVE  \A f : Longest(NodesIn(f))' = Longest(NodesIn(f))
<1>1. Path' = Path
  BY DEF Path, Spine
<1>2. EntryIds' = EntryIds
  BY DEF EntryIds
<1>3. ComputeUniqueNamed' = ComputeUniqueNamed
  BY DEF ComputeUniqueNamed, Nodes, Sites
<1>5. \A f : NodesIn(f)' = NodesIn(f)
  BY SameProject
<1> QED
  BY <1>1, <1>2, <1>3, <1>5 DEF Longest, Sites

LEMMA SameDisk ==
    ASSUME UNCHANGED <<project, disk>>
    PROVE  /\ Edited' = Edited /\ (Stored => Stored')
           /\ \A f : ReadLines(f)' = ReadLines(f) /\ (Excused(f) => Excused(f)')
<1>1. Edited' = Edited
  BY DEF Edited
<1>2. \A f : ReadLines(f)' = ReadLines(f)
  BY <1>1 DEF ReadLines
<1>3. \A f : Excused(f) => Excused(f)'
  BY <1>1, SameProject DEF Excused
<1>5. Stored => Stored'
  BY DEF Stored
<1> QED
  BY <1>1, <1>2, <1>3, <1>5

LEMMA SameText ==
    ASSUME UNCHANGED <<project, disk, best>>
    PROVE  \A s : Proper(s) => Proper(s)'
<1> TAKE s
<1>1. NodesIn(s.file)' = NodesIn(s.file) /\ ReadLines(s.file)' = ReadLines(s.file)
  BY SameProject, SameDisk
<1>2. Longest(NodesIn(s.file))' = Longest(NodesIn(s.file))
  BY SameLongest
<1>3. MaySkeleton(Longest(NodesIn(s.file)), NodesIn(s.file), ReadLines(s.file))'
        = MaySkeleton(Longest(NodesIn(s.file)), NodesIn(s.file), ReadLines(s.file))
  BY <1>1, <1>2 DEF MaySkeleton, Behind, Sites
<1>4. MayBegin(s.file, ReadLines(s.file))' = MayBegin(s.file, ReadLines(s.file))
  BY <1>1 DEF MayBegin, Envelopes
<1> QED
  BY <1>1, <1>3, <1>4 DEF Proper

\* Where a section begins does not depend on the project.
LEMMA WithinSame ==
    ASSUME UNCHANGED project
    PROVE  \A s, i : Within(s, i) => Within(s, i)'
<1> TAKE s, i
<1>1. IsNecessary(s[i].file)' <=> IsNecessary(s[i].file)
  BY SameProject
<1> QED
  BY <1>1 DEF Within, StartOf, SumOver

LEMMA TextsStart == Init => Texts
<1> SUFFICES ASSUME Init PROVE Texts
  OBVIOUS
<1>1. /\ project \in Projects /\ disk = project.lines /\ phase = "flow" /\ todo = <<>> /\ content = 0
      /\ sections = <<>> /\ remaining = <<>> /\ total = 0
  BY DEF Init
<1>2. Stored
  BY <1>1, ExploreAssumption DEF Stored
<1> QED
  BY <1>1, <1>2 DEF Texts, Reading, AllSections

\* A file that cannot be read has changed, or was none that has symbols.
LEMMA Unreadable ==
    ASSUME Stored, NEW f \in DOMAIN project.lines, disk[f] = 0
    PROVE  Excused(f)
<1> SUFFICES ASSUME IsNecessary(f), f \notin Edited PROVE ~Fits(f)
  BY DEF Excused
<1>1. project.lines[f] = 0
  BY DEF Stored, Edited
<1>2. PICK i \in DOMAIN NodesIn(f) : TRUE
  BY DEF IsNecessary
<1>3. PICK N : NodesIn(f) \in Seq(N) /\ Spanning(NodesIn(f))
  BY NodesAre DEF Stored
<1>4. Spans(NodesIn(f)[i])
  BY <1>3 DEF Spanning
<1>5. ~(NodesIn(f)[i].last <= 0)
  BY <1>4 DEF Spans
<1> QED
  BY <1>1, <1>5 DEF Fits

-----------------------------------------------------------------------------
(* A file is left out, shown, read or edited. *)

\* What a step that leaves the files as they are does to the texts so far.
LEMMA TextsSame ==
    ASSUME Texts, UNCHANGED <<project, disk, sections>>, sections = <<>> \/ UNCHANGED best
    PROVE  /\ Stored'
           /\ \A i \in AllSections' : Proper(sections[i])' /\ sections'[i].file \in DOMAIN project'.lines
           /\ \A i \in AllSections' : Within(sections, i)'
           /\ \A f : Excused(f) => Excused(f)'
           /\ \A f : NodesIn(f)' = NodesIn(f)
<1>1. AllSections' = AllSections
  BY DEF AllSections
<1>2. \A i \in AllSections : Proper(sections[i])'
  <2> TAKE i \in AllSections
  <2> DEFINE s == sections[i]
  <2>1. Proper(s)
    BY DEF Texts
  <2>2. \A x : Proper(x) => Proper(x)'
    <3>1. UNCHANGED best
      BY DEF AllSections
    <3> QED
      BY <3>1, SameText
  <2>3. s' = s
    OBVIOUS
  <2> HIDE DEF s
  <2>4. Proper(s)'
    BY <2>1, <2>2, <2>3
  <2> QED
    BY <2>4 DEF s
<1>3. \A i \in AllSections : Within(sections, i)'
  <2> TAKE i \in AllSections
  <2>1. Within(sections, i)
    BY DEF Texts
  <2>2. \A s, j : Within(s, j) => Within(s, j)'
    BY WithinSame
  <2> QED
    BY <2>1, <2>2
<1>4. \A f : (Excused(f) => Excused(f)') /\ NodesIn(f)' = NodesIn(f)
  BY SameDisk, SameProject
<1>5. Stored'
  BY SameDisk DEF Texts
<1> QED
  BY <1>1, <1>2, <1>3, <1>4, <1>5 DEF Texts

LEMMA TextsLeave ==
    ASSUME Accounting, Texts, phase \in {"files", "render"}, todo # <<>>,
           NEW forSize, LeaveOut(forSize), Excused(Current)
    PROVE  Texts'
<1> DEFINE D == DOMAIN project.lines
<1>1. /\ remaining' = Append(remaining, Current) /\ todo' = Tail(todo) /\ phase' = "files" /\ content' = 0
      /\ UNCHANGED <<project, disk, sections, total, best>>
  BY DEF LeaveOut, flowVars
<1>2. todo \in Seq(D) /\ remaining \in Seq(D) /\ \A i, j \in DOMAIN todo : todo[i] = todo[j] => i = j
  BY DEF Accounting
<1>3. /\ \A i \in DOMAIN remaining : Excused(remaining[i])
      /\ \A i \in DOMAIN todo : NodesIn(todo[i]) # <<>>
      /\ total \in Nat /\ total + Len(sections) = Preface + StartOf(sections, Len(sections) + 1)
  BY DEF Texts
<1>4. /\ Stored' /\ \A f : Excused(f) => Excused(f)'
      /\ \A i \in AllSections' : Proper(sections[i])' /\ sections'[i].file \in DOMAIN project'.lines
      /\ \A i \in AllSections' : Within(sections, i)'
      /\ \A f : NodesIn(f)' = NodesIn(f)
  BY <1>1, TextsSame
<1> HIDE DEF D
<1>5. \A i \in DOMAIN remaining' : Excused(remaining'[i])
  <2>1. /\ DOMAIN remaining' = DOMAIN remaining \cup {Len(remaining) + 1}
        /\ \A i \in DOMAIN remaining : remaining'[i] = remaining[i]
        /\ remaining'[Len(remaining) + 1] = Current
    BY <1>1, <1>2, AppendIs
  <2> QED
    BY <1>3, <2>1
<1>6. \A i \in DOMAIN remaining' : Excused(remaining[i])'
  BY <1>4, <1>5 DEF Excused
<1>7. \A i \in DOMAIN todo' : NodesIn(todo'[i]) # <<>>
  <2>1. \A i \in DOMAIN todo' : i + 1 \in DOMAIN todo /\ todo'[i] = todo[i + 1]
    BY <1>1, <1>2
  <2> QED
    BY <1>3, <2>1
<1>8. \A i \in DOMAIN todo' : NodesIn(todo[i])' # <<>>
  BY <1>4, <1>7
<1>9. Reading'
  BY <1>1 DEF Reading
<1>10. total' + Len(sections') = Preface + StartOf(sections', Len(sections') + 1)
  BY <1>1, <1>3
<1> QED
  BY <1>1, <1>3, <1>4, <1>6, <1>8, <1>9, <1>10 DEF Texts

LEMMA TextsAdd ==
    ASSUME Accounting, Texts, phase \in {"files", "render"}, todo # <<>>,
           NEW how, NEW text, NEW size, NEW partly, AddSection(how, text, size, partly),
           Proper([file |-> Current, how |-> how, text |-> text, size |-> size]),
           ~IsNecessary(Current) => 10 * (total + size) <= 9 * MaxOutput
    PROVE  Texts'
<1> DEFINE D == DOMAIN project.lines
           s == [file |-> Current, how |-> how, text |-> text, size |-> size]
           n == Len(sections)
           t == Append(sections, s)
<1>1. /\ sections' = t /\ total' = total + size /\ todo' = Tail(todo) /\ phase' = "files" /\ content' = 0
      /\ UNCHANGED <<project, disk, remaining, best>>
  BY DEF AddSection, Account, flowVars
<1>2. todo \in Seq(D) /\ Current \in D
  BY DEF Accounting, Current
<1>3. /\ \A i \in DOMAIN remaining : Excused(remaining[i])
      /\ \A i \in DOMAIN todo : NodesIn(todo[i]) # <<>>
      /\ total \in Nat /\ total + n = Preface + StartOf(sections, n + 1)
      /\ \A i \in AllSections : Proper(sections[i]) /\ sections[i].file \in D /\ Within(sections, i)
      /\ Stored
  BY DEF Texts
<1>4. PICK S : sections \in Seq(S)
  BY DEF Accounting
<1>5. Proper(s) /\ s.file = Current /\ s.size = size
  OBVIOUS
<1>6. size \in Nat
  BY <1>5 DEF Proper
<1> HIDE DEF s
<1>7. /\ t \in Seq(S \cup {s}) /\ n \in Nat
      /\ AllSections = 1 .. n /\ DOMAIN t = 1 .. n + 1 /\ Len(t) = n + 1
      /\ t[n + 1] = s /\ \A i \in 1 .. n : t[i] = sections[i]
      /\ \A i \in 1 .. n + 1 : i \in 1 .. n \/ i = n + 1
  BY <1>4 DEF AllSections
<1>8. Sized(sections)
  BY <1>3 DEF Sized, Proper, AllSections
<1>9. Sized(t) /\ \A i \in 1 .. n + 1 : StartOf(t, i) = StartOf(sections, i)
  BY <1>4, <1>5, <1>6, <1>8, StartPrefix
<1>10. \A i \in 1 .. n + 1 : /\ StartOf(t, i) \in Nat /\ StartOf(t, i + 1) \in Nat
                             /\ StartOf(t, i + 1) = StartOf(t, i) + t[i].size + 1
  BY <1>7, <1>9, StartNext
<1> HIDE DEF t
<1>11. Preface \in Nat /\ MaxOutput \in Nat
  BY ExploreAssumption
<1>12. total + size + (n + 1) = Preface + StartOf(t, n + 1 + 1) /\ total + size \in Nat
  <2>1. n + 1 \in 1 .. n + 1
    BY <1>7
  <2>2. /\ StartOf(t, n + 1) = StartOf(sections, n + 1) /\ StartOf(t, n + 1) \in Nat
        /\ StartOf(t, n + 1 + 1) = StartOf(t, n + 1) + size + 1
    BY <1>5, <1>7, <1>9, <1>10, <2>1
  <2>3. total + n = Preface + StartOf(t, n + 1) /\ total \in Nat /\ n \in Nat
    BY <1>3, <1>7, <2>2
  <2>4. \A a, b, c, d, e \in Nat : a + c = d + e => a + b + (c + 1) = d + (e + b + 1)
    OBVIOUS
  <2> HIDE DEF n
  <2>5. total + size + (n + 1) = Preface + (StartOf(t, n + 1) + size + 1)
    BY <1>6, <1>11, <2>2, <2>3, <2>4
  <2> QED
    BY <1>6, <2>2, <2>3, <2>5
<1>13. \A i \in 1 .. n + 1 : Within(t, i)
  <2> TAKE i \in 1 .. n + 1
  <2>1. CASE i \in 1 .. n
    <3>1. t[i] = sections[i] /\ i + 1 \in 1 .. n + 1 /\ Within(sections, i)
      BY <1>3, <1>7, <2>1
    <3>2. StartOf(t, i + 1) = StartOf(sections, i + 1)
      BY <1>9, <3>1
    <3> QED
      BY <3>1, <3>2 DEF Within
  <2>2. CASE i = n + 1
    <3>1. ~IsNecessary(Current) => 10 * (Preface + StartOf(t, n + 1 + 1)) <= 9 * MaxOutput + 10 * (n + 1)
      <4>1. \A x, y, z, w \in Nat : x + y = w /\ 10 * x <= 9 * z => 10 * w <= 9 * z + 10 * y
        OBVIOUS
      <4>2. n + 1 \in Nat /\ Preface + StartOf(t, n + 1 + 1) \in Nat /\ MaxOutput \in Nat
        BY <1>7, <1>10, <1>11
      <4> QED
        BY <1>12, <4>1, <4>2
    <3> QED
      BY <1>5, <1>7, <2>2, <3>1 DEF Within
  <2> QED
    BY <1>7, <2>1, <2>2
<1>14. \A i \in 1 .. n + 1 : Proper(t[i]) /\ t[i].file \in D
  BY <1>2, <1>3, <1>5, <1>7
<1>15. /\ \A x : Proper(x) => Proper(x)'
       /\ \A f : (Excused(f) => Excused(f)') /\ NodesIn(f)' = NodesIn(f)
       /\ Stored'
  BY <1>1, <1>3, SameDisk, SameText, SameProject
<1>16. AllSections' = 1 .. n + 1
  BY <1>1, <1>7 DEF AllSections
<1>17. \A i \in AllSections' : Proper(sections[i])'
  BY <1>1, <1>14, <1>15, <1>16 DEF Proper
<1>18. \A i \in AllSections' : Within(sections, i)'
  BY <1>1, <1>13, <1>16, WithinSame DEF Within
<1>19. \A i \in DOMAIN remaining' : Excused(remaining[i])'
  BY <1>1, <1>3, <1>15 DEF Excused
<1>20. \A i \in DOMAIN todo' : NodesIn(todo[i])' # <<>>
  <2>1. \A i \in DOMAIN todo' : i + 1 \in DOMAIN todo /\ todo'[i] = todo[i + 1]
    BY <1>1, <1>2
  <2> QED
    BY <1>3, <1>15, <2>1
<1>21. Reading'
  BY <1>1 DEF Reading
<1>22. total' \in Nat /\ total' + Len(sections') = Preface + StartOf(sections', Len(sections') + 1)
  BY <1>1, <1>7, <1>12
<1> QED
  BY <1>1, <1>14, <1>15, <1>16, <1>17, <1>18, <1>19, <1>20, <1>21, <1>22 DEF Texts

LEMMA TextsRead == Accounting /\ Texts /\ ReadFile => Texts'
<1> SUFFICES ASSUME Accounting, Texts, ReadFile PROVE Texts'
  OBVIOUS
<1>1. phase = "files" /\ todo # <<>> /\ Current \in DOMAIN project.lines
  BY DEF ReadFile, Accounting, Current
<1>2. CASE disk[Current] = 0
  <2>1. LeaveOut(FALSE)
    BY <1>2 DEF ReadFile
  <2>2. Excused(Current)
    BY <1>1, <1>2, Unreadable DEF Texts
  <2> QED
    BY <1>1, <2>1, <2>2, TextsLeave
<1>3. CASE disk[Current] # 0
  <2>1. /\ content' = disk[Current] /\ phase' = "render"
        /\ UNCHANGED <<project, disk, todo, sections, remaining, total, best>>
    BY <1>3 DEF ReadFile, flowVars
  <2>2. /\ Stored' /\ \A f : Excused(f) => Excused(f)'
        /\ \A i \in AllSections' : Proper(sections[i])' /\ sections'[i].file \in DOMAIN project'.lines
        /\ \A i \in AllSections' : Within(sections, i)'
        /\ \A f : NodesIn(f)' = NodesIn(f)
    BY <2>1, TextsSame
  <2>3. Reading'
    <3>1. /\ disk[Current] \in {project.lines[Current], project.lines[Current] \div 2, 0}
          /\ disk[Current] \in Nat /\ project.lines[Current] \in Nat /\ Current \in DOMAIN disk
      <4>1. project.lines \in [DOMAIN project.lines -> Nat]
        BY ExploreAssumption DEF Texts, Stored
      <4> QED
        BY <1>1, <4>1 DEF Texts, Stored
    <3>2. Current \in Edited => disk[Current] = project.lines[Current] \div 2
      BY <1>3, <3>1 DEF Edited
    <3>3. Current \notin Edited => disk[Current] = project.lines[Current]
      BY <3>1 DEF Edited
    <3>4. disk[Current] >= ReadLines(Current)
      <4> DEFINE l == project.lines[Current]
      <4>1. l \div 1 = l /\ l \div 2 \in Nat
        BY <3>1
      <4> QED
        BY <3>1, <3>2, <3>3, <4>1 DEF ReadLines
    <3>5. Edited' = Edited /\ \A f : ReadLines(f)' = ReadLines(f)
      BY <2>1, SameDisk
    <3>6. todo'[1] = Current /\ project' = project /\ content' = disk[Current]
      BY <2>1 DEF Current
    <3> QED
      BY <3>1, <3>3, <3>4, <3>5, <3>6 DEF Reading, ReadLines
  <2>4. /\ \A i \in DOMAIN remaining' : Excused(remaining[i])'
        /\ \A i \in DOMAIN todo' : NodesIn(todo[i])' # <<>>
    BY <2>1, <2>2 DEF Texts, Excused
  <2>5. total' \in Nat /\ total' + Len(sections') = Preface + StartOf(sections', Len(sections') + 1)
    BY <1>1, <2>1 DEF Texts
  <2> QED
    BY <2>1, <2>2, <2>3, <2>4, <2>5 DEF Texts
<1> QED
  BY <1>2, <1>3

\* A file that is edited promises less.
LEMMA TextsEdit == Accounting /\ Texts /\ EditFile => Texts'
<1> SUFFICES ASSUME Accounting, Texts, EditFile PROVE Texts'
  OBVIOUS
<1> DEFINE D == DOMAIN project.lines
<1>1. PICK n \in {0, project.lines[Current] \div 2} : disk' = [disk EXCEPT ![Current] = n]
  BY DEF EditFile
<1>2. /\ phase \in {"files", "render"} /\ todo # <<>>
      /\ UNCHANGED <<project, phase, todo, content, sections, remaining, total, best>>
  BY DEF EditFile, flowVars
<1>3. Current \in D /\ todo[1] = Current
  BY <1>2 DEF Accounting, Current
<1>4. /\ project \in Projects /\ disk \in [D -> Nat]
      /\ \A f \in D : disk[f] \in {project.lines[f], project.lines[f] \div 2, 0}
  BY DEF Texts, Stored
<1>5. \A f \in D : project.lines[f] \in Nat /\ project.lines[f] \div 2 \in Nat
                   /\ project.lines[f] \div 2 <= project.lines[f] /\ project.lines[f] \div 1 = project.lines[f]
  <2>1. project.lines \in [D -> Nat]
    BY <1>4, ExploreAssumption
  <2>2. \A l \in Nat : l \div 2 \in Nat /\ l \div 2 <= l /\ l \div 1 = l
    OBVIOUS
  <2> QED
    BY <2>1, <2>2
<1> HIDE DEF D
<1>6. /\ disk' \in [D -> Nat]
      /\ \A f \in D : disk'[f] \in {project.lines[f], project.lines[f] \div 2, 0}
      /\ \A f \in D : disk[f] # project.lines[f] => disk'[f] # project.lines[f]
  <2>1. n \in Nat
    BY <1>1, <1>3, <1>5
  <2>2. disk' \in [D -> Nat] /\ \A f \in D : disk'[f] = IF f = Current THEN n ELSE disk[f]
    BY <1>1, <1>3, <1>4, <2>1
  <2>3. disk[Current] # project.lines[Current] => n # project.lines[Current]
    <3> SUFFICES ASSUME n = project.lines[Current] PROVE disk[Current] = project.lines[Current]
      OBVIOUS
    <3>1. \A l \in Nat : l = l \div 2 => l = 0
      OBVIOUS
    <3>2. project.lines[Current] = 0
      BY <1>1, <1>3, <1>5, <3>1
    <3>3. project.lines[Current] \div 2 = 0
      BY <3>2
    <3> QED
      BY <1>3, <1>4, <3>2, <3>3
  <2> QED
    BY <1>1, <1>3, <1>4, <2>2, <2>3
<1>7. Edited \subseteq D /\ Edited \subseteq Edited'
  BY <1>2, <1>4, <1>6 DEF Edited
<1>8. Stored'
  BY <1>2, <1>4, <1>6 DEF Stored, D
<1>9. \A f \in D : ReadLines(f) \in Nat /\ ReadLines(f)' \in Nat /\ ReadLines(f)' <= ReadLines(f)
  <2> TAKE f \in D
  <2>1. f \in Edited => f \in Edited'
    BY <1>7
  <2>2. project' = project
    BY <1>2
  <2> QED
    BY <1>5, <2>1, <2>2 DEF ReadLines
<1>10. \A f : /\ NodesIn(f)' = NodesIn(f)
              /\ IsNecessary(f)' <=> IsNecessary(f)
              /\ Fits(f)' <=> Fits(f)
  BY <1>2, SameProject
<1>11. \A f : Excused(f) => Excused(f)'
  BY <1>7, <1>10 DEF Excused
<1>12. ASSUME NEW s, Proper(s), s.file \in D PROVE Proper(s)'
  <2> DEFINE nodes == NodesIn(s.file)
             b == ReadLines(s.file)
             l == Width * Len(s.text)
             longest == Longest(nodes)
  <2>1. PICK N : nodes \in Seq(N) /\ Spanning(nodes)
    BY <1>4, NodesAre
  <2>2. longest \in Nat /\ longest = longest'
    <3>1. longest = LongestOf(nodes, MatterHere(nodes)) /\ MatterHere(nodes) \subseteq DOMAIN nodes
      BY LongestHere DEF MatterHere, Matter
    <3> HIDE DEF nodes
    <3>2. longest \in Nat
      BY <2>1, <3>1, LongestIs
    <3> QED
      BY <1>2, <3>2, SameLongest DEF nodes
  <2>3. PICK a \in Nat : a = ReadLines(s.file)' /\ b \in Nat /\ b >= a
    BY <1>9, <1>12
  <2>4. MaySkeleton(Longest(NodesIn(s.file)), NodesIn(s.file), ReadLines(s.file))' = MaySkeleton(longest, nodes, a)
    BY <1>10, <2>2, <2>3 DEF MaySkeleton, Behind, Sites
  <2>8. s.how = "clusters" => Echoes(s.text, MayBegin(s.file, ReadLines(s.file)))'
    <3>1. MayBegin(s.file, ReadLines(s.file))' = MayBegin(s.file, a)
      BY <1>10, <2>3 DEF MayBegin, Envelopes
    <3>2. MayBegin(s.file, b) \subseteq MayBegin(s.file, a)
      <4> HIDE DEF b
      <4> QED
        BY <1>4, <2>3, MayBeginMore
    <3>3. s.how = "clusters" => Echoes(s.text, MayBegin(s.file, b))
      BY <1>12 DEF Proper
    <3>4. \A t : Echoes(t, MayBegin(s.file, b)) => Echoes(t, MayBegin(s.file, a))
      BY <3>2, EchoesMore
    <3> QED
      BY <3>1, <3>3, <3>4
  <2>5. l \in Nat
    BY <1>12, ClustersAssumption, Products DEF Proper
  <2> HIDE DEF nodes, b, l, longest
  <2>6. /\ MaySkeleton(longest, nodes, b) <= MaySkeleton(longest, nodes, a)
        /\ MaySkeleton(longest, nodes, a) \in Nat /\ MaySkeleton(longest, nodes, b) \in Nat
    BY <2>1, <2>2, <2>3, MaySkeletonMore
  <2>7. s.how = "skeleton" => l <= MaySkeleton(longest, nodes, a)
    <3>1. s.how = "skeleton" => l <= MaySkeleton(longest, nodes, b)
      BY <1>12 DEF Proper, nodes, b, l, longest
    <3> QED
      BY <2>5, <2>6, <3>1
  <2> QED
    BY <1>10, <1>12, <2>4, <2>7, <2>8 DEF Proper, nodes, l, longest
<1>13. /\ \A i \in DOMAIN remaining : Excused(remaining[i])
       /\ \A i \in DOMAIN todo : NodesIn(todo[i]) # <<>>
       /\ \A i \in AllSections : Proper(sections[i]) /\ sections[i].file \in D /\ Within(sections, i)
       /\ total \in Nat /\ total + Len(sections) = Preface + StartOf(sections, Len(sections) + 1)
       /\ Reading
  BY <1>2 DEF Texts, D
<1>14. AllSections' = AllSections
  BY <1>2 DEF AllSections
<1>15. \A i \in AllSections : Proper(sections[i])'
  BY <1>2, <1>12, <1>13 DEF Proper
<1>16. \A i \in AllSections : Within(sections, i)'
  BY <1>2, <1>13, WithinSame DEF Within
<1>17. \A i \in DOMAIN remaining : Excused(remaining[i])'
  BY <1>2, <1>11, <1>13 DEF Excused
<1>18. \A i \in DOMAIN todo : NodesIn(todo[i])' # <<>>
  BY <1>2, <1>10, <1>13
<1>19. Reading'
  <2>1. /\ content \in Nat
        /\ phase = "render" => content >= ReadLines(Current) /\ (Current \in Edited \/ content = project.lines[Current])
    BY <1>3, <1>13 DEF Reading
  <2>2. ReadLines(Current) \in Nat /\ ReadLines(Current)' \in Nat /\ ReadLines(Current)' <= ReadLines(Current)
        /\ Current' = Current
    BY <1>2, <1>3, <1>9 DEF Current
  <2>3. todo'[1] = Current /\ project' = project /\ content' = content /\ phase' = phase
    BY <1>2, <1>3
  <2>4. phase = "render" => content >= ReadLines(Current)'
    BY <2>1, <2>2
  <2> QED
    BY <1>7, <2>1, <2>2, <2>3, <2>4 DEF Reading, ReadLines
<1> QED
  BY <1>2, <1>8, <1>13, <1>14, <1>15, <1>16, <1>17, <1>18, <1>19 DEF Texts, D

LEMMA TextsSelect == Accounting /\ Texts /\ SelectFiles => Texts'
<1> SUFFICES ASSUME Accounting, Texts, SelectFiles PROVE Texts'
  OBVIOUS
<1>1. /\ phase = "flow" /\ todo' = selected' /\ total' = Preface + Notice /\ phase' = "files"
      /\ UNCHANGED <<project, disk, content, sections, remaining, best>>
  BY DEF SelectFiles, flowVars
<1>2. sections = <<>> /\ remaining = <<>>
  BY <1>1 DEF Accounting
<1>3. /\ Stored'
      /\ \A i \in AllSections' : Proper(sections[i])' /\ sections'[i].file \in DOMAIN project'.lines
      /\ \A i \in AllSections' : Within(sections, i)'
      /\ \A f : NodesIn(f)' = NodesIn(f)
  BY <1>1, TextsSame
<1>4. \A i \in DOMAIN todo' : NodesIn(todo'[i]) # <<>>
  <2>1. PICK k \in Nat : selected' \in Seq(Relevant) /\ DOMAIN selected' = 1 .. k
    BY Selecting
  <2>2. \A f \in Relevant : ScoreFile(f) > 0
    <3>1. \A f \in Scored : ScoreFile(f) > 0
      BY DEF Scored
    <3> QED
      BY <3>1 DEF Relevant
  <2>3. \A i \in DOMAIN todo' : todo'[i] \in Relevant
    BY <1>1, <2>1
  <2> QED
    BY <2>2, <2>3, ScoredHaveNodes
<1>5. \A i \in DOMAIN todo' : NodesIn(todo[i])' # <<>>
  BY <1>3, <1>4
<1>6. total' \in Nat /\ total' + Len(sections') = Preface + StartOf(sections', Len(sections') + 1)
  <2>1. sections \in Seq({}) /\ Sized(sections) /\ Len(sections) = 0
    BY <1>2 DEF Sized
  <2>2. StartOf(sections, 1) = Notice
    BY <2>1, StartNext
  <2>3. Preface \in Nat /\ Notice \in Nat
    BY ExploreAssumption
  <2> QED
    BY <1>1, <2>1, <2>2, <2>3
<1>7. Reading'
  BY <1>1 DEF Texts, Reading
<1>8. \A i \in DOMAIN remaining' : Excused(remaining[i])'
  BY <1>1, <1>2
<1> QED
  BY <1>1, <1>3, <1>5, <1>6, <1>7, <1>8 DEF Texts

\* What a section costs.
LEMMA SizesAre ==
    ASSUME NEW text \in Seq(Int), total \in Nat
    PROVE  /\ SectionSize(text) \in Nat
           /\ CapNecessarySection(SectionSize(text)) \in Nat
           /\ ~IsNecessary(Current) => CapNecessarySection(SectionSize(text)) = SectionSize(text)
           /\ ~Refused(text) /\ ~IsNecessary(Current) => 10 * (total + SectionSize(text)) <= 9 * MaxOutput
           /\ Refused(text) => ~IsNecessary(Current)
<1>1. Heading \in Nat /\ Width \in Nat /\ MaxOutput \in Nat /\ PerFile \in Nat
  BY ExploreAssumption, ClustersAssumption
<1>7. SectionNote \in Nat
  BY ExploreAssumption
<1>2. SectionCap \in Nat
  BY <1>1 DEF SectionCap
<1>3. SectionSize(text) \in Nat
  <2>1. Width * Len(text) \in Nat
    BY <1>1, Products
  <2> QED
    BY <1>1, <2>1 DEF SectionSize
<1> DEFINE size == SectionSize(text)
<1> HIDE DEF size
<1>4. CapNecessarySection(size) \in Nat
  <2> DEFINE cap == SectionCap
  <2>1. size \in Nat /\ cap \in Nat
    BY <1>2, <1>3 DEF size
  <2> HIDE DEF cap
  <2>2. cap \in Int /\ SectionNote \in Int
    BY <1>7, <2>1
  <2>3. Max({cap, SectionNote}) = IF cap >= SectionNote THEN cap ELSE SectionNote
    BY <2>2, TwoOf
  <2> QED
    BY <1>7, <2>1, <2>3 DEF CapNecessarySection, cap
<1>5. ~IsNecessary(Current) => CapNecessarySection(size) = size
  BY DEF CapNecessarySection, Oversize
<1>6. ~Refused(text) /\ ~IsNecessary(Current) => 10 * (total + size) <= 9 * MaxOutput
  BY <1>1, <1>3 DEF Refused, size
<1> QED
  BY <1>3, <1>4, <1>5, <1>6 DEF size, Refused

LEMMA TextsShow ==
    ASSUME Accounting, Texts, phase \in {"files", "render"}, todo # <<>>,
           NEW how, NEW text \in Seq(Int), NEW partly, Show(how, text, partly),
           how # "skeleton", how = "clusters" => Echoes(text, MayBegin(Current, ReadLines(Current)))
    PROVE  Texts'
<1>1. total \in Nat
  BY DEF Texts
<1>2. CASE Refused(text)
  <2>1. LeaveOut(TRUE)
    BY <1>2 DEF Show
  <2>2. Excused(Current)
    BY <1>1, <1>2, SizesAre DEF Excused
  <2> QED
    BY <2>1, <2>2, TextsLeave
<1>3. CASE ~Refused(text)
  <2> DEFINE size == CapNecessarySection(SectionSize(text))
             less == partly \/ Oversize(SectionSize(text))
  <2>1. AddSection(how, text, size, less)
    BY <1>3 DEF Show
  <2>2. size \in Nat /\ (~IsNecessary(Current) => 10 * (total + size) <= 9 * MaxOutput)
    BY <1>1, <1>3, SizesAre
  <2>3. NodesIn(Current) # <<>>
    BY DEF Texts, Accounting, Current
  <2> HIDE DEF size, less
  <2>4. Proper([file |-> Current, how |-> how, text |-> text, size |-> size])
    BY <2>2, <2>3 DEF Proper
  <2> QED
    BY <2>1, <2>2, <2>4, TextsAdd
<1> QED
  BY <1>2, <1>3

\* A skeleton is shown as it is.
LEMMA TextsSkeleton ==
    ASSUME Accounting, Texts, phase = "render", ~Refused(Skeleton),
           AddSection("skeleton", Skeleton, SectionSize(Skeleton), FALSE)
    PROVE  Texts'
<1>1. /\ todo # <<>> /\ Current \in DOMAIN project.lines /\ NodesIn(Current) # <<>>
      /\ project \in Projects /\ content \in Nat /\ total \in Nat /\ content >= ReadLines(Current)
  BY DEF Texts, Accounting, Current, Stored, Reading
<1>2. /\ Skeleton \in Seq(Int)
      /\ Width * Len(Skeleton) <= MaySkeleton(Longest(NodesIn(Current)), NodesIn(Current), content)
  BY <1>1, SkeletonText
<1> DEFINE text == Skeleton
           size == SectionSize(text)
           nodes == NodesIn(Current)
           read == ReadLines(Current)
           longest == Longest(nodes)
<1>3. size \in Nat /\ (~IsNecessary(Current) => 10 * (total + size) <= 9 * MaxOutput)
  BY <1>1, <1>2, SizesAre
<1>4. Width * Len(text) <= MaySkeleton(longest, nodes, read)
  <2>1. PICK N : nodes \in Seq(N) /\ Spanning(nodes)
    BY <1>1, NodesAre
  <2>2. longest \in Nat
    <3>1. longest = LongestOf(nodes, MatterHere(nodes)) /\ MatterHere(nodes) \subseteq DOMAIN nodes
      BY LongestHere DEF MatterHere, Matter
    <3> HIDE DEF nodes, longest
    <3> QED
      BY <2>1, <3>1, LongestIs
  <2>3. read \in Nat
    <3>1. project.lines[Current] \in Nat
      BY <1>1, ExploreAssumption
    <3>2. \A l \in Nat : l \div 1 \in Nat /\ l \div 2 \in Nat
      OBVIOUS
    <3> QED
      BY <3>1, <3>2 DEF ReadLines
  <2> DEFINE l == Width * Len(text)
  <2>4. l \in Nat /\ l <= MaySkeleton(longest, nodes, content)
    BY <1>2, ClustersAssumption, Products
  <2> HIDE DEF nodes, read, text, l, longest
  <2>5. /\ MaySkeleton(longest, nodes, content) <= MaySkeleton(longest, nodes, read)
        /\ MaySkeleton(longest, nodes, content) \in Nat /\ MaySkeleton(longest, nodes, read) \in Nat
    BY <1>1, <2>1, <2>2, <2>3, MaySkeletonMore DEF read
  <2> QED
    BY <2>4, <2>5 DEF l
<1> HIDE DEF size
<1>5. Proper([file |-> Current, how |-> "skeleton", text |-> text, size |-> size])
  BY <1>1, <1>2, <1>3, <1>4 DEF Proper
<1>6. AddSection("skeleton", text, size, FALSE)
  BY DEF size
<1> HIDE DEF text
<1> QED
  BY <1>1, <1>3, <1>5, <1>6, TextsAdd

\* Only a file with a callable is shown as a skeleton.
LEMMA GodCallable ==
    ASSUME project \in Projects, GodFile
    PROVE  \E i \in DOMAIN NodesIn(Current) : NodesIn(Current)[i].kind = "callable"
<1> DEFINE nodes == NodesIn(Current)
           high == Path \cup ComputeUniqueNamed \cup EntryIds
           are == Sites(nodes, LAMBDA n : n.kind = "callable")
           callables == Picked(nodes, are)
           matter == Sites(callables, LAMBDA n : n.id \in high)
           priority == Picked(callables, matter)
<1>1. PICK N : nodes \in Seq(N) /\ Spanning(nodes)
  BY NodesAre
<1>2. \/ \E i \in DOMAIN priority : priority[i].id \notin Path
      \/ Len(priority) >= 2
      \/ Len(callables) >= Dense
  BY DEF GodFile, ShouldSkeletonize, Where
<1>3. \A i \in are : i \in DOMAIN nodes /\ nodes[i].kind = "callable"
  BY DEF Sites
<1> HIDE DEF nodes, high, are
<1>4. callables \in Seq(N) /\ Spanning(callables)
      /\ \A k \in DOMAIN callables : \E i \in DOMAIN nodes \cap are : callables[k] = nodes[i]
  BY <1>1, PickedSpanning
<1> HIDE DEF callables, matter
<1>5. priority \in Seq(N) /\ \A k \in DOMAIN priority : \E i \in DOMAIN callables \cap matter : priority[k] = callables[i]
  BY <1>4, PickedSpanning
<1> HIDE DEF priority
<1>6. Dense \in Nat \ {0}
  BY ClustersAssumption
<1>7. \E k : k \in DOMAIN callables
  <2>1. CASE \E i \in DOMAIN priority : priority[i].id \notin Path
    BY <1>5, <2>1
  <2>2. CASE Len(priority) >= 2
    <3>1. 1 \in DOMAIN priority
      BY <1>5, <2>2
    <3> QED
      BY <1>5, <3>1
  <2>3. CASE Len(callables) >= Dense
    <3>1. 1 \in DOMAIN callables
      BY <1>4, <1>6, <2>3
    <3> QED
      BY <3>1
  <2> QED
    BY <1>2, <2>1, <2>2, <2>3
<1> QED
  BY <1>3, <1>4, <1>7 DEF nodes

\* A necessary file that is what the graph says has a skeleton and clusters.
LEMMA BlankLines ==
    ASSUME Accounting, Texts, phase = "render"
    PROVE  /\ GodFile /\ Skeleton = <<>> => Excused(Current)
           /\ Excerpt(Chosen, disk[Current]) = <<>> => Excused(Current)
           /\ Excerpt(Chosen, disk[Current]) \in Seq(Int)
           /\ Echoes(Excerpt(Chosen, disk[Current]), MayBegin(Current, ReadLines(Current)))
<1> DEFINE nodes == NodesIn(Current)
           edges == EdgesFrom(Current)
           l == disk[Current]
<1>1. /\ Current \in DOMAIN project.lines /\ nodes # <<>>
      /\ project \in Projects /\ content \in Nat /\ l \in Nat
      /\ Current \in Edited \/ content = project.lines[Current]
      /\ Current \in DOMAIN disk
  BY DEF Texts, Accounting, Current, Stored, Reading
<1>2. Current \notin Edited => l = project.lines[Current]
  BY <1>1 DEF Edited
<1>3. PICK N : nodes \in Seq(N) /\ Spanning(nodes)
  BY <1>1, NodesAre
<1>4. \A i \in DOMAIN nodes : nodes[i].first \in Nat /\ nodes[i].last \in Nat /\ nodes[i].first <= nodes[i].last
  BY <1>3 DEF Spanning, Spans
<1>5. /\ Excerpt(Chosen, l) \in Seq(Int)
      /\ Echoes(Excerpt(Chosen, l), MayBegin(Current, content))
      /\ UpTo(nodes, l) /\ (\A j \in DOMAIN edges : edges[j].line <= l) => Excerpt(Chosen, l) # <<>>
  BY <1>1, ClusterText
<1>6. ASSUME GodFile, Skeleton = <<>>, Current \notin Edited PROVE ~Fits(Current)
  <2>1. content = project.lines[Current]
    BY <1>1, <1>6
  <2>2. ~AllIn(nodes, content)
    BY <1>1, <1>6, GodCallable, SkeletonText
  <2> QED
    BY <2>1, <2>2 DEF AllIn, Fits
<1>7. ASSUME Excerpt(Chosen, l) = <<>>, Current \notin Edited, Fits(Current) PROVE FALSE
  <2>1. \A i \in DOMAIN nodes : nodes[i].last <= l
    BY <1>2, <1>7 DEF Fits
  <2>2. UpTo(nodes, l)
    <3> HIDE DEF nodes, l
    <3> SUFFICES ASSUME NEW i \in DOMAIN nodes PROVE nodes[i].first <= l
      BY DEF UpTo
    <3>1. l \in Nat
      BY <1>1
    <3> QED
      BY <1>4, <2>1, <3>1
  <2>3. \A j \in DOMAIN edges : edges[j].line <= l
    BY <1>2, <1>7 DEF Fits
  <2> QED
    BY <1>5, <1>7, <2>2, <2>3
<1>8. Echoes(Excerpt(Chosen, l), MayBegin(Current, ReadLines(Current)))
  <2>1. content >= ReadLines(Current) /\ ReadLines(Current) \in Nat
    <3>1. project.lines[Current] \in Nat
      BY <1>1, ExploreAssumption
    <3>2. \A n \in Nat : n \div 1 \in Nat /\ n \div 2 \in Nat
      OBVIOUS
    <3> QED
      BY <3>1, <3>2 DEF ReadLines, Texts, Reading, Current
  <2>2. MayBegin(Current, content) \subseteq MayBegin(Current, ReadLines(Current))
    BY <1>1, <2>1, MayBeginMore
  <2>3. Echoes(Excerpt(Chosen, l), MayBegin(Current, content))
    BY <1>5
  <2> QED
    BY <2>2, <2>3, EchoesMore
<1> QED
  BY <1>5, <1>6, <1>7, <1>8 DEF Excused

LEMMA TextsStep == Accounting /\ Texts /\ [Next]_vars => Texts'
<1> SUFFICES ASSUME Accounting, Texts, [Next]_vars PROVE Texts'
  OBVIOUS
<1>1. ASSUME UNCHANGED <<project, disk, todo, content, sections, remaining, total>>,
             \/ UNCHANGED phase
             \/ phase' = "done" /\ todo = <<>>,
             sections = <<>> \/ UNCHANGED best
      PROVE  Texts'
  <2>1. /\ Stored' /\ \A f : Excused(f) => Excused(f)'
        /\ \A i \in AllSections' : Proper(sections[i])' /\ sections'[i].file \in DOMAIN project'.lines
        /\ \A i \in AllSections' : Within(sections, i)'
        /\ \A f : NodesIn(f)' = NodesIn(f)
    BY <1>1, TextsSame
  <2>2. Reading'
    <3>1. \A f : ReadLines(f)' = ReadLines(f)
      BY <1>1, SameDisk
    <3>2. Edited' = Edited
      BY <1>1, SameDisk
    <3> QED
      BY <1>1, <3>1, <3>2 DEF Texts, Reading, ReadLines
  <2>3. /\ \A i \in DOMAIN remaining' : Excused(remaining[i])'
        /\ \A i \in DOMAIN todo' : NodesIn(todo[i])' # <<>>
    BY <1>1, <2>1 DEF Texts, Excused
  <2>4. /\ total' \in Nat
        /\ phase' \in {"files", "render"} => total' + Len(sections') = Preface + StartOf(sections', Len(sections') + 1)
        /\ phase' = "done" => todo' = <<>>
    BY <1>1 DEF Texts
  <2> QED
    BY <1>1, <2>1, <2>2, <2>3, <2>4 DEF Texts
<1>2. ASSUME phase = "render" PROVE todo # <<>> /\ phase \in {"files", "render"} /\ Current \in DOMAIN project.lines
  BY <1>2 DEF Accounting, Current
<1>3. CASE TraceFlow
  <2>1. sections = <<>>
    BY <1>3 DEF TraceFlow, Accounting
  <2> QED
    BY <1>1, <1>3, <2>1 DEF TraceFlow, exploreVars
<1>4. CASE SelectFiles
  BY <1>4, TextsSelect
<1>5. CASE FindNothing
  <2>1. phase = "flow" /\ phase' = "done" /\ UNCHANGED <<project, disk, todo, content, sections, remaining, total, best>>
    BY <1>5 DEF FindNothing, flowVars
  <2>2. todo = <<>>
    BY <2>1 DEF Accounting
  <2> QED
    BY <1>1, <2>1, <2>2
<1>6. CASE ReadFile
  BY <1>6, TextsRead
<1>7. CASE ShowWhole
  <2>1. phase = "render"
    BY <1>7 DEF ShowWhole
  <2>2. CASE disk[Current] = 0
    <3>1. LeaveOut(FALSE)
      BY <1>7, <2>2 DEF ShowWhole
    <3>2. Excused(Current)
      BY <1>2, <2>1, <2>2, Unreadable DEF Texts
    <3> QED
      BY <1>2, <2>1, <3>1, <3>2, TextsLeave
  <2>3. CASE disk[Current] # 0
    <3> DEFINE text == LinesFrom(1, disk[Current])
    <3>1. Show("whole", text, FALSE)
      BY <1>7, <2>3 DEF ShowWhole
    <3>2. text \in Seq(Int)
      <4>1. disk[Current] \in Nat
        BY <1>2, <2>1 DEF Texts, Stored
      <4> DEFINE d == disk[Current]
      <4>2. d \in Int /\ 1 \in Int
        BY <4>1
      <4> HIDE DEF d
      <4>3. LinesFrom(1, d) \in Seq(Int)
        BY <4>2, LinesFromIs
      <4> QED
        BY <4>3 DEF d
    <3> HIDE DEF text
    <3> QED
      BY <1>2, <2>1, <3>1, <3>2, TextsShow
  <2> QED
    BY <2>2, <2>3
<1>8. CASE ShowSkeleton
  <2>1. phase = "render" /\ GodFile
    BY <1>8 DEF ShowSkeleton
  <2>2. CASE Skeleton = <<>> \/ Refused(Skeleton)
    <3>1. LeaveOut(TRUE)
      BY <1>8, <2>2 DEF ShowSkeleton
    <3>2. Excused(Current)
      BY <2>1, <2>2, BlankLines DEF Excused, Refused
    <3> QED
      BY <1>2, <2>1, <3>1, <3>2, TextsLeave
  <2>3. CASE ~(Skeleton = <<>> \/ Refused(Skeleton))
    <3>1. AddSection("skeleton", Skeleton, SectionSize(Skeleton), FALSE)
      BY <1>8, <2>3 DEF ShowSkeleton
    <3> QED
      BY <2>1, <2>3, <3>1, TextsSkeleton
  <2> QED
    BY <2>2, <2>3
<1>9. CASE ShowOversized
  <2>1. phase = "render" /\ ~Refused(Skeleton) /\ AddSection("skeleton", Skeleton, SectionSize(Skeleton), FALSE)
    BY <1>9 DEF ShowOversized, Fallback
  <2> QED
    BY <2>1, TextsSkeleton
<1>10. CASE ShowClusters
  <2> DEFINE text == Excerpt(Chosen, disk[Current])
             less == Len(Chosen) < Len(ClustersHere)
  <2>1. phase = "render"
    BY <1>10 DEF ShowClusters
  <2>2. /\ text = <<>> => Excused(Current)
        /\ text \in Seq(Int)
        /\ Echoes(text, MayBegin(Current, ReadLines(Current)))
    BY <2>1, BlankLines
  <2>3. CASE disk[Current] = 0 \/ (text = <<>> /\ Len(Chosen) = 1)
    <3>1. LeaveOut(FALSE)
      BY <1>10, <2>3 DEF ShowClusters
    <3>2. Excused(Current)
      BY <1>2, <2>1, <2>2, <2>3, Unreadable DEF Texts
    <3> QED
      BY <1>2, <2>1, <3>1, <3>2, TextsLeave
  <2>4. CASE ~(disk[Current] = 0 \/ (text = <<>> /\ Len(Chosen) = 1))
    <3>1. Show("clusters", text, less)
      BY <1>10, <2>4 DEF ShowClusters
    <3> HIDE DEF text, less
    <3> QED
      BY <1>2, <2>1, <2>2, <3>1, TextsShow
  <2> QED
    BY <2>3, <2>4
<1>11. CASE Finish
  <2>1. phase' = "done" /\ todo = <<>> /\ UNCHANGED <<project, disk, todo, content, sections, remaining, total, best>>
    BY <1>11 DEF Finish, flowVars
  <2> QED
    BY <1>1, <2>1
<1>12. CASE EditFile
  BY <1>12, TextsEdit
<1>13. CASE UNCHANGED vars
  BY <1>1, <1>13 DEF vars, exploreVars, flowVars
<1> QED
  BY <1>3, <1>4, <1>5, <1>6, <1>7, <1>8, <1>9, <1>10, <1>11, <1>12, <1>13 DEF Next

LEMMA TextsStay ==
    /\ Init => Accounting /\ Texts
    /\ Accounting /\ Texts /\ [Next]_vars => (Accounting /\ Texts)'
BY AccountStart, AccountingStep, TextsStart, TextsStep

\* In the clusters of a file a line only comes again in a stretch that begins
\* with an envelope (_merge_ranges, extract_source_with_line_numbers): but for
\* these the context around two clusters does not meet, in whatever order the
\* budget took them.
THEOREM ClustersShowOnce == Spec => []LinesOnce
<1>1. Texts => LinesOnce
  <2> SUFFICES ASSUME Texts, NEW i \in AllSections, sections[i].how = "clusters",
                      NEW k \in DOMAIN sections[i].text, NEW l \in DOMAIN sections[i].text,
                      k < l, sections[i].text[k] = sections[i].text[l]
               PROVE  \E p \in k + 1 .. l :
                         /\ \E j \in DOMAIN NodesIn(sections[i].file) :
                               /\ IsEnvelope(NodesIn(sections[i].file)[j], ReadLines(sections[i].file))
                               /\ sections[i].text[p] = Max({1, NodesIn(sections[i].file)[j].first - Padding})
                         /\ \A q \in p .. l : sections[i].text[q] = sections[i].text[p] + (q - p)
    BY DEF LinesOnce
  <2> DEFINE t == sections[i].text
             f == sections[i].file
  <2>1. t \in Seq(Int) /\ Echoes(t, MayBegin(f, ReadLines(f)))
    BY DEF Texts, Proper
  <2>2. DOMAIN t = 1 .. Len(t)
    BY <2>1
  <2>3. PICK p \in k + 1 .. l : t[p] \in MayBegin(f, ReadLines(f)) /\ \A q \in p .. l : t[q] = t[p] + (q - p)
    BY <2>1, <2>2 DEF Echoes
  <2>4. \E j \in DOMAIN NodesIn(f) : /\ IsEnvelope(NodesIn(f)[j], ReadLines(f))
                                     /\ t[p] = Max({1, NodesIn(f)[j].first - Padding})
    BY <2>3 DEF MayBegin, Beginnings, Envelopes
  <2> QED
    BY <2>3, <2>4
<1> QED
  BY <1>1, TextsStay, PTL DEF Spec

\* How long a skeleton can become (BodiesKept, render_skeletonized): the bodies
\* it keeps fit together or are a single one, of a callable that was asked for or
\* is in the call chain, and all the rest are signatures.
THEOREM SkeletonsShort == Spec => []SkeletonBounded
<1>1. Texts => SkeletonBounded
  BY DEF Texts, Proper, SkeletonBounded, MaySkeleton
<1> QED
  BY <1>1, TextsStay, PTL DEF Spec

-----------------------------------------------------------------------------
(* What comes before the source. *)

\* The call chain is a list.
Chained == \E K : best \in Seq(K)

LEMMA ChainedStep == FlowInv /\ Chained /\ [Next]_vars => Chained'
<1> SUFFICES ASSUME FlowInv, Chained, [Next]_vars PROVE Chained'
  OBVIOUS
<1>1. CASE UNCHANGED best
  BY <1>1 DEF Chained
<1>2. CASE EndTrace
  <2>1. best' = IF deep # NotDeep /\ Len(Chain(deep.id)) > Len(best) THEN Chain(deep.id) ELSE best
    BY <1>2 DEF EndTrace
  <2>2. Searching
    BY <1>2 DEF EndTrace, FlowInv
  <2>3. ASSUME deep # NotDeep PROVE Chain(deep.id) \in Seq(DOMAIN parent)
    <3>1. PICK p : Way(parent, seed, p, deep.id)
      BY <2>2, <2>3 DEF Searching, Rooted
    <3>2. Chain(deep.id) = p
      BY <2>2, <3>1, ChainIsWay DEF Searching
    <3> QED
      BY <3>1, <3>2 DEF Way
  <2> QED
    BY <2>1, <2>3 DEF Chained
<1>3. CASE ~EndTrace
  BY <1>1, <1>3 DEF Next, vars, flowVars, TraceFlow, FlowStep, StartTrace, Trace, SelectFiles, FindNothing, ReadFile,
         ShowWhole, ShowSkeleton, ShowOversized, ShowClusters, Finish, EditFile, LeaveOut, Show, AddSection
<1> QED
  BY <1>2, <1>3

LEMMA CeilingIs == HardCeiling \in Nat
<1> DEFINE u == (3 * MaxOutput) \div 2
<1>1. u \in Nat /\ Ceiling \in Nat
  BY ExploreAssumption
<1> HIDE DEF u
<1>2. u \in Int /\ Ceiling \in Int
  BY <1>1
<1>3. Min({u, Ceiling}) \in Nat
  BY <1>1, <1>2, TwoOf
<1> QED
  BY <1>3 DEF HardCeiling, u

LEMMA StructureIs ==
    ASSUME Chained
    PROVE  /\ FlowLine * Len(Spine) \in Nat /\ Preface \in Nat
           /\ StructureSize = Preface + FlowLine * Len(Spine) /\ StructureSize \in Nat
<1>1. Preface \in Nat /\ FlowLine \in Nat
  BY ExploreAssumption
<1>2. Len(Spine) \in Nat
  BY DEF Chained, Spine
<1>3. FlowLine * Len(Spine) \in Nat
  BY <1>1, <1>2, Products
<1> QED
  BY <1>1, <1>3 DEF StructureSize

Kept == FlowInv /\ Chained /\ Accounting /\ Texts

LEMMA KeptStays ==
    /\ Init => Kept
    /\ Kept /\ [Next]_vars => Kept'
<1>1. ASSUME Init PROVE Kept
  <2>1. best = <<>>
    BY <1>1 DEF Init, FlowInit
  <2>2. Chained
    BY <2>1 DEF Chained
  <2> QED
    BY <1>1, <2>2, FlowStart, FiniteCalls, TextsStay DEF Kept
<1> QED
  BY <1>1, FlowInvStep, ChainedStep, TextsStay DEF Kept

\* Where files that are not necessary end in the text: within nine tenths of the
\* budget and what is not counted, the call chain and the newlines, whatever comes
\* before them.
THEOREM OptionalBounded == Spec => []OptionalWithinBudget
<1>1. Kept => OptionalWithinBudget
  <2> SUFFICES ASSUME Kept, NEW i \in AllSections, ~IsNecessary(sections[i].file)
               PROVE  10 * (StructureSize + Start(i + 1)) <= 9 * MaxOutput + 10 * (FlowLine * Len(Spine) + i)
    BY DEF OptionalWithinBudget
  <2> DEFINE x == FlowLine * Len(Spine)
             y == Start(i + 1)
  <2>1. x \in Nat /\ Preface \in Nat /\ StructureSize = Preface + x
    BY StructureIs DEF Kept
  <2>2. PICK S : sections \in Seq(S)
    BY DEF Kept, Accounting
  <2>3. y = StartOf(sections, i + 1)
    BY DEF Start, StartOf
  <2>4. Sized(sections) /\ i \in 1 .. Len(sections)
    BY <2>2 DEF Kept, Texts, Proper, Sized, AllSections
  <2>5. y \in Nat /\ i \in Nat
    BY <2>2, <2>3, <2>4, StartNext
  <2>6. 10 * (Preface + y) <= 9 * MaxOutput + 10 * i
    BY <2>3 DEF Kept, Texts, Within
  <2>7. MaxOutput \in Nat
    BY ExploreAssumption
  <2> HIDE DEF x, y
  <2>8. 10 * (Preface + x + y) <= 9 * MaxOutput + 10 * (x + i)
    BY <2>1, <2>5, <2>6, <2>7
  <2> QED
    BY <2>1, <2>8 DEF x, y
<1> QED
  BY <1>1, KeptStays, PTL DEF Spec

-----------------------------------------------------------------------------
(* Where the answer is cut. *)

\* Each section begins behind those before it.
LEMMA StartsRise ==
    ASSUME NEW S, NEW s \in Seq(S), Sized(s)
    PROVE  \A i, j \in 1 .. Len(s) : i < j => StartOf(s, i) < StartOf(s, j)
<1> DEFINE K == {d \in Nat : \A i \in 1 .. Len(s) : i + d + 1 \in 1 .. Len(s) => StartOf(s, i) < StartOf(s, i + d + 1)}
<1>1. \A i \in 1 .. Len(s) : /\ StartOf(s, i) \in Nat /\ StartOf(s, i + 1) \in Nat
                             /\ StartOf(s, i + 1) > StartOf(s, i)
  <2> TAKE i \in 1 .. Len(s)
  <2>1. /\ StartOf(s, i) \in Nat /\ StartOf(s, i + 1) \in Nat
        /\ StartOf(s, i + 1) = StartOf(s, i) + s[i].size + 1
    BY StartNext
  <2>2. s[i].size \in Nat
    BY DEF Sized
  <2> QED
    BY <2>1, <2>2
<1>2. 0 \in K
  BY <1>1
<1>3. \A d \in Nat : d \in K => d + 1 \in K
  <2> TAKE d \in Nat
  <2> HAVE d \in K
  <2> SUFFICES \A i \in 1 .. Len(s) : i + (d + 1) + 1 \in 1 .. Len(s) => StartOf(s, i) < StartOf(s, i + (d + 1) + 1)
    OBVIOUS
  <2> TAKE i \in 1 .. Len(s)
  <2> HAVE i + (d + 1) + 1 \in 1 .. Len(s)
  <2>1. i + d + 1 \in 1 .. Len(s) /\ i + (d + 1) + 1 = (i + d + 1) + 1
    OBVIOUS
  <2>2. StartOf(s, i) < StartOf(s, i + d + 1)
    BY <2>1
  <2>3. StartOf(s, i + d + 1) < StartOf(s, (i + d + 1) + 1)
    BY <1>1, <2>1
  <2>4. StartOf(s, i) \in Nat /\ StartOf(s, i + d + 1) \in Nat /\ StartOf(s, (i + d + 1) + 1) \in Nat
    BY <1>1, <2>1
  <2> QED
    BY <2>1, <2>2, <2>3, <2>4
<1> HIDE DEF K
<1>4. \A d \in Nat : d \in K
  BY <1>2, <1>3, SetInduction
<1> SUFFICES ASSUME NEW i \in 1 .. Len(s), NEW j \in 1 .. Len(s), i < j PROVE StartOf(s, i) < StartOf(s, j)
  OBVIOUS
<1> DEFINE d == j - i - 1
<1>5. d \in Nat /\ j = i + d + 1
  OBVIOUS
<1> HIDE DEF d
<1>6. d \in K
  BY <1>4, <1>5
<1> QED
  BY <1>5, <1>6 DEF K

LEMMA StartsAre ==
    ASSUME Accounting, Texts
    PROVE  /\ \E S : sections \in Seq(S)
           /\ AllSections = 1 .. Len(sections) /\ Len(sections) \in Nat
           /\ \A i \in AllSections : Start(i) \in Nat
           /\ \A i, j \in AllSections : i < j => Start(i) < Start(j)
<1>1. PICK S : sections \in Seq(S)
  BY DEF Accounting
<1>2. AllSections = 1 .. Len(sections) /\ Len(sections) \in Nat
  BY <1>1 DEF AllSections
<1>3. Sized(sections)
  BY DEF Texts, Proper, Sized, AllSections
<1>4. \A i \in AllSections : StartOf(sections, i) \in Nat
  BY <1>1, <1>2, <1>3, StartNext
<1>5. \A i, j \in AllSections : i < j => StartOf(sections, i) < StartOf(sections, j)
  BY <1>1, <1>2, <1>3, StartsRise
<1> QED
  BY <1>1, <1>2, <1>4, <1>5 DEF Start, StartOf

\* Where the text before is c long, the sections that begin within the room.
Begun(c, room) == {i \in AllSections : c + Start(i) < room}
LastBegun(c, room) == IF Begun(c, room) = {} THEN 0 ELSE c + Start(Max(Begun(c, room)))

\* What begins last within the room ends before it, and what is behind a section
\* that is cut off has no room.
LEMMA CutTail ==
    ASSUME Accounting, Texts, NEW c \in Nat, NEW room \in Int
    PROVE  /\ LastBegun(c, room) \in Nat
           /\ room >= 0 => LastBegun(c, room) <= room
           /\ \A boundary \in {LastBegun(c, room), room} : \A k, j \in AllSections :
                 c + Start(k) >= boundary /\ j > k => c + Start(j) >= room
<1> DEFINE begun == Begun(c, room)
           n == Len(sections)
<1>1. /\ AllSections = 1 .. n /\ n \in Nat
      /\ \A i \in AllSections : Start(i) \in Nat
      /\ \A i, j \in AllSections : i < j => Start(i) < Start(j)
  BY StartsAre
<1> HIDE DEF n
<1>2. \A i \in AllSections : i \notin begun => c + Start(i) >= room
  BY <1>1 DEF Begun
<1>3. CASE begun = {}
  <2>1. LastBegun(c, room) = 0
    BY <1>3 DEF LastBegun
  <2> QED
    BY <1>2, <1>3, <2>1
<1>4. CASE begun # {}
  <2> DEFINE m == Max(begun)
  <2>1. begun \in SUBSET (0 .. n)
    BY <1>1 DEF Begun
  <2>2. \A i \in begun : i \in AllSections /\ c + Start(i) < room
    BY DEF Begun
  <2> HIDE DEF begun
  <2>3. m \in begun /\ \A i \in begun : m >= i
    BY <1>1, <1>4, <2>1, MaxIn
  <2>4. LastBegun(c, room) = c + Start(m)
    BY <1>4 DEF LastBegun, begun
  <2> HIDE DEF m
  <2>5. m \in AllSections /\ c + Start(m) < room /\ Start(m) \in Nat
    BY <1>1, <2>2, <2>3
  <2>6. ASSUME NEW k \in AllSections, NEW j \in AllSections, c + Start(k) >= c + Start(m), j > k
        PROVE  c + Start(j) >= room
    <3>1. k \in Nat /\ j \in Nat /\ m \in Nat
      BY <1>1, <2>5
    <3>2. ~(k < m)
      BY <1>1, <2>5, <2>6
    <3>3. j > m
      BY <2>6, <3>1, <3>2
    <3>4. j \notin begun
      BY <2>3, <3>1, <3>3
    <3> QED
      BY <1>2, <3>4
  <2>7. ASSUME NEW k \in AllSections, NEW j \in AllSections, c + Start(k) >= room, j > k
        PROVE  c + Start(j) >= room
    <3>1. Start(k) < Start(j) /\ Start(k) \in Nat /\ Start(j) \in Nat
      BY <1>1, <2>7
    <3> QED
      BY <2>7, <3>1
  <2> QED
    BY <2>4, <2>5, <2>6, <2>7
<1> QED
  BY <1>3, <1>4

\* A list is as long as its heading, what it says of the files and the last line.
LEMMA ListSizes ==
    ASSUME Stored, NEW list, list \in Seq(DOMAIN project.lines)
    PROVE  ListSize(list) \in Nat
<1> DEFINE D == DOMAIN project.lines
           at == {i \in DOMAIN list : i <= ListMax}
           first == Picked(list, at)
           w == [i \in DOMAIN first |-> Item(first[i])]
<1>1. \A f \in D : Item(f) \in Nat
  BY ExploreAssumption DEF Stored
<1>2. first \in Seq(D)
  BY PickedIs
<1>3. DOMAIN first = 1 .. Len(first) /\ Len(first) \in Nat /\ \A i \in 1 .. Len(first) : first[i] \in D
  <2> HIDE DEF first, D
  <2> QED
    BY <1>2
<1>4. ListHeading \in Nat /\ MoreItem \in Nat /\ ListMax \in Nat
  BY ExploreAssumption
<1>5. SumOver(first, Item) = Total(w)
  BY DEF SumOver
<1> HIDE DEF D, at, first
<1>6. w \in [1 .. Len(first) -> Nat]
  BY <1>1, <1>3
<1> HIDE DEF w
<1>7. w \in Seq(Nat)
  BY <1>3, <1>6, IsSeq
<1>8. Total(w) \in Nat
  BY <1>7, TotalNat
<1>9. ListSize(list) = IF list = <<>> THEN 0
                       ELSE ListHeading + Total(w) + (IF More(list) = 0 THEN 0 ELSE MoreItem)
  BY <1>5 DEF ListSize, first, at
<1> QED
  BY <1>4, <1>8, <1>9

\* The list of what is not shown after a cut.
LEMMA ListAfterCut ==
    ASSUME Accounting, Texts, NEW cut \in SUBSET AllSections
    PROVE  remaining \o CutFiles(cut) \in Seq(DOMAIN project.lines)
<1> DEFINE D == DOMAIN project.lines
           list == CutFiles(cut)
<1>1. PICK S : sections \in Seq(S) /\ \A i, j \in AllSections : sections[i].file = sections[j].file => i = j
  BY DEF Accounting
<1>2. PICK T : list \in Seq(T) /\ Elements(list) = FilesOf(cut) \ Blank
  BY <1>1, CutList
<1>3. FilesOf(cut) \subseteq D
  BY DEF FilesOf, Texts
<1> HIDE DEF list
<1>4. \A i \in 1 .. Len(list) : list[i] \in D
  <2>1. DOMAIN list = 1 .. Len(list)
    BY <1>2
  <2> QED
    BY <1>2, <1>3, <2>1 DEF Elements
<1>5. list \in Seq(D)
  <2>1. list \in [1 .. Len(list) -> T] /\ Len(list) \in Nat
    BY <1>2
  <2>2. list \in [1 .. Len(list) -> D]
    BY <1>4, <2>1
  <2> QED
    BY <2>1, <2>2, IsSeq
<1>6. remaining \in Seq(D)
  BY DEF Accounting
<1> HIDE DEF D
<1> QED
  BY <1>5, <1>6 DEF list, D

\* A section is in the answer a, or nothing behind it has room.
Settled(a) ==
    \A k \in AllSections :
       \/ sections[k].file \in a.shown
       \/ OutputSize > HardCeiling /\ \A j \in AllSections : j > k => Start(j) >= Room

\* The answer a is within its ceiling but for its list.
Limited(a) ==
    LET list == remaining \o CutFiles({i \in AllSections : sections[i].file \notin a.shown})
        reckoned == IF remaining = <<>> THEN 0 ELSE ListHeading + ItemEstimate * Len(remaining)
    IN  \/ a.size <= HardCeiling
        \/ a.how = "source_cut" /\ a.size <= HardCeiling + ListSize(list) - reckoned

\* What the sizes of an answer are made of.
LEMMA SizesOf ==
    ASSUME Kept
    PROVE  /\ StructureSize \in Nat /\ HardCeiling \in Nat /\ Truncated \in Nat /\ MinSource \in Nat
           /\ ListReserve(Len(remaining)) \in Nat
           /\ SourceRoom = HardCeiling - StructureSize - Truncated - ListReserve(Len(remaining))
           /\ SourceRoom \in Int
<1>1. StructureSize \in Nat /\ HardCeiling \in Nat
  BY StructureIs, CeilingIs DEF Kept
<1>2. Truncated \in Nat /\ MinSource \in Nat /\ ListHeading \in Nat /\ ItemEstimate \in Nat
  BY ExploreAssumption
<1>3. Len(remaining) \in Nat
  BY DEF Kept, Accounting
<1>4. ItemEstimate * Len(remaining) \in Nat
  BY <1>2, <1>3, Products
<1>5. ListReserve(Len(remaining)) \in Nat
  BY <1>2, <1>4 DEF ListReserve
<1> QED
  BY <1>1, <1>2, <1>5 DEF SourceRoom

LEMMA SourceIsCut ==
    ASSUME Kept, OutputSize > HardCeiling, SourceRoom > MinSource
    PROVE  Settled(CutSource(SourceRoom)) /\ Limited(CutSource(SourceRoom))
<1> DEFINE room == SourceRoom
           last == LastBegun(0, room)
           boundary == IF 10 * last > 3 * room THEN last ELSE room
           cut == {i \in AllSections : Start(i) >= boundary}
           list == remaining \o CutFiles(cut)
           a == CutSource(room)
<1>1. /\ \A i \in AllSections : Start(i) \in Nat
      /\ \A i, j \in AllSections : sections[i].file = sections[j].file => i = j
  BY StartsAre DEF Kept, Accounting
<1>2. {i \in AllSections : Start(i) < room} = Begun(0, room)
  BY <1>1 DEF Begun
<1>3. last = IF Begun(0, room) = {} THEN 0 ELSE Start(Max(Begun(0, room)))
  <2>1. CASE Begun(0, room) = {}
    BY <2>1 DEF LastBegun
  <2>2. CASE Begun(0, room) # {}
    <3>1. last = 0 + Start(Max(Begun(0, room)))
      BY <2>2 DEF LastBegun
    <3>2. Max(Begun(0, room)) \in AllSections
      <4> DEFINE begun == Begun(0, room)
                 n == Len(sections)
      <4>1. begun \in SUBSET (0 .. n) /\ n \in Nat /\ begun \subseteq AllSections
        BY StartsAre DEF Begun, Kept
      <4> HIDE DEF begun, n
      <4>2. Max(begun) \in begun
        BY <2>2, <4>1, MaxIn DEF begun
      <4> QED
        BY <4>1, <4>2 DEF begun
    <3>3. Start(Max(Begun(0, room))) \in Nat
      BY <1>1, <3>2
    <3> QED
      BY <2>2, <3>1, <3>3
  <2> QED
    BY <2>1, <2>2
<1>4. a = Answer("source_cut", StructureSize + boundary + ListSize(list) + Truncated, AllSections \ cut, list)
  BY <1>2, <1>3 DEF CutSource
<1>5. /\ a.how = "source_cut" /\ a.shown = FilesOf(AllSections \ cut)
      /\ a.size = StructureSize + boundary + ListSize(list) + Truncated
  BY <1>4 DEF Answer
<1>6. room \in Int /\ room > 0
  BY SizesOf
<1>7. /\ last \in Nat /\ last <= room
      /\ \A b \in {last, room} : \A k, j \in AllSections : 0 + Start(k) >= b /\ j > k => 0 + Start(j) >= room
  <2>1. Accounting /\ Texts /\ 0 \in Nat /\ room \in Int /\ room >= 0
    BY <1>6 DEF Kept
  <2> HIDE DEF room
  <2> QED
    BY <2>1, CutTail
<1>8. boundary \in {last, room} /\ boundary \in Nat /\ boundary <= room
  <2> HIDE DEF last, room
  <2> QED
    BY <1>6, <1>7
<1> HIDE DEF a, last, boundary
<1>9. Room = room
  BY DEF Room
<1>10. ASSUME NEW k \in AllSections, sections[k].file \notin a.shown
       PROVE  \A j \in AllSections : j > k => Start(j) >= Room
  <2>1. k \in cut
    BY <1>5, <1>10 DEF FilesOf
  <2>2. Start(k) >= boundary
    BY <2>1
  <2> HIDE DEF room
  <2>3. \A j \in AllSections : 0 + Start(k) >= boundary /\ j > k => 0 + Start(j) >= room
    BY <1>7, <1>8
  <2> QED
    BY <1>1, <1>9, <2>2, <2>3
<1>11. Settled(a)
  BY <1>10 DEF Settled
<1>12. {i \in AllSections : sections[i].file \notin a.shown} = cut
  <2>1. \A i \in AllSections : sections[i].file \in a.shown => i \notin cut
    <3> SUFFICES ASSUME NEW i \in AllSections, sections[i].file \in a.shown PROVE i \notin cut
      OBVIOUS
    <3>1. PICK j \in AllSections \ cut : sections[j].file = sections[i].file
      BY <1>5 DEF FilesOf
    <3> QED
      BY <1>1, <3>1
  <2>2. \A i \in AllSections : sections[i].file \notin a.shown => i \in cut
    BY <1>5 DEF FilesOf
  <2> QED
    BY <2>1, <2>2
<1>13. ListSize(list) \in Nat
  <2>1. cut \in SUBSET AllSections
    OBVIOUS
  <2> HIDE DEF cut
  <2>2. list \in Seq(DOMAIN project.lines)
    BY <2>1, ListAfterCut DEF Kept
  <2> HIDE DEF list
  <2> QED
    BY <2>2, ListSizes DEF Kept, Texts
<1> DEFINE reckoned == IF remaining = <<>> THEN 0 ELSE ListHeading + ItemEstimate * Len(remaining)
<1>14. ListReserve(Len(remaining)) = reckoned
  BY DEF ListReserve, Kept, Accounting
<1> DEFINE size == ListSize(list)
           kept == ListReserve(Len(remaining))
<1>15. a.size <= HardCeiling + size - kept
  <2>1. /\ StructureSize \in Nat /\ HardCeiling \in Nat /\ Truncated \in Nat /\ kept \in Nat
        /\ room = HardCeiling - StructureSize - Truncated - kept
    BY SizesOf
  <2>2. a.size = StructureSize + boundary + size + Truncated /\ size \in Nat
    BY <1>5, <1>13
  <2> HIDE DEF room, size, kept
  <2> QED
    BY <1>8, <2>1, <2>2
<1>16. Limited(a)
  BY <1>5, <1>12, <1>14, <1>15 DEF Limited
<1> QED
  BY <1>11, <1>16 DEF a

LEMMA AllIsCut ==
    ASSUME Kept, OutputSize > HardCeiling, ~(SourceRoom > MinSource)
    PROVE  Settled(CutAnywhere) /\ (RoomForNote => Limited(CutAnywhere))
<1> DEFINE room == HardCeiling - Truncated
           c == StructureSize
           last == LastBegun(c, room)
           boundary == IF 2 * last > room THEN last ELSE room
           a == CutAnywhere
<1>1. /\ c \in Nat /\ room \in Int /\ Truncated \in Nat /\ HardCeiling \in Nat
      /\ \A i \in AllSections : Start(i) \in Nat
  BY SizesOf, StartsAre DEF Kept
<1>2. a = Answer("cut", boundary + Truncated, {i \in AllSections : c + Start(i) < boundary}, <<>>)
  BY DEF CutAnywhere, LastBegun, Begun
<1>3. a.shown = FilesOf({i \in AllSections : c + Start(i) < boundary}) /\ a.size = boundary + Truncated
  BY <1>2 DEF Answer
<1>4. /\ last \in Nat
      /\ room >= 0 => last <= room
      /\ \A b \in {last, room} : \A k, j \in AllSections : c + Start(k) >= b /\ j > k => c + Start(j) >= room
  BY <1>1, CutTail DEF Kept
<1>5. boundary \in {last, room} /\ boundary \in Int /\ (room >= 0 => boundary <= room)
  <2> HIDE DEF last, room
  <2> QED
    BY <1>1, <1>4
<1>6. Room = room - c
  BY DEF Room
<1> HIDE DEF a, last, boundary, c
<1>7. ASSUME NEW k \in AllSections, sections[k].file \notin a.shown
      PROVE  \A j \in AllSections : j > k => Start(j) >= Room
  <2>1. ~(c + Start(k) < boundary)
    BY <1>3, <1>7 DEF FilesOf
  <2>2. c + Start(k) >= boundary
    BY <1>1, <1>5, <2>1
  <2> HIDE DEF room
  <2>3. \A j \in AllSections : j > k => c + Start(j) >= room
    BY <1>4, <1>5, <2>2
  <2> QED
    BY <1>1, <1>6, <2>3
<1>8. Settled(a)
  BY <1>7 DEF Settled
<1>9. RoomForNote => a.size <= HardCeiling
  <2>1. RoomForNote => room >= 0
    BY <1>1 DEF RoomForNote
  <2>2. boundary <= room => boundary + Truncated <= HardCeiling
    BY <1>1, <1>5
  <2> HIDE DEF room
  <2> QED
    BY <1>3, <1>5, <2>1, <2>2
<1> QED
  BY <1>8, <1>9 DEF Limited, a

Ended == phase = "done" => Settled(answer) /\ (RoomForNote => Limited(answer))

\* When the answer is made nothing else changes.
LEMMA EndedStep == Kept /\ Ended /\ [Next]_vars => Ended'
<1> SUFFICES ASSUME Kept, Ended, [Next]_vars, phase' = "done"
             PROVE  Settled(answer)' /\ (RoomForNote => Limited(answer)')
  BY DEF Ended, RoomForNote, HardCeiling
<1>1. UNCHANGED <<sections, remaining, best>> => \A a : Settled(a)' = Settled(a) /\ Limited(a)' = Limited(a)
  <2> SUFFICES ASSUME UNCHANGED <<sections, remaining, best>>, NEW a
               PROVE  Settled(a)' = Settled(a) /\ Limited(a)' = Limited(a)
    OBVIOUS
  <2>1. /\ AllSections' = AllSections /\ \A i : Start(i)' = Start(i)
        /\ StructureSize' = StructureSize /\ \A l : ListSize(l)' = ListSize(l)
    BY DEF AllSections, Start, StructureSize, Spine, ListSize, More, SumOver
  <2>2. OutputSize' = OutputSize /\ SourceRoom' = SourceRoom
    BY <2>1 DEF OutputSize, SourceSize, SourceRoom, ListReserve, HardCeiling
  <2>3. Room' = Room
    BY <2>1, <2>2 DEF Room, HardCeiling
  <2>4. Settled(a)' = Settled(a)
    BY <2>1, <2>2, <2>3 DEF Settled, HardCeiling
  <2>5. Limited(a)' = Limited(a)
    BY <2>1 DEF Limited, CutFiles, HardCeiling, AllSections, ListSize, More, SumOver
  <2> QED
    BY <2>4, <2>5
<1>2. CASE FindNothing
  <2>1. /\ answer' = [NoAnswer EXCEPT !.how = "nothing"]
        /\ phase = "flow" /\ UNCHANGED <<sections, remaining, best>>
    BY <1>2 DEF FindNothing, flowVars
  <2>2. AllSections = {}
    BY <2>1 DEF Kept, Accounting, AllSections
  <2>3. Settled(answer')
    BY <2>2 DEF Settled
  <2>4. answer'.size = 0 /\ HardCeiling \in Nat
    BY <2>1, CeilingIs DEF NoAnswer
  <2>5. Limited(answer')
    BY <2>4 DEF Limited
  <2> QED
    BY <1>1, <2>1, <2>3, <2>5
<1>3. CASE Finish
  <2>1. /\ UNCHANGED <<sections, remaining, best>>
        /\ answer' = CASE OutputSize <= HardCeiling -> Whole
                       [] OutputSize > HardCeiling /\ SourceRoom > MinSource -> CutSource(SourceRoom)
                       [] OTHER -> CutAnywhere
    BY <1>3 DEF Finish, flowVars
  <2>2. OutputSize \in Int
    <3>1. remaining \in Seq(DOMAIN project.lines) /\ Stored
      BY DEF Kept, Accounting, Texts
    <3>2. ListSize(remaining) \in Nat
      BY <3>1, ListSizes
    <3>3. StructureSize \in Nat /\ Signal \in Nat
      BY SizesOf, ExploreAssumption
    <3>4. SourceSize \in Nat
      <4>1. PICK S : sections \in Seq(S)
        BY DEF Kept, Accounting
      <4>2. Sized(sections)
        BY DEF Kept, Texts, Proper, Sized, AllSections
      <4>3. StartOf(sections, Len(sections) + 1) \in Nat
        <5>1. Len(sections) \in 0 .. Len(sections)
          BY <4>1
        <5> QED
          BY <4>1, <4>2, <5>1, StartIs
      <4> QED
        BY <4>3 DEF SourceSize, Start, StartOf
    <3> QED
      BY <3>2, <3>3, <3>4 DEF OutputSize
  <2>3. CASE OutputSize <= HardCeiling
    <3>1. answer' = Whole
      <4>1. ~(OutputSize > HardCeiling)
        BY <2>3, <2>2, CeilingIs
      <4> QED
        BY <2>1, <2>3, <4>1
    <3>2. Whole.shown = FilesOf(AllSections) /\ Whole.size = OutputSize
      BY DEF Whole, Answer
    <3>3. Settled(Whole)
      BY <3>2 DEF Settled, FilesOf
    <3>4. Limited(Whole)
      BY <2>3, <3>2 DEF Limited
    <3> QED
      BY <1>1, <2>1, <3>1, <3>3, <3>4
  <2>4. CASE OutputSize > HardCeiling /\ SourceRoom > MinSource
    <3>1. answer' = CutSource(SourceRoom)
      <4>1. ~(OutputSize <= HardCeiling)
        BY <2>2, <2>4, CeilingIs
      <4> QED
        BY <2>1, <2>4, <4>1
    <3>2. Settled(CutSource(SourceRoom)) /\ Limited(CutSource(SourceRoom))
      BY <2>4, SourceIsCut
    <3> QED
      BY <1>1, <2>1, <3>1, <3>2
  <2>5. CASE OutputSize > HardCeiling /\ ~(SourceRoom > MinSource)
    <3>1. answer' = CutAnywhere
      <4>1. ~(OutputSize <= HardCeiling)
        BY <2>2, <2>5, CeilingIs
      <4> QED
        BY <2>1, <2>5, <4>1
    <3>2. Settled(CutAnywhere) /\ (RoomForNote => Limited(CutAnywhere))
      BY <2>5, AllIsCut
    <3> QED
      BY <1>1, <2>1, <3>1, <3>2
  <2> QED
    BY <2>3, <2>2, <2>4, <2>5, CeilingIs
<1>4. CASE phase = "done" /\ UNCHANGED <<sections, remaining, best, answer>>
  BY <1>1, <1>4 DEF Ended
<1>5. CASE ~FindNothing /\ ~Finish
  <2>1. UNCHANGED vars
    BY <1>5 DEF Next, TraceFlow, exploreVars, Kept, Accounting, SelectFiles, ReadFile, ShowWhole, ShowSkeleton,
           ShowOversized, ShowClusters, EditFile, LeaveOut, Show, AddSection
  <2> QED
    BY <1>4, <2>1 DEF vars, exploreVars, flowVars
<1> QED
  BY <1>2, <1>3, <1>5

LEMMA AnswersStay ==
    /\ Init => Kept /\ Ended
    /\ Kept /\ Ended /\ [Next]_vars => (Kept /\ Ended)'
BY KeptStays, EndedStep DEF Ended, Init

\* A selected file that was asked for is in the answer (explore, _add_remaining),
\* however large it is and however little of the budget is left, unless it
\* changed, the graph speaks of lines that it has not, or the answer was cut and
\* nothing behind the file had room: the last section that has is cut as well.
THEOREM AskedShown == Spec => []NecessaryShown
<1>1. Kept /\ Ended => NecessaryShown
  <2> SUFFICES ASSUME Kept, Ended, phase = "done", NEW i \in DOMAIN selected,
                      IsNecessary(selected[i]), selected[i] \notin Edited, InFile(selected[i])
               PROVE  \E k \in AllSections :
                         /\ sections[k].file = selected[i]
                         /\ \/ selected[i] \in answer.shown
                            \/ OutputSize > HardCeiling /\ \A j \in AllSections : j > k => Start(j) >= Room
    BY DEF NecessaryShown
  <2> DEFINE f == selected[i]
  <2>1. f \in Elements(selected)
    BY DEF Elements
  <2>2. Elements(todo) = {}
    BY DEF Kept, Texts, Elements
  <2>3. f \in FilesOf(AllSections) \/ f \in Elements(remaining)
    BY <2>1, <2>2 DEF Kept, Accounting
  <2>4. f \notin Elements(remaining)
    <3> SUFFICES ASSUME NEW j \in DOMAIN remaining, f = remaining[j] PROVE FALSE
      BY DEF Elements
    <3>1. Excused(f)
      BY DEF Kept, Texts
    <3>2. f \in DOMAIN project.lines
      BY DEF Kept, Accounting
    <3>3. disk[f] = project.lines[f]
      BY <3>2 DEF Kept, Texts, Stored, Edited
    <3>4. Fits(f)
      BY <3>3 DEF InFile, Fits
    <3> QED
      BY <3>1, <3>4 DEF Excused
  <2>5. PICK k \in AllSections : sections[k].file = f
    BY <2>3, <2>4 DEF FilesOf
  <2> QED
    BY <2>5 DEF Ended, Settled
<1> QED
  BY <1>1, AnswersStay, PTL DEF Spec

\* The size of an answer is bounded (explore, structural truncation): it exceeds
\* the ceiling at most by what its list is longer than was reckoned before the
\* files that were cut off joined it, for every budget whose ceiling has room for
\* the note that says so.
THEOREM AnswerBounded == RoomForNote => (Spec => []OutputBounded)
<1> SUFFICES ASSUME RoomForNote PROVE Spec => []OutputBounded
  OBVIOUS
<1>1. Kept /\ Ended => OutputBounded
  <2> SUFFICES ASSUME Kept, Ended PROVE OutputBounded
    OBVIOUS
  <2>1. CASE phase = "done"
    BY <2>1 DEF Ended, Limited, OutputBounded
  <2>2. CASE phase # "done"
    <3>1. answer.size = 0 /\ HardCeiling \in Nat
      BY <2>2, CeilingIs DEF Kept, Accounting, NoAnswer
    <3> QED
      BY <3>1 DEF OutputBounded
  <2> QED
    BY <2>1, <2>2
<1> QED
  BY <1>1, AnswersStay, PTL DEF Spec
=============================================================================
