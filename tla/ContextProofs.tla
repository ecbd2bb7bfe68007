--------------------------- MODULE ContextProofs ---------------------------
(***************************************************************************)
(* Proofs about Context: what the passes of a question pile up stays       *)
(* sound, whatever they find and whatever is deleted between two of them.  *)
(* The searches and the walks are shown to return lists; all else rests on *)
(* what joining lists, picking from them and ranking them keeps.           *)
(* At the end: what the symbols of a question are seeded with.             *)
(***************************************************************************)
EXTENDS ContextProps, Induction, FiniteSetTheorems

-----------------------------------------------------------------------------
(* Lists. *)

LEMMA ListOf ==
    ASSUME NEW S, NEW s \in Seq(S)
    PROVE  /\ IsList(s) /\ Len(s) \in Nat /\ DOMAIN s = 1 .. Len(s)
           /\ \A i \in 1 .. Len(s) : s[i] \in S
<1>1. Len(s) \in Nat /\ DOMAIN s = 1 .. Len(s) /\ \A i \in 1 .. Len(s) : s[i] \in S
  OBVIOUS
<1>2. s \in [1 .. Len(s) -> {s[i] : i \in DOMAIN s}]
  BY <1>1
<1>3. s \in Seq({s[i] : i \in DOMAIN s})
  BY <1>1, <1>2, IsSeq
<1> QED
  BY <1>1, <1>3 DEF IsList

LEMMA ListIs ==
    ASSUME NEW s, IsList(s)
    PROVE  /\ s \in Seq(ToSet(s))
           /\ Len(s) \in Nat /\ DOMAIN s = 1 .. Len(s)
           /\ \A i \in 1 .. Len(s) : s[i] \in ToSet(s)
<1>1. s \in Seq({s[i] : i \in DOMAIN s})
  BY DEF IsList
<1>2. s \in Seq(ToSet(s))
  BY <1>1 DEF ToSet
<1> QED
  BY <1>2, ListOf

LEMMA SeqMore ==
    ASSUME NEW A, NEW B, A \subseteq B, NEW s \in Seq(A)
    PROVE  s \in Seq(B)
<1>1. Len(s) \in Nat /\ s \in [1 .. Len(s) -> A]
  OBVIOUS
<1>2. s \in [1 .. Len(s) -> B]
  BY <1>1
<1> QED
  BY <1>1, <1>2, IsSeq

\* Two lists are lists of the same things.
LEMMA TwoLists ==
    ASSUME NEW s, NEW t, IsList(s), IsList(t)
    PROVE  s \in Seq(ToSet(s) \cup ToSet(t)) /\ t \in Seq(ToSet(s) \cup ToSet(t))
<1> DEFINE A == ToSet(s)
           B == ToSet(t)
<1>1. s \in Seq(A) /\ t \in Seq(B)
  BY ListIs
<1> HIDE DEF A, B
<1>2. A \subseteq A \cup B /\ B \subseteq A \cup B
  OBVIOUS
<1>3. s \in Seq(A \cup B) /\ t \in Seq(A \cup B)
  BY <1>1, <1>2, SeqMore
<1> QED
  BY <1>3 DEF A, B

LEMMA JoinedLists ==
    ASSUME NEW s, NEW t, IsList(s), IsList(t)
    PROVE  /\ IsList(s \o t)
           /\ Len(s \o t) = Len(s) + Len(t)
           /\ \A i \in 1 .. Len(s) : (s \o t)[i] = s[i]
           /\ \A i \in 1 .. Len(t) : (s \o t)[Len(s) + i] = t[i]
<1>1. PICK S : s \in Seq(S) /\ t \in Seq(S)
  BY TwoLists
<1>2. /\ s \o t \in Seq(S) /\ Len(s \o t) = Len(s) + Len(t)
      /\ \A i \in 1 .. Len(s) : (s \o t)[i] = s[i]
      /\ \A i \in 1 .. Len(t) : (s \o t)[Len(s) + i] = t[i]
  BY <1>1
<1>3. IsList(s \o t)
  BY <1>2, ListOf
<1> QED
  BY <1>2, <1>3

\* A list with a value for each number.
LEMMA MappedIs ==
    ASSUME NEW n \in Nat, NEW s, s = [i \in 1 .. n |-> s[i]]
    PROVE  IsList(s) /\ Len(s) = n /\ DOMAIN s = 1 .. n
<1> DEFINE S == {s[i] : i \in 1 .. n}
<1>1. s \in [1 .. n -> S]
  OBVIOUS
<1> HIDE DEF S
<1>2. s \in Seq(S) /\ Len(s) = n
  BY <1>1, IsSeq
<1> QED
  BY <1>1, <1>2, ListOf

LEMMA EmptyList == IsList(<<>>) /\ Len(<<>>) = 0 /\ DOMAIN <<>> = {}
<1>1. <<>> \in Seq({}) /\ Len(<<>>) = 0 /\ DOMAIN <<>> = {}
  OBVIOUS
<1> QED
  BY <1>1, ListOf

LEMMA PickedList ==
    ASSUME NEW s, IsList(s), NEW at
    PROVE  /\ IsList(Picked(s, at))
           /\ \A k \in DOMAIN Picked(s, at) : \E i \in DOMAIN s \cap at : Picked(s, at)[k] = s[i]
           /\ \A i \in DOMAIN s \cap at : \E k \in DOMAIN Picked(s, at) : Picked(s, at)[k] = s[i]
           /\ IsInjective(s) => IsInjective(Picked(s, at))
           /\ Len(Picked(s, at)) <= Len(s)
<1> DEFINE r == Picked(s, at)
           S == ToSet(s)
<1>1. s \in Seq(S)
  BY ListIs
<1> HIDE DEF S
<1>2. r \in Seq(S)
  BY <1>1, PickedIs
<1>3. PICK h : PickedBy(s, at, r, h)
  BY <1>1, PickedIs
<1> HIDE DEF r
<1>4. Len(r) \in Nat /\ DOMAIN r = 1 .. Len(r) /\ IsList(r)
  BY <1>2, ListOf
<1> DEFINE D == DOMAIN s \cap at
<1>5. /\ h \in [1 .. Len(r) -> D]
      /\ \A k \in 1 .. Len(r) : r[k] = s[h[k]]
      /\ \A j, k \in 1 .. Len(r) : j < k => h[j] < h[k]
      /\ \A i \in D : \E k \in 1 .. Len(r) : h[k] = i
  BY <1>3 DEF PickedBy
<1>12. Len(s) \in Nat /\ D \subseteq 1 .. Len(s) /\ D \subseteq DOMAIN s
  BY <1>1
<1> HIDE DEF D
<1>6. \A k \in 1 .. Len(r) : h[k] \in D
  BY <1>5
<1>7. \A k \in DOMAIN r : \E i \in D : r[k] = s[i]
  BY <1>4, <1>5, <1>6
<1>8. \A i \in D : \E k \in DOMAIN r : r[k] = s[i]
  BY <1>4, <1>5
<1>9. ASSUME IsInjective(s) PROVE IsInjective(r)
  <2> SUFFICES ASSUME NEW j \in DOMAIN r, NEW k \in DOMAIN r, r[j] = r[k] PROVE j = k
    BY DEF IsInjective
  <2>1. h[j] = h[k]
    BY <1>4, <1>5, <1>6, <1>9, <1>12 DEF IsInjective
  <2> QED
    BY <1>4, <1>5, <1>6, <1>12, <2>1
<1>10. Len(r) <= Len(s)
  <2>1. ASSUME NEW k \in Nat, \A j \in 1 .. Len(r) : j <= k => h[j] >= j, k + 1 \in 1 .. Len(r)
        PROVE  h[k + 1] >= k + 1
    <3>1. CASE k = 0
      BY <1>6, <1>12, <2>1, <3>1
    <3>2. CASE k # 0
      <4>1. k \in 1 .. Len(r) /\ k < k + 1
        BY <1>4, <2>1, <3>2
      <4>2. h[k] >= k /\ h[k] < h[k + 1] /\ h[k] \in D /\ h[k + 1] \in D
        BY <1>5, <1>6, <2>1, <4>1
      <4> QED
        BY <1>12, <4>2
    <3> QED
      BY <3>1, <3>2
  <2> DEFINE K == {k \in Nat : \A j \in 1 .. Len(r) : j <= k => h[j] >= j}
  <2>2. 0 \in K
    OBVIOUS
  <2>3. ASSUME NEW k \in Nat, k \in K PROVE k + 1 \in K
    <3> SUFFICES ASSUME NEW j \in 1 .. Len(r), j <= k + 1 PROVE h[j] >= j
      OBVIOUS
    <3>1. CASE j <= k
      BY <2>3, <3>1
    <3>2. CASE j = k + 1
      BY <2>1, <2>3, <3>2
    <3> QED
      BY <3>1, <3>2
  <2> HIDE DEF K
  <2>4. \A k \in Nat : k \in K
    BY <2>2, <2>3, SetInduction
  <2>5. \A j \in 1 .. Len(r) : j <= Len(r) => h[j] >= j
    BY <1>4, <2>4 DEF K
  <2>6. CASE Len(r) = 0
    BY <1>12, <2>6
  <2>7. CASE Len(r) # 0
    <3>1. Len(r) \in 1 .. Len(r)
      BY <1>4, <2>7
    <3>2. h[Len(r)] >= Len(r) /\ h[Len(r)] \in D
      BY <1>6, <2>5, <3>1
    <3> QED
      BY <1>4, <1>12, <3>2
  <2> QED
    BY <2>6, <2>7
<1> QED
  BY <1>4, <1>7, <1>8, <1>9, <1>10 DEF r, D

LEMMA TakeIs ==
    ASSUME NEW s, IsList(s), NEW n \in Nat
    PROVE  /\ IsList(Take(s, n))
           /\ Len(Take(s, n)) = IF n <= Len(s) THEN n ELSE Len(s)
           /\ \A i \in 1 .. Len(Take(s, n)) : i \in DOMAIN s /\ Take(s, n)[i] = s[i]
<1> DEFINE m == Min({n, Len(s)})
           S == ToSet(s)
<1>1. s \in Seq(S) /\ Len(s) \in Nat
  BY ListIs
<1> HIDE DEF S
<1>2. m = IF n <= Len(s) THEN n ELSE Len(s)
  BY <1>1, TwoOf
<1> HIDE DEF m
<1>3. m \in 0 .. Len(s)
  BY <1>1, <1>2
<1>4. /\ SubSeq(s, 1, m) \in Seq(S) /\ Len(SubSeq(s, 1, m)) = m
      /\ \A i \in 1 .. m : i \in DOMAIN s /\ SubSeq(s, 1, m)[i] = s[i]
  BY <1>1, <1>3
<1>5. Take(s, n) = SubSeq(s, 1, m)
  BY DEF Take, m
<1> QED
  BY <1>2, <1>4, <1>5, ListOf

LEMMA FlattenList ==
    ASSUME NEW s, IsList(s), \A i \in DOMAIN s : IsList(s[i])
    PROVE  IsList(FlattenSeq(s))
<1> DEFINE S == UNION {ToSet(s[i]) : i \in DOMAIN s}
<1>1. Len(s) \in Nat /\ DOMAIN s = 1 .. Len(s) /\ s = [i \in 1 .. Len(s) |-> s[i]]
  <2>1. s \in Seq(ToSet(s))
    BY ListIs
  <2> QED
    BY <2>1
<1>2. ASSUME NEW i \in DOMAIN s PROVE s[i] \in Seq(S)
  <2>1. s[i] \in Seq(ToSet(s[i]))
    BY ListIs
  <2>2. ToSet(s[i]) \subseteq S
    OBVIOUS
  <2> HIDE DEF S
  <2> QED
    BY <2>1, <2>2, SeqMore
<1> HIDE DEF S
<1>3. s \in [1 .. Len(s) -> Seq(S)]
  BY <1>1, <1>2
<1>4. s \in Seq(Seq(S))
  BY <1>1, <1>3, IsSeq
<1> QED
  BY <1>4, FlattenHas, ListOf
\* h tells where in all the elements of r were that Extended picks: for each key
\* there is one, and only one if s tells none twice.
Extending(s, all, key, r, h) ==
    /\ \A k \in DOMAIN r : h[k] \in DOMAIN all /\ r[k] = all[h[k]]
    /\ \A i \in DOMAIN all : \E k \in DOMAIN r : key[h[k]] = key[i]
    /\ (\A i, j \in DOMAIN s : key[i] = key[j] => i = j)
          => \A k, l \in DOMAIN r : key[h[k]] = key[h[l]] => k = l

LEMMA ExtendedList ==
    ASSUME NEW s, NEW t, IsList(s), IsList(t), NEW key
    PROVE  LET all == s \o t
               r == Picked(all, NewIn(all, Len(s), key))
           IN  /\ IsList(r)
               /\ \A k \in DOMAIN r : r[k] \in ToSet(s) \cup ToSet(t)
               /\ ToSet(s) \subseteq ToSet(r)
               /\ \E h : Extending(s, all, key, r, h)
<1> DEFINE all == s \o t
           n == Len(s)
           at == NewIn(all, n, key)
           r == Picked(all, at)
           S == ToSet(s) \cup ToSet(t)
<1>1. s \in Seq(S) /\ t \in Seq(S)
  BY TwoLists
<1>2. IsList(s) /\ IsList(all) /\ n \in Nat /\ DOMAIN s = 1 .. n /\ \A i \in 1 .. n : all[i] = s[i]
  BY JoinedLists, ListIs
<1>3. all = s \o t /\ all \in Seq(S)
  BY <1>1
<1>4. DOMAIN all = 1 .. Len(all) /\ \A i \in DOMAIN all : all[i] \in S
  BY <1>3, ListOf
<1> HIDE DEF all, S, n, at, r
<1>5. r \in Seq(S) /\ \E h : ExtendedBy(all, n, key, r, h)
  BY <1>1, <1>3, ExtendedIs DEF n, at, r
<1>6. PICK h : ExtendedBy(all, n, key, r, h)
  BY <1>5
<1>13. /\ PickedBy(all, at, r, h)
       /\ \A i \in DOMAIN all : \E k \in 1 .. Len(r) : key[h[k]] = key[i]
       /\ \A i \in 1 .. n : \E k \in 1 .. Len(r) : h[k] = i
       /\ (\A i, j \in 1 .. n : key[i] = key[j] => i = j)
             => \A k, l \in 1 .. Len(r) : key[h[k]] = key[h[l]] => k = l
  BY <1>6 DEF ExtendedBy, at
<1>7. IsList(r) /\ DOMAIN r = 1 .. Len(r)
  BY <1>5, ListOf
<1>8. \A k \in DOMAIN r : h[k] \in DOMAIN all /\ r[k] = all[h[k]]
  BY <1>7, <1>13 DEF PickedBy
<1>9. \A k \in DOMAIN r : r[k] \in S
  BY <1>4, <1>8
<1>10. ASSUME NEW i \in DOMAIN s PROVE \E k \in DOMAIN r : r[k] = s[i]
  <2>1. PICK k \in 1 .. Len(r) : h[k] = i
    BY <1>2, <1>13
  <2> QED
    BY <1>2, <1>7, <1>8, <2>1
<1>11. ToSet(s) \subseteq ToSet(r)
  BY <1>10, Zenon DEF ToSet
<1>12. Extending(s, all, key, r, h)
  BY <1>2, <1>7, <1>8, <1>13 DEF Extending
<1> QED
  BY <1>7, <1>9, <1>11, <1>12 DEF all, n, at, r, S

\* AddNodes, Joined and WithEdges.
LEMMA JoinedIs ==
    ASSUME NEW s, NEW t, IsList(s), IsList(t)
    PROVE  /\ IsList(Joined(s, t))
           /\ \A k \in DOMAIN Joined(s, t) : Joined(s, t)[k] \in ToSet(s) \cup ToSet(t)
           /\ (\A i, j \in DOMAIN s : s[i].id = s[j].id => i = j)
                 => \A k, l \in DOMAIN Joined(s, t) : Joined(s, t)[k].id = Joined(s, t)[l].id => k = l
           /\ \A i \in DOMAIN (s \o t) : \E k \in DOMAIN Joined(s, t) : Joined(s, t)[k].id = (s \o t)[i].id
<1> DEFINE all == s \o t
           key == [i \in DOMAIN all |-> all[i].id]
           at == {i \in DOMAIN all : i <= Len(s) \/ \A j \in 1 .. i - 1 : all[j].id # all[i].id}
           r == Joined(s, t)
<1>1. /\ IsList(all) /\ Len(s) \in Nat /\ Len(all) \in Nat /\ DOMAIN all = 1 .. Len(all) /\ DOMAIN s = 1 .. Len(s)
      /\ Len(s) <= Len(all) /\ \A i \in DOMAIN s : all[i] = s[i]
  BY JoinedLists, ListIs
<1>2. r = Picked(all, at)
  BY DEF Joined, Extended
<1> HIDE DEF all
<1>3. \A i \in DOMAIN all : key[i] = all[i].id /\ \A j \in 1 .. i - 1 : j \in DOMAIN all
  BY <1>1
<1>4. at = NewIn(all, Len(s), key)
  <2> HIDE DEF key
  <2> QED
    BY <1>1, <1>3 DEF NewIn
<1> HIDE DEF at, r, key
<1>5. /\ IsList(r)
      /\ \A k \in DOMAIN r : r[k] \in ToSet(s) \cup ToSet(t)
      /\ \E h : Extending(s, all, key, r, h)
  BY <1>2, <1>4, ExtendedList DEF all
<1>6. ASSUME \A i, j \in DOMAIN s : s[i].id = s[j].id => i = j
      PROVE  \A k, l \in DOMAIN r : r[k].id = r[l].id => k = l
  <2>1. \A i \in DOMAIN s : i \in DOMAIN all /\ key[i] = s[i].id
    BY <1>1, <1>3
  <2>2. \A i, j \in DOMAIN s : key[i] = key[j] => i = j
    BY <1>6, <2>1
  <2>3. PICK h : /\ \A k \in DOMAIN r : h[k] \in DOMAIN all /\ r[k] = all[h[k]]
                 /\ \A k, l \in DOMAIN r : key[h[k]] = key[h[l]] => k = l
    BY <1>5, <2>2 DEF Extending
  <2> QED
    BY <1>3, <2>3
<1>7. ASSUME NEW i \in DOMAIN all PROVE \E k \in DOMAIN r : r[k].id = all[i].id
  <2>1. PICK h : /\ \A k \in DOMAIN r : h[k] \in DOMAIN all /\ r[k] = all[h[k]]
                 /\ \A j \in DOMAIN all : \E k \in DOMAIN r : key[h[k]] = key[j]
    BY <1>5 DEF Extending
  <2>2. PICK k \in DOMAIN r : key[h[k]] = key[i]
    BY <2>1
  <2> QED
    BY <1>3, <2>1, <2>2
<1> QED
  BY <1>5, <1>6, <1>7 DEF r, all
\* The definitions found for the first names.
FindsBest(d, names, kinds, files, most, n, f) ==
    f = [i \in 0 .. n |-> IF i = 0 THEN <<>> ELSE WithBest(d, names[i], kinds, files, most, f[i - 1])]

LEMMA FindsBestExists ==
    ASSUME NEW d, NEW names, NEW kinds, NEW files, NEW most, NEW m \in Nat
    PROVE  \E f : FindsBest(d, names, kinds, files, most, m, f)
<1> DEFINE K == {n \in Nat : \E f : FindsBest(d, names, kinds, files, most, n, f)}
<1>1. 0 \in K
  <2> DEFINE f == [i \in 0 .. 0 |-> <<>>]
  <2>1. FindsBest(d, names, kinds, files, most, 0, f)
    BY DEF FindsBest
  <2> QED
    BY <2>1
<1>2. ASSUME NEW n \in Nat, n \in K PROVE n + 1 \in K
  <2>1. PICK f : FindsBest(d, names, kinds, files, most, n, f)
    BY <1>2
  <2> DEFINE x == WithBest(d, names[n + 1], kinds, files, most, f[n])
             g == [i \in 0 .. n + 1 |-> IF i = n + 1 THEN x ELSE f[i]]
             h == [i \in 0 .. n + 1 |-> IF i = 0 THEN <<>> ELSE WithBest(d, names[i], kinds, files, most, g[i - 1])]
  <2>2. \A i \in 0 .. n : f[i] = IF i = 0 THEN <<>> ELSE WithBest(d, names[i], kinds, files, most, f[i - 1])
    BY <2>1 DEF FindsBest
  <2>3. ASSUME NEW i \in 0 .. n + 1 PROVE g[i] = h[i]
    <3>1. CASE i = n + 1
      <4>1. i # 0 /\ i - 1 = n /\ i - 1 \in 0 .. n + 1 /\ i - 1 # n + 1
        BY <3>1
      <4>2. g[i] = x /\ g[i - 1] = f[n]
        BY <3>1, <4>1
      <4> QED
        BY <3>1, <4>1, <4>2
    <3>2. CASE i # n + 1
      <4>1. i \in 0 .. n
        BY <3>2
      <4>2. i # 0 => i - 1 \in 0 .. n + 1 /\ i - 1 # n + 1
        BY <4>1
      <4>3. g[i] = f[i] /\ (i # 0 => g[i - 1] = f[i - 1])
        BY <3>2, <4>2
      <4> HIDE DEF g
      <4> QED
        BY <2>2, <4>1, <4>3
    <3> QED
      BY <3>1, <3>2
  <2>4. g = h
    <3>1. g = [i \in 0 .. n + 1 |-> g[i]] /\ h = [i \in 0 .. n + 1 |-> h[i]]
      OBVIOUS
    <3> HIDE DEF g, h
    <3> QED
      BY <2>3, <3>1
  <2> HIDE DEF g
  <2>5. FindsBest(d, names, kinds, files, most, n + 1, g)
    BY <2>4 DEF FindsBest
  <2> QED
    BY <2>5
<1> HIDE DEF K
<1>3. \A n \in Nat : n \in K
  BY <1>1, <1>2, SetInduction
<1> QED
  BY <1>3 DEF K

\* The seeds of the first tokens.
Seeds(d, q, n, f) ==
    f = [i \in 0 .. n |-> IF i = 0 THEN <<>> ELSE Seeded(d, q, f[i - 1], q.symbols[i])]

LEMMA SeedsExists ==
    ASSUME NEW d, NEW q, NEW m \in Nat
    PROVE  \E f : Seeds(d, q, m, f)
<1> DEFINE K == {n \in Nat : \E f : Seeds(d, q, n, f)}
<1>1. 0 \in K
  <2> DEFINE f == [i \in 0 .. 0 |-> <<>>]
  <2>1. Seeds(d, q, 0, f)
    BY DEF Seeds
  <2> QED
    BY <2>1
<1>2. ASSUME NEW n \in Nat, n \in K PROVE n + 1 \in K
  <2>1. PICK f : Seeds(d, q, n, f)
    BY <1>2
  <2> DEFINE x == Seeded(d, q, f[n], q.symbols[n + 1])
             g == [i \in 0 .. n + 1 |-> IF i = n + 1 THEN x ELSE f[i]]
             h == [i \in 0 .. n + 1 |-> IF i = 0 THEN <<>> ELSE Seeded(d, q, g[i - 1], q.symbols[i])]
  <2>2. \A i \in 0 .. n : f[i] = IF i = 0 THEN <<>> ELSE Seeded(d, q, f[i - 1], q.symbols[i])
    BY <2>1 DEF Seeds
  <2>3. ASSUME NEW i \in 0 .. n + 1 PROVE g[i] = h[i]
    <3>1. CASE i = n + 1
      <4>1. i # 0 /\ i - 1 = n /\ i - 1 \in 0 .. n + 1 /\ i - 1 # n + 1
        BY <3>1
      <4>2. g[i] = x /\ g[i - 1] = f[n]
        BY <3>1, <4>1
      <4> QED
        BY <3>1, <4>1, <4>2
    <3>2. CASE i # n + 1
      <4>1. i \in 0 .. n
        BY <3>2
      <4>2. i # 0 => i - 1 \in 0 .. n + 1 /\ i - 1 # n + 1
        BY <4>1
      <4>3. g[i] = f[i] /\ (i # 0 => g[i - 1] = f[i - 1])
        BY <3>2, <4>2
      <4> HIDE DEF g
      <4> QED
        BY <2>2, <4>1, <4>3
    <3> QED
      BY <3>1, <3>2
  <2>4. g = h
    <3>1. g = [i \in 0 .. n + 1 |-> g[i]] /\ h = [i \in 0 .. n + 1 |-> h[i]]
      OBVIOUS
    <3> HIDE DEF g, h
    <3> QED
      BY <2>3, <3>1
  <2> HIDE DEF g
  <2>5. Seeds(d, q, n + 1, g)
    BY <2>4 DEF Seeds
  <2> QED
    BY <2>5
<1> HIDE DEF K
<1>3. \A n \in Nat : n \in K
  BY <1>1, <1>2, SetInduction
<1> QED
  BY <1>3 DEF K

\* The types found for the first symbols.
JoinsPrefixed(q, start, n, f) ==
    f = [i \in 0 .. n |-> IF i = 0 THEN start ELSE Joined(f[i - 1], Prefixed(q, q.symbols[i]))]

LEMMA JoinsPrefixedExists ==
    ASSUME NEW q, NEW start, NEW m \in Nat
    PROVE  \E f : JoinsPrefixed(q, start, m, f)
<1> DEFINE K == {n \in Nat : \E f : JoinsPrefixed(q, start, n, f)}
<1>1. 0 \in K
  <2> DEFINE f == [i \in 0 .. 0 |-> start]
  <2>1. JoinsPrefixed(q, start, 0, f)
    BY DEF JoinsPrefixed
  <2> QED
    BY <2>1
<1>2. ASSUME NEW n \in Nat, n \in K PROVE n + 1 \in K
  <2>1. PICK f : JoinsPrefixed(q, start, n, f)
    BY <1>2
  <2> DEFINE x == Joined(f[n], Prefixed(q, q.symbols[n + 1]))
             g == [i \in 0 .. n + 1 |-> IF i = n + 1 THEN x ELSE f[i]]
             h == [i \in 0 .. n + 1 |-> IF i = 0 THEN start ELSE Joined(g[i - 1], Prefixed(q, q.symbols[i]))]
  <2>2. \A i \in 0 .. n : f[i] = IF i = 0 THEN start ELSE Joined(f[i - 1], Prefixed(q, q.symbols[i]))
    BY <2>1 DEF JoinsPrefixed
  <2>3. ASSUME NEW i \in 0 .. n + 1 PROVE g[i] = h[i]
    <3>1. CASE i = n + 1
      <4>1. i # 0 /\ i - 1 = n /\ i - 1 \in 0 .. n + 1 /\ i - 1 # n + 1
        BY <3>1
      <4>2. g[i] = x /\ g[i - 1] = f[n]
        BY <3>1, <4>1
      <4> QED
        BY <3>1, <4>1, <4>2
    <3>2. CASE i # n + 1
      <4>1. i \in 0 .. n
        BY <3>2
      <4>2. i # 0 => i - 1 \in 0 .. n + 1 /\ i - 1 # n + 1
        BY <4>1
      <4>3. g[i] = f[i] /\ (i # 0 => g[i - 1] = f[i - 1])
        BY <3>2, <4>2
      <4> HIDE DEF g
      <4> QED
        BY <2>2, <4>1, <4>3
    <3> QED
      BY <3>1, <3>2
  <2>4. g = h
    <3>1. g = [i \in 0 .. n + 1 |-> g[i]] /\ h = [i \in 0 .. n + 1 |-> h[i]]
      OBVIOUS
    <3> HIDE DEF g, h
    <3> QED
      BY <2>3, <3>1
  <2> HIDE DEF g
  <2>5. JoinsPrefixed(q, start, n + 1, g)
    BY <2>4 DEF JoinsPrefixed
  <2> QED
    BY <2>5
<1> HIDE DEF K
<1>3. \A n \in Nat : n \in K
  BY <1>1, <1>2, SetInduction
<1> QED
  BY <1>3 DEF K

\* The edges followed first, up and around.
Climbs(start, n, f) ==
    f = [i \in 0 .. n |-> IF i = 0 THEN start ELSE Climbed(f[i - 1])]

LEMMA ClimbsExists ==
    ASSUME NEW start, NEW m \in Nat
    PROVE  \E f : Climbs(start, m, f)
<1> DEFINE K == {n \in Nat : \E f : Climbs(start, n, f)}
<1>1. 0 \in K
  <2> DEFINE f == [i \in 0 .. 0 |-> start]
  <2>1. Climbs(start, 0, f)
    BY DEF Climbs
  <2> QED
    BY <2>1
<1>2. ASSUME NEW n \in Nat, n \in K PROVE n + 1 \in K
  <2>1. PICK f : Climbs(start, n, f)
    BY <1>2
  <2> DEFINE x == Climbed(f[n])
             g == [i \in 0 .. n + 1 |-> IF i = n + 1 THEN x ELSE f[i]]
             h == [i \in 0 .. n + 1 |-> IF i = 0 THEN start ELSE Climbed(g[i - 1])]
  <2>2. \A i \in 0 .. n : f[i] = IF i = 0 THEN start ELSE Climbed(f[i - 1])
    BY <2>1 DEF Climbs
  <2>3. ASSUME NEW i \in 0 .. n + 1 PROVE g[i] = h[i]
    <3>1. CASE i = n + 1
      <4>1. i # 0 /\ i - 1 = n /\ i - 1 \in 0 .. n + 1 /\ i - 1 # n + 1
        BY <3>1
      <4>2. g[i] = x /\ g[i - 1] = f[n]
        BY <3>1, <4>1
      <4> QED
        BY <3>1, <4>1, <4>2
    <3>2. CASE i # n + 1
      <4>1. i \in 0 .. n
        BY <3>2
      <4>2. i # 0 => i - 1 \in 0 .. n + 1 /\ i - 1 # n + 1
        BY <4>1
      <4>3. g[i] = f[i] /\ (i # 0 => g[i - 1] = f[i - 1])
        BY <3>2, <4>2
      <4> HIDE DEF g
      <4> QED
        BY <2>2, <4>1, <4>3
    <3> QED
      BY <3>1, <3>2
  <2>4. g = h
    <3>1. g = [i \in 0 .. n + 1 |-> g[i]] /\ h = [i \in 0 .. n + 1 |-> h[i]]
      OBVIOUS
    <3> HIDE DEF g, h
    <3> QED
      BY <2>3, <3>1
  <2> HIDE DEF g
  <2>5. Climbs(start, n + 1, g)
    BY <2>4 DEF Climbs
  <2> QED
    BY <2>5
<1> HIDE DEF K
<1>3. \A n \in Nat : n \in K
  BY <1>1, <1>2, SetInduction
<1> QED
  BY <1>3 DEF K

Spreads(q, limit, start, n, f) ==
    f = [i \in 0 .. n |-> IF i = 0 THEN start ELSE Spread(q, limit, f[i - 1])]

LEMMA SpreadsExists ==
    ASSUME NEW q, NEW limit, NEW start, NEW m \in Nat
    PROVE  \E f : Spreads(q, limit, start, m, f)
<1> DEFINE K == {n \in Nat : \E f : Spreads(q, limit, start, n, f)}
<1>1. 0 \in K
  <2> DEFINE f == [i \in 0 .. 0 |-> start]
  <2>1. Spreads(q, limit, start, 0, f)
    BY DEF Spreads
  <2> QED
    BY <2>1
<1>2. ASSUME NEW n \in Nat, n \in K PROVE n + 1 \in K
  <2>1. PICK f : Spreads(q, limit, start, n, f)
    BY <1>2
  <2> DEFINE x == Spread(q, limit, f[n])
             g == [i \in 0 .. n + 1 |-> IF i = n + 1 THEN x ELSE f[i]]
             h == [i \in 0 .. n + 1 |-> IF i = 0 THEN start ELSE Spread(q, limit, g[i - 1])]
  <2>2. \A i \in 0 .. n : f[i] = IF i = 0 THEN start ELSE Spread(q, limit, f[i - 1])
    BY <2>1 DEF Spreads
  <2>3. ASSUME NEW i \in 0 .. n + 1 PROVE g[i] = h[i]
    <3>1. CASE i = n + 1
      <4>1. i # 0 /\ i - 1 = n /\ i - 1 \in 0 .. n + 1 /\ i - 1 # n + 1
        BY <3>1
      <4>2. g[i] = x /\ g[i - 1] = f[n]
        BY <3>1, <4>1
      <4> QED
        BY <3>1, <4>1, <4>2
    <3>2. CASE i # n + 1
      <4>1. i \in 0 .. n
        BY <3>2
      <4>2. i # 0 => i - 1 \in 0 .. n + 1 /\ i - 1 # n + 1
        BY <4>1
      <4>3. g[i] = f[i] /\ (i # 0 => g[i - 1] = f[i - 1])
        BY <3>2, <4>2
      <4> HIDE DEF g
      <4> QED
        BY <2>2, <4>1, <4>3
    <3> QED
      BY <3>1, <3>2
  <2>4. g = h
    <3>1. g = [i \in 0 .. n + 1 |-> g[i]] /\ h = [i \in 0 .. n + 1 |-> h[i]]
      OBVIOUS
    <3> HIDE DEF g, h
    <3> QED
      BY <2>3, <3>1
  <2> HIDE DEF g
  <2>5. Spreads(q, limit, start, n + 1, g)
    BY <2>4 DEF Spreads
  <2> QED
    BY <2>5
<1> HIDE DEF K
<1>3. \A n \in Nat : n \in K
  BY <1>1, <1>2, SetInduction
<1> QED
  BY <1>3 DEF K
-----------------------------------------------------------------------------
(* The searches return lists. *)

LEMMA SortedList ==
    ASSUME NEW s, IsList(s)
    PROVE  IsList(Ranked(s)) /\ Len(Ranked(s)) = Len(s) /\ DOMAIN Ranked(s) = DOMAIN s
<1> DEFINE r == Ranked(s)
           n == Len(s)
<1>1. n \in Nat /\ DOMAIN s = 1 .. n
  BY ListIs
<1>2. r = [k \in 1 .. n |-> r[k]]
  BY <1>1 DEF Ranked, SortedBy
<1> HIDE DEF r, n
<1>3. IsList(r) /\ Len(r) = n /\ DOMAIN r = 1 .. n
  BY <1>1, <1>2, MappedIs
<1> QED
  BY <1>1, <1>3 DEF r, n

LEMMA ElseList ==
    ASSUME NEW s, NEW t, IsList(s), IsList(t)
    PROVE  IsList(Else(s, t))
BY DEF Else

LEMMA KindsList ==
    ASSUME NEW d, NEW ids, NEW kinds, IsList(ids)
    PROVE  IsList(OfKinds(d, ids, kinds))
<1> DEFINE at == Sites(ids, LAMBDA id : kinds = {} \/ d.of[id].kind \in kinds)
<1>1. OfKinds(d, ids, kinds) = Picked(ids, at)
  BY DEF OfKinds, Where
<1> HIDE DEF at
<1> QED
  BY <1>1, PickedList

LEMMA NamedList ==
    ASSUME NEW d, NEW name, IsList(d.rows)
    PROVE  IsList(Named(d, name))
<1> DEFINE at == Sites(d.rows, LAMBDA id : d.of[id].name = name)
<1>1. Named(d, name) = Picked(d.rows, at)
  BY DEF Named, Where
<1> HIDE DEF at
<1> QED
  BY <1>1, PickedList

LEMMA MatchingList ==
    ASSUME NEW d, NEW scores, NEW kinds, NEW limit \in Nat, IsList(d.rows)
    PROVE  IsList(Matching(d, scores, kinds, limit))
<1> DEFINE ids == OfKinds(d, d.rows, kinds)
           at == Sites(ids, LAMBDA id : scores[id] > 0)
           found == Picked(ids, at)
           n == Len(found)
           s == [i \in DOMAIN found |-> Result(found[i], scores[found[i]])]
<1>1. Matching(d, scores, kinds, limit) = Take(Ranked(s), limit)
  BY DEF Matching, Where, Scored
<1>2. IsList(ids)
  BY KindsList
<1> HIDE DEF ids, at
<1>3. IsList(found) /\ n \in Nat /\ DOMAIN found = 1 .. n
  BY <1>2, PickedList, ListIs
<1> HIDE DEF found, n
<1>4. s = [i \in 1 .. n |-> s[i]]
  BY <1>3
<1> HIDE DEF s
<1>5. IsList(s)
  BY <1>3, <1>4, MappedIs
<1> QED
  BY <1>1, <1>5, SortedList, TakeIs

LEMMA AtLeastFiftyIs ==
    ASSUME NEW n \in Nat
    PROVE  AtLeastFifty(n) \in Nat /\ n <= AtLeastFifty(n)
<1>1. n \in Int /\ 50 \in Int
  OBVIOUS
<1>2. Max({n, 50}) = IF n >= 50 THEN n ELSE 50
  BY <1>1, TwoOf
<1> QED
  BY <1>2 DEF AtLeastFifty

LEMMA FuzzyList ==
    ASSUME NEW d, NEW near, NEW kinds, NEW limit \in Nat, IsList(d.rows), IsList(near)
    PROVE  IsList(Fuzzy(d, near, kinds, limit))
<1> DEFINE sorted == SortedBy(near, LAMBDA c, e : c.distance < e.distance)
           closest == Take(sorted, AtLeastFifty(2 * limit))
           Few(c) == Take(OfKinds(d, Named(d, c.name), kinds), 5)
           HitsOf(c) == [i \in DOMAIN Few(c) |-> Result(Few(c)[i], 10 \div (1 + c.distance))]
           all == [i \in DOMAIN closest |-> HitsOf(closest[i])]
           n == Len(closest)
<1>1. Fuzzy(d, near, kinds, limit) = Take(FlattenSeq(all), limit)
  BY DEF Fuzzy, Scored
<1>2. IsList(sorted)
  <2> DEFINE m == Len(near)
  <2>1. m \in Nat
    BY ListIs
  <2>2. sorted = [k \in 1 .. m |-> sorted[k]]
    BY <2>1 DEF SortedBy
  <2> HIDE DEF sorted, m
  <2> QED
    BY <2>1, <2>2, MappedIs
<1> HIDE DEF sorted
<1>3. IsList(closest) /\ n \in Nat /\ DOMAIN closest = 1 .. n
  <2> DEFINE m == 2 * limit
             t == AtLeastFifty(m)
  <2>2. m \in Nat
    OBVIOUS
  <2> HIDE DEF m
  <2>3. t \in Nat
    BY <2>2, AtLeastFiftyIs
  <2> HIDE DEF t
  <2>4. IsList(Take(sorted, t))
    BY <1>2, <2>3, TakeIs
  <2>1. IsList(closest)
    BY <2>4 DEF t, m
  <2> QED
    BY <2>1, ListIs
<1>4. ASSUME NEW c PROVE IsList(HitsOf(c))
  <2>1. IsList(Few(c))
    BY NamedList, KindsList, TakeIs
  <2> DEFINE m == Len(Few(c))
             s == HitsOf(c)
  <2>2. m \in Nat /\ DOMAIN Few(c) = 1 .. m
    BY <2>1, ListIs
  <2> HIDE DEF Few, m
  <2>3. s = [i \in 1 .. m |-> s[i]]
    BY <2>2
  <2> HIDE DEF s
  <2>4. IsList(s)
    BY <2>2, <2>3, MappedIs
  <2> QED
    BY <2>4 DEF s
<1> HIDE DEF closest, HitsOf, n
<1>5. all = [i \in 1 .. n |-> all[i]] /\ \A i \in 1 .. n : IsList(all[i])
  BY <1>3, <1>4
<1> HIDE DEF all
<1>6. IsList(all) /\ \A i \in DOMAIN all : IsList(all[i])
  BY <1>3, <1>5, MappedIs
<1>7. IsList(FlattenSeq(all))
  BY <1>6, FlattenList
<1> QED
  BY <1>1, <1>7, TakeIs

LEMMA WithNamedList ==
    ASSUME NEW d, NEW term, NEW found, IsList(d.rows), IsList(found)
    PROVE  IsList(WithNamed(d, term, found))
<1> DEFINE at == Sites(Named(d, term), LAMBDA id : id \notin IdsOf(found))
           more == Picked(Named(d, term), at)
           n == Len(more)
           s == [i \in DOMAIN more |-> Result(more[i], Max({found[j].score : j \in DOMAIN found}))]
<1>1. WithNamed(d, term, found) = IF found = <<>> THEN <<>> ELSE found \o s
  BY DEF WithNamed, Where, Scored
<1>2. IsList(Named(d, term))
  BY NamedList
<1> HIDE DEF at
<1>3. IsList(more) /\ n \in Nat /\ DOMAIN more = 1 .. n
  BY <1>2, PickedList, ListIs
<1> HIDE DEF more, n
<1>4. s = [i \in 1 .. n |-> s[i]]
  BY <1>3
<1> HIDE DEF s
<1>5. IsList(s)
  BY <1>3, <1>4, MappedIs
<1> QED
  BY <1>1, <1>5, JoinedLists, EmptyList

LEMMA SearchNodesList ==
    ASSUME NEW d, NEW term, NEW kinds, NEW limit \in Nat, IsList(d.rows), IsList(d.near[term])
    PROVE  IsList(SearchNodes(d, term, kinds, limit))
<1> DEFINE found == WithNamed(d, term, Strategies(d, term, kinds, limit))
           n == Len(found)
           s == [i \in DOMAIN found |-> [found[i] EXCEPT !.score = @ + d.bonus[found[i].id]]]
<1>1. SearchNodes(d, term, kinds, limit) = Take(Ranked(s), limit)
  BY DEF SearchNodes
<1>2. IsList(Strategies(d, term, kinds, limit))
  BY MatchingList, FuzzyList, ElseList DEF Strategies
<1>3. IsList(found) /\ n \in Nat /\ DOMAIN found = 1 .. n
  BY <1>2, WithNamedList, ListIs
<1> HIDE DEF found, n
<1>4. s = [i \in 1 .. n |-> s[i]]
  BY <1>3
<1> HIDE DEF s
<1>5. IsList(s)
  BY <1>3, <1>4, MappedIs
<1> QED
  BY <1>1, <1>5, SortedList, TakeIs

LEMMA BestList ==
    ASSUME NEW d, NEW name, NEW kinds, NEW files, NEW most \in Nat, NEW found, IsList(d.rows), IsList(found)
    PROVE  IsList(WithBest(d, name, kinds, files, most, found))
<1> DEFINE ids == Take(OfKinds(d, Named(d, name), kinds), AtLeastFifty(3 * most))
           at == Sites(ids, LAMBDA id : id \notin IdsOf(found))
           fresh == Picked(ids, at)
           n == Len(fresh)
           s == [i \in DOMAIN fresh |-> Result(fresh[i], IF d.of[fresh[i]].file \in files THEN 210 ELSE 10)]
<1>1. WithBest(d, name, kinds, files, most, found) = found \o Take(Ranked(s), most)
  BY DEF WithBest, Where, Scored
<1>2. IsList(ids)
  <2> DEFINE m == 3 * most
             t == AtLeastFifty(m)
             all == OfKinds(d, Named(d, name), kinds)
  <2>1. m \in Nat
    OBVIOUS
  <2> HIDE DEF m
  <2>2. t \in Nat
    BY <2>1, AtLeastFiftyIs
  <2> HIDE DEF t
  <2>3. IsList(all)
    BY NamedList, KindsList
  <2> HIDE DEF all
  <2>4. IsList(Take(all, t))
    BY <2>2, <2>3, TakeIs
  <2> QED
    BY <2>4 DEF all, t, m
<1> HIDE DEF ids, at
<1>3. IsList(fresh) /\ n \in Nat /\ DOMAIN fresh = 1 .. n
  BY <1>2, PickedList, ListIs
<1> HIDE DEF fresh, n
<1>4. s = [i \in 1 .. n |-> s[i]]
  BY <1>3
<1> HIDE DEF s
<1>5. IsList(s)
  BY <1>3, <1>4, MappedIs
<1> QED
  BY <1>1, <1>5, SortedList, TakeIs, JoinedLists

LEMMA ExactNameList ==
    ASSUME NEW d, NEW names, NEW kinds, NEW limit \in Nat, IsList(d.rows), IsList(names)
    PROVE  IsList(FindByExactName(d, names, kinds, limit))
<1> DEFINE few == {s \in {FilesOfName(d, names[i], kinds) : i \in DOMAIN names} : Cardinality(s) < Distinctive}
           files == UNION few
           n == Len(names)
           most == Max({PerName, limit \div n})
           f == CHOOSE f : f = [i \in 0 .. n |-> IF i = 0 THEN <<>>
                                                ELSE WithBest(d, names[i], kinds, files, most, f[i - 1])]
<1>1. FindByExactName(d, names, kinds, limit) = IF names = <<>> THEN <<>> ELSE Take(Ranked(f[n]), limit)
  BY DEF FindByExactName
<1>2. n \in Nat /\ DOMAIN names = 1 .. n /\ (names # <<>> => n # 0)
  <2>1. names \in Seq(ToSet(names)) /\ n \in Nat /\ DOMAIN names = 1 .. n
    BY ListIs
  <2> HIDE DEF n
  <2> QED
    BY <2>1 DEF n
<1> SUFFICES ASSUME names # <<>> PROVE IsList(FindByExactName(d, names, kinds, limit))
  BY <1>1, EmptyList
<1> HIDE DEF few, n
<1>3. most \in Nat
  <2>1. PerName \in Nat /\ limit \div n \in Nat
    BY <1>2, SearchAssumption
  <2>2. PerName \in Int /\ limit \div n \in Int
    BY <2>1
  <2> HIDE DEF n
  <2> QED
    BY <2>1, <2>2, TwoOf
<1> HIDE DEF most, files
<1>4. FindsBest(d, names, kinds, files, most, n, f)
  <2>1. \E g : g = [i \in 0 .. n |-> IF i = 0 THEN <<>> ELSE WithBest(d, names[i], kinds, files, most, g[i - 1])]
    BY <1>2, FindsBestExists DEF FindsBest
  <2>2. f = [i \in 0 .. n |-> IF i = 0 THEN <<>> ELSE WithBest(d, names[i], kinds, files, most, f[i - 1])]
    BY <2>1
  <2> HIDE DEF f
  <2> QED
    BY <2>2 DEF FindsBest
<1> HIDE DEF f
<1>5. \A i \in 0 .. n : f[i] = IF i = 0 THEN <<>> ELSE WithBest(d, names[i], kinds, files, most, f[i - 1])
  BY <1>4 DEF FindsBest
<1> DEFINE K == {i \in Nat : i \in 0 .. n => IsList(f[i])}
<1>6. 0 \in K
  BY <1>2, <1>5, EmptyList
<1>7. ASSUME NEW i \in Nat, i \in K PROVE i + 1 \in K
  <2> SUFFICES ASSUME i + 1 \in 0 .. n PROVE IsList(f[i + 1])
    OBVIOUS
  <2>1. i \in 0 .. n /\ i + 1 # 0 /\ (i + 1) - 1 = i
    BY <1>2
  <2>2. IsList(f[i])
    BY <1>7, <2>1
  <2>3. f[i + 1] = WithBest(d, names[i + 1], kinds, files, most, f[i])
    BY <1>5, <2>1
  <2> QED
    BY <1>3, <2>2, <2>3, BestList
<1> HIDE DEF K
<1>8. \A i \in Nat : i \in K
  BY <1>6, <1>7, SetInduction
<1>9. IsList(f[n])
  <2>1. n \in 0 .. n /\ n \in K
    BY <1>2, <1>8
  <2> QED
    BY <2>1 DEF K
<1> QED
  BY <1>1, <1>9, SortedList, TakeIs
LEMMA CoLocatedList ==
    ASSUME NEW results, IsList(results)
    PROVE  IsList(CoLocated(results))
<1> DEFINE Names(file) == {db.of[id].name : id \in {i \in IdsOf(results) : db.of[i].file = file}}
           n == Len(results)
           s == [i \in DOMAIN results |->
                    [results[i] EXCEPT !.score = @ + 200 * (Cardinality(Names(db.of[results[i].id].file)) - 1)]]
<1>1. CoLocated(results) = Ranked(s)
  BY DEF CoLocated
<1>2. n \in Nat /\ DOMAIN results = 1 .. n
  BY ListIs
<1> HIDE DEF n, Names
<1>3. s = [i \in 1 .. n |-> s[i]]
  BY <1>2
<1> HIDE DEF s
<1>4. IsList(s)
  BY <1>2, <1>3, MappedIs
<1> QED
  BY <1>1, <1>4, SortedList

LEMMA PrefixedList ==
    ASSUME NEW q, NEW symbol, IsList(db.rows), q.search_limit \in Nat
    PROVE  IsList(Prefixed(q, symbol))
<1> DEFINE results == Matching(db, db.prefix[symbol], DefinitionKind, 30)
           n == Len(results)
           s == [i \in DOMAIN results |-> [results[i] EXCEPT !.score = @ + 160]]
<1>1. Prefixed(q, symbol) = Take(s, q.search_limit)
  BY DEF Prefixed
<1>2. n \in Nat /\ DOMAIN results = 1 .. n
  BY MatchingList, ListIs
<1> HIDE DEF n, results
<1>3. s = [i \in 1 .. n |-> s[i]]
  BY <1>2
<1> HIDE DEF s
<1>4. IsList(s)
  BY <1>2, <1>3, MappedIs
<1> QED
  BY <1>1, <1>4, TakeIs

LEMMA ExactList ==
    ASSUME NEW q, IsList(db.rows), IsList(q.symbols), q.search_limit \in Nat
    PROVE  IsList(ExactMatches(q))
<1> DEFINE exact == CoLocated(FindByExactName(db, q.symbols, q.kinds, 100))
           start == Take(exact, Max({2 * q.search_limit, 1}))
           n == Len(q.symbols)
           f == CHOOSE f : f = [i \in 0 .. n |-> IF i = 0 THEN start ELSE Joined(f[i - 1], Prefixed(q, q.symbols[i]))]
<1>1. ExactMatches(q) = Take(Ranked(f[n]), 3 * q.search_limit)
  BY DEF ExactMatches
<1>2. n \in Nat
  BY ListIs
<1>3. IsList(start)
  <2>1. IsList(exact)
    BY ExactNameList, CoLocatedList
  <2> DEFINE a == 2 * q.search_limit
             b == 1
  <2>2. a \in Nat /\ a \in Int /\ b \in Nat /\ b \in Int
    OBVIOUS
  <2>3. Max({a, b}) \in Nat
    <3> HIDE DEF a, b
    <3> QED
      BY <2>2, TwoOf
  <2> HIDE DEF exact
  <2> QED
    BY <2>1, <2>3, TakeIs
<1> HIDE DEF start, n
<1>4. JoinsPrefixed(q, start, n, f)
  <2>1. \E g : g = [i \in 0 .. n |-> IF i = 0 THEN start ELSE Joined(g[i - 1], Prefixed(q, q.symbols[i]))]
    <3>1. \E g : JoinsPrefixed(q, start, n, g)
      BY <1>2, JoinsPrefixedExists
    <3> QED
      BY <3>1, Zenon DEF JoinsPrefixed
  <2>2. f = [i \in 0 .. n |-> IF i = 0 THEN start ELSE Joined(f[i - 1], Prefixed(q, q.symbols[i]))]
    BY <2>1
  <2> HIDE DEF f
  <2> QED
    BY <2>2 DEF JoinsPrefixed
<1> HIDE DEF f
<1>5. \A i \in 0 .. n : f[i] = IF i = 0 THEN start ELSE Joined(f[i - 1], Prefixed(q, q.symbols[i]))
  BY <1>4 DEF JoinsPrefixed
<1> DEFINE K == {i \in Nat : i \in 0 .. n => IsList(f[i])}
<1>6. 0 \in K
  BY <1>2, <1>3, <1>5
<1>7. ASSUME NEW i \in Nat, i \in K PROVE i + 1 \in K
  <2> SUFFICES ASSUME i + 1 \in 0 .. n PROVE IsList(f[i + 1])
    OBVIOUS
  <2>1. i \in 0 .. n /\ i + 1 # 0 /\ (i + 1) - 1 = i
    BY <1>2
  <2>2. IsList(f[i])
    BY <1>7, <2>1
  <2>3. f[i + 1] = Joined(f[i], Prefixed(q, q.symbols[i + 1]))
    BY <1>5, <2>1
  <2>4. IsList(Prefixed(q, q.symbols[i + 1]))
    BY PrefixedList
  <2> QED
    BY <2>2, <2>3, <2>4, JoinedIs
<1> HIDE DEF K
<1>8. \A i \in Nat : i \in K
  BY <1>6, <1>7, SetInduction
<1>9. IsList(f[n])
  <2>1. n \in 0 .. n /\ n \in K
    BY <1>2, <1>8
  <2> QED
    BY <2>1 DEF K
<1>10. IsList(Ranked(f[n])) /\ 3 * q.search_limit \in Nat
  BY <1>9, SortedList
<1> QED
  BY <1>1, <1>10, TakeIs

LEMMA CombinedList ==
    ASSUME NEW answers, IsList(answers), \A i \in DOMAIN answers : IsList(answers[i])
    PROVE  IsList(Combined(answers))
<1> DEFINE all == Joined(<<>>, FlattenSeq(answers))
           n == Len(all)
           r == Combined(answers)
<1>1. r = [k \in DOMAIN all |-> r[k]]
  BY DEF Combined
<1>2. IsList(FlattenSeq(answers))
  BY FlattenList
<1>3. n \in Nat /\ DOMAIN all = 1 .. n
  BY <1>2, EmptyList, JoinedIs, ListIs
<1> HIDE DEF all, n, r
<1>4. r = [k \in 1 .. n |-> r[k]]
  BY <1>1, <1>3
<1>5. IsList(r)
  BY <1>3, <1>4, MappedIs
<1> QED
  BY <1>5 DEF r

LEMMA TextList ==
    ASSUME NEW q, IsList(db.rows), IsList(q.terms), q.search_limit \in Nat,
           \A i \in DOMAIN q.terms : IsList(db.near[q.terms[i]])
    PROVE  IsList(TextResults(q))
<1> DEFINE s == [i \in DOMAIN q.terms |-> SearchNodes(db, q.terms[i], TextKinds(q), 2 * q.search_limit)]
           n == Len(q.terms)
<1>1. TextResults(q) = Take(Ranked(Combined(s)), 2 * q.search_limit)
  BY DEF TextResults
<1>2. n \in Nat /\ DOMAIN q.terms = 1 .. n /\ 2 * q.search_limit \in Nat
  BY ListIs
<1> HIDE DEF n
<1>3. ASSUME NEW i \in 1 .. n PROVE IsList(SearchNodes(db, q.terms[i], TextKinds(q), 2 * q.search_limit))
  BY <1>2, SearchNodesList
<1>4. s = [i \in 1 .. n |-> s[i]] /\ \A i \in 1 .. n : IsList(s[i])
  BY <1>2, <1>3
<1> HIDE DEF s
<1>5. IsList(s) /\ \A i \in DOMAIN s : IsList(s[i])
  BY <1>2, <1>4, MappedIs
<1>6. IsList(Combined(s))
  BY <1>5, CombinedList
<1> QED
  BY <1>1, <1>2, <1>6, SortedList, TakeIs

LEMMA MergedList ==
    ASSUME NEW q, NEW exact, NEW text, IsList(exact), IsList(text), q.search_limit \in Nat
    PROVE  IsList(Merged(q, exact, text))
<1> DEFINE Best(id) == Max({r.score : r \in {s \in ToSet(exact) \cup ToSet(text) : s.id = id}})
           Weighed(r) == Result(r.id, IF ~q.testQuery /\ db.of[r.id].file \in TestFile
                                      THEN (3 * Best(r.id)) \div 10 ELSE Best(r.id))
           both == Joined(exact, text)
           n == Len(both)
           all == [i \in DOMAIN both |-> Weighed(both[i])]
           most == Take(Ranked(all), 3 * q.search_limit)
           at == Sites(most, LAMBDA r : r.score >= q.min_score)
<1>1. Merged(q, exact, text) = Picked(most, at)
  BY DEF Merged, Where
<1>2. IsList(both) /\ n \in Nat /\ DOMAIN both = 1 .. n
  BY JoinedIs, ListIs
<1> HIDE DEF Weighed, both, n, at
<1>3. all = [i \in 1 .. n |-> all[i]]
  BY <1>2
<1> HIDE DEF all
<1>4. IsList(Ranked(all)) /\ 3 * q.search_limit \in Nat
  BY <1>2, <1>3, MappedIs, SortedList
<1>5. IsList(most)
  BY <1>4, TakeIs
<1> HIDE DEF most
<1> QED
  BY <1>1, <1>5, PickedList

LEMMA ScoredFixed ==
    ASSUME NEW ids, NEW score, IsList(ids)
    PROVE  LET s == [i \in DOMAIN ids |-> Result(ids[i], score)]
           IN  IsList(s) /\ Len(s) = Len(ids) /\ DOMAIN s = DOMAIN ids
<1> DEFINE n == Len(ids)
           s == [i \in DOMAIN ids |-> Result(ids[i], score)]
<1>1. n \in Nat /\ DOMAIN ids = 1 .. n
  BY ListIs
<1> HIDE DEF n
<1>2. s = [i \in 1 .. n |-> s[i]]
  BY <1>1
<1> HIDE DEF s
<1>3. IsList(s) /\ Len(s) = n /\ DOMAIN s = 1 .. n
  BY <1>1, <1>2, MappedIs
<1> QED
  BY <1>1, <1>3 DEF s, n

LEMMA CandidatesList ==
    ASSUME NEW d, NEW q, NEW token, IsList(d.rows)
    PROVE  IsList(Candidates(d, q, token))
<1> DEFINE results == FindByExactName(d, <<token>>, CallableKind, Max({10, 2 * MaxSeeds}))
           Weight(id) == d.of[id].size - (IF d.of[id].file \in TestFile THEN 1000 ELSE 0)
           n == Len(results)
           s == [i \in DOMAIN results |-> Result(results[i].id, Weight(results[i].id))]
           ranked == Ranked(s)
           ids == [i \in DOMAIN ranked |-> ranked[i].id]
           at == Sites(ids, LAMBDA id : d.of[id].file \notin TestFile)
<1>1. Candidates(d, q, token) = IF q.testQuery THEN ids ELSE Picked(ids, at)
  BY DEF Candidates, Substantive, Production, Where
<1>2. IsList(results)
  <2>1. MaxSeeds \in Nat
    BY SearchAssumption
  <2> DEFINE a == 2 * MaxSeeds
             b == 10
  <2>2. a \in Nat /\ a \in Int /\ b \in Nat /\ b \in Int
    BY <2>1
  <2>3. Max({b, a}) \in Nat
    <3> HIDE DEF a, b
    <3> QED
      BY <2>2, TwoOf
  <2>4. <<token>> \in Seq({token})
    OBVIOUS
  <2>5. IsList(<<token>>)
    BY <2>4, ListOf
  <2> QED
    BY <2>3, <2>5, ExactNameList
<1>3. n \in Nat /\ DOMAIN results = 1 .. n
  BY <1>2, ListIs
<1> HIDE DEF results, Weight, n, at
<1>4. s = [i \in 1 .. n |-> s[i]]
  BY <1>3
<1> HIDE DEF s
<1>5. DOMAIN ranked = 1 .. n
  BY <1>3, <1>4, MappedIs, SortedList
<1> HIDE DEF ranked
<1>6. ids = [i \in 1 .. n |-> ids[i]]
  BY <1>5
<1> HIDE DEF ids
<1>7. IsList(ids)
  BY <1>3, <1>6, MappedIs
<1> QED
  BY <1>1, <1>7, PickedList

LEMMA PicksList ==
    ASSUME NEW d, NEW q, NEW ids, IsList(ids)
    PROVE  IsList(Picks(d, q, ids))
<1> DEFINE at == Sites(ids, LAMBDA id : q.types \cap {d.of[id].name, d.of[id].file, d.of[id].owner} # {})
           few == Else(Take(Picked(ids, at), 4), Take(ids, 1))
<1>1. Picks(d, q, ids) = IF Len(ids) <= 3 THEN [i \in DOMAIN ids |-> Result(ids[i], SpecificBoost)]
                         ELSE [i \in DOMAIN few |-> Result(few[i], GenericBoost)]
  BY DEF Picks, Scored, InNamedContext, Where
<1> HIDE DEF at
<1>2. IsList(few)
  BY PickedList, TakeIs, ElseList
<1> HIDE DEF few
<1> QED
  BY <1>1, <1>2, ScoredFixed

LEMMA SeededList ==
    ASSUME NEW d, NEW q, NEW found, NEW token, IsList(d.rows), IsList(found)
    PROVE  IsList(Seeded(d, q, found, token))
<1>1. IsList(Picks(d, q, Candidates(d, q, token)))
  BY CandidatesList, PicksList
<1> HIDE DEF Picks, Candidates
<1>2. IsList(Joined(found, Picks(d, q, Candidates(d, q, token))))
  BY <1>1, JoinedIs
<1> QED
  BY <1>2 DEF Seeded, Joined

LEMMA SeedsList ==
    ASSUME NEW d, NEW q, IsList(d.rows), IsList(q.symbols)
    PROVE  IsList(SeedNamedSymbols(d, q))
<1> DEFINE n == Len(q.symbols)
           f == CHOOSE f : f = [i \in 0 .. n |-> IF i = 0 THEN <<>> ELSE Seeded(d, q, f[i - 1], q.symbols[i])]
<1>1. SeedNamedSymbols(d, q) = f[n]
  BY DEF SeedNamedSymbols
<1>2. n \in Nat
  BY ListIs
<1> HIDE DEF n
<1>4. Seeds(d, q, n, f)
  <2>1. \E g : g = [i \in 0 .. n |-> IF i = 0 THEN <<>> ELSE Seeded(d, q, g[i - 1], q.symbols[i])]
    <3>1. \E g : Seeds(d, q, n, g)
      BY <1>2, SeedsExists
    <3> QED
      BY <3>1, Zenon DEF Seeds
  <2>2. f = [i \in 0 .. n |-> IF i = 0 THEN <<>> ELSE Seeded(d, q, f[i - 1], q.symbols[i])]
    BY <2>1
  <2> HIDE DEF f
  <2> QED
    BY <2>2 DEF Seeds
<1> HIDE DEF f
<1>5. \A i \in 0 .. n : f[i] = IF i = 0 THEN <<>> ELSE Seeded(d, q, f[i - 1], q.symbols[i])
  BY <1>4 DEF Seeds
<1> DEFINE K == {i \in Nat : i \in 0 .. n => IsList(f[i])}
<1>6. 0 \in K
  BY <1>2, <1>5, EmptyList
<1>7. ASSUME NEW i \in Nat, i \in K PROVE i + 1 \in K
  <2> SUFFICES ASSUME i + 1 \in 0 .. n PROVE IsList(f[i + 1])
    OBVIOUS
  <2>1. i \in 0 .. n /\ i + 1 # 0 /\ (i + 1) - 1 = i
    BY <1>2
  <2>2. IsList(f[i])
    BY <1>7, <2>1
  <2>3. f[i + 1] = Seeded(d, q, f[i], q.symbols[i + 1])
    BY <1>5, <2>1
  <2> QED
    BY <2>2, <2>3, SeededList
<1> HIDE DEF K
<1>8. \A i \in Nat : i \in K
  BY <1>6, <1>7, SetInduction
<1>9. IsList(f[n])
  <2>1. n \in 0 .. n /\ n \in K
    BY <1>2, <1>8
  <2> QED
    BY <2>1 DEF K
<1> QED
  BY <1>1, <1>9
-----------------------------------------------------------------------------
(* The walks return lists. *)

LEMMA OneList ==
    ASSUME NEW x
    PROVE  IsList(<<x>>)
<1>1. <<x>> \in Seq({x})
  OBVIOUS
<1> QED
  BY <1>1, ListOf

LEMMA EndsOf ==
    ASSUME NEW s, IsList(s), s # <<>>
    PROVE  /\ IsList(Tail(s)) /\ Len(Tail(s)) = Len(s) - 1 /\ Len(s) > 0
           /\ 1 \in DOMAIN s /\ Head(s) = s[1]
           /\ \A i \in DOMAIN Tail(s) : i + 1 \in DOMAIN s /\ Tail(s)[i] = s[i + 1]
<1>1. PICK S : s \in Seq(S)
  BY ListIs
<1>2. Len(s) > 0 /\ Len(s) \in Nat /\ DOMAIN s = 1 .. Len(s)
  BY <1>1
<1>3. /\ Tail(s) \in Seq(S) /\ Len(Tail(s)) = Len(s) - 1 /\ Head(s) = s[1]
      /\ \A i \in 1 .. Len(s) - 1 : Tail(s)[i] = s[i + 1]
  BY <1>1, <1>2
<1>4. IsList(Tail(s)) /\ DOMAIN Tail(s) = 1 .. Len(s) - 1
  BY <1>3, ListOf
<1>5. 1 \in DOMAIN s /\ \A i \in 1 .. Len(s) - 1 : i + 1 \in DOMAIN s
  BY <1>2
<1> QED
  BY <1>2, <1>3, <1>4, <1>5

LEMMA AppendedList ==
    ASSUME NEW s, NEW x, IsList(s)
    PROVE  IsList(Append(s, x))
<1> DEFINE S == ToSet(s) \cup {x}
<1>1. s \in Seq(ToSet(s)) /\ ToSet(s) \subseteq S /\ x \in S
  BY ListIs
<1> HIDE DEF S
<1>2. s \in Seq(S)
  BY <1>1, SeqMore
<1>3. Append(s, x) \in Seq(S)
  BY <1>1, <1>2
<1> QED
  BY <1>3, ListOf

LEMMA OutgoingList ==
    ASSUME NEW id, NEW kinds, IsList(db.edges)
    PROVE  /\ IsList(Outgoing(id, kinds))
           /\ \A i \in DOMAIN Outgoing(id, kinds) :
                 \E j \in DOMAIN db.edges : /\ Outgoing(id, kinds)[i] = db.edges[j]
                                            /\ db.edges[j].source = id /\ db.edges[j].kind \in kinds
<1> DEFINE at == Sites(db.edges, LAMBDA e : e.source = id /\ e.kind \in kinds)
<1>1. Outgoing(id, kinds) = Picked(db.edges, at)
  BY DEF Outgoing, Where
<1>2. \A j \in DOMAIN db.edges \cap at : db.edges[j].source = id /\ db.edges[j].kind \in kinds
  BY DEF Sites
<1> HIDE DEF at
<1>3. IsList(Picked(db.edges, at))
      /\ \A k \in DOMAIN Picked(db.edges, at) : \E i \in DOMAIN db.edges \cap at : Picked(db.edges, at)[k] = db.edges[i]
  BY PickedList
<1> QED
  BY <1>1, <1>2, <1>3

\* A walk has lists of nodes, edges and of what is left to do.
Walking(s) ==
    /\ s = Visited(s.nodes, s.edges, s.todo, s.seen)
    /\ IsList(s.nodes) /\ IsList(s.edges) /\ IsList(s.todo)

LEMMA ClimbedWalks ==
    ASSUME IsList(db.edges), NEW s, Walking(s)
    PROVE  Walking(Climbed(s))
<1> DEFINE e == Head(s.todo)
           r == Climbed(s)
<1>1. /\ s = [nodes |-> s.nodes, edges |-> s.edges, todo |-> s.todo, seen |-> s.seen]
      /\ IsList(s.nodes) /\ IsList(s.edges) /\ IsList(s.todo)
  BY DEF Walking, Visited
<1>2. CASE s.todo = <<>>
  <2>1. r = s
    BY <1>2 DEF Climbed
  <2> QED
    BY <2>1
<1>3. CASE s.todo # <<>> /\ e.target \in ToSet(db.rows) \ ToSet(s.nodes)
  <2>1. r = Visited(Append(s.nodes, e.target), Append(s.edges, e), Up(e.target) \o Tail(s.todo), {})
    BY <1>3 DEF Climbed
  <2>2. IsList(Append(s.nodes, e.target)) /\ IsList(Append(s.edges, e))
    BY <1>1, AppendedList
  <2>3. IsList(Up(e.target) \o Tail(s.todo))
    BY <1>1, <1>3, OutgoingList, EndsOf, JoinedLists DEF Up
  <2> QED
    BY <2>1, <2>2, <2>3 DEF Walking, Visited
<1>4. CASE s.todo # <<>> /\ e.target \notin ToSet(db.rows) \ ToSet(s.nodes)
  <2>1. r = [s EXCEPT !.todo = Tail(s.todo)]
    BY <1>4 DEF Climbed
  <2>2. IsList(Tail(s.todo))
    BY <1>1, <1>4, EndsOf
  <2>3. r = Visited(s.nodes, s.edges, Tail(s.todo), s.seen)
    BY <1>1, <2>1 DEF Visited
  <2> QED
    BY <1>1, <2>2, <2>3 DEF Walking, Visited
<1> QED
  BY <1>2, <1>3, <1>4

LEMMA HierarchyLists ==
    ASSUME IsList(db.edges), NEW id
    PROVE  IsList(Hierarchy(id).nodes) /\ IsList(Hierarchy(id).edges)
<1> DEFINE start == Visited(<<id>>, <<>>, Up(id), {})
           n == Len(db.edges) + 1
           f == CHOOSE f : f = [i \in 0 .. n |-> IF i = 0 THEN start ELSE Climbed(f[i - 1])]
<1>1. Hierarchy(id) = IF id \in ToSet(db.rows) THEN f[n] ELSE Visited(<<>>, <<>>, <<>>, {})
  BY DEF Hierarchy
<1>2. n \in Nat
  BY ListIs
<1>3. Walking(start)
  <2>1. IsList(<<id>>)
    BY OneList
  <2>2. IsList(Up(id))
    BY OutgoingList DEF Up
  <2> QED
    BY <2>1, <2>2, EmptyList DEF Walking, Visited
<1> HIDE DEF start, n
<1>4. \A i \in 0 .. n : f[i] = IF i = 0 THEN start ELSE Climbed(f[i - 1])
  <2>1. \E g : g = [i \in 0 .. n |-> IF i = 0 THEN start ELSE Climbed(g[i - 1])]
    <3>1. \E g : Climbs(start, n, g)
      BY <1>2, ClimbsExists
    <3> QED
      BY <3>1, Zenon DEF Climbs
  <2>2. f = [i \in 0 .. n |-> IF i = 0 THEN start ELSE Climbed(f[i - 1])]
    BY <2>1
  <2> HIDE DEF f
  <2> QED
    BY <2>2
<1> HIDE DEF f
<1> DEFINE K == {i \in Nat : i \in 0 .. n => Walking(f[i])}
<1>6. 0 \in K
  BY <1>2, <1>3, <1>4
<1>7. ASSUME NEW i \in Nat, i \in K PROVE i + 1 \in K
  <2> SUFFICES ASSUME i + 1 \in 0 .. n PROVE Walking(f[i + 1])
    OBVIOUS
  <2>1. i \in 0 .. n /\ i + 1 # 0 /\ (i + 1) - 1 = i
    BY <1>2
  <2>2. Walking(f[i])
    BY <1>7, <2>1
  <2>3. f[i + 1] = Climbed(f[i])
    BY <1>4, <2>1
  <2> QED
    BY <2>2, <2>3, ClimbedWalks
<1> HIDE DEF K
<1>8. \A i \in Nat : i \in K
  BY <1>6, <1>7, SetInduction
<1>9. Walking(f[n])
  <2>1. n \in 0 .. n /\ n \in K
    BY <1>2, <1>8
  <2> QED
    BY <2>1 DEF K
<1>10. IsList(f[n].nodes) /\ IsList(f[n].edges)
  BY <1>9 DEF Walking
<1> QED
  BY <1>1, <1>10, EmptyList DEF Visited

\* The queue of the other walk has lists of edges.
Spreading(s) ==
    /\ Walking(s)
    /\ \A i \in DOMAIN s.todo : IsList(s.todo[i].via)

LEMMA EntriesAre ==
    ASSUME IsList(db.edges), NEW q, NEW n, NEW seen, NEW depth
    PROVE  /\ IsList(Entries(q, n, seen, depth))
           /\ \A i \in DOMAIN Entries(q, n, seen, depth) : IsList(Entries(q, n, seen, depth)[i].via)
<1> DEFINE from == Sites(db.edges, LAMBDA e : e.source = n)
           into == Sites(db.edges, LAMBDA e : e.target = n)
           both == Picked(db.edges, from) \o Picked(db.edges, into)
           Leads(e) == /\ e.kind \in q.edge_kinds
                       /\ Other(e, n) \in ToSet(db.rows) \ seen
                       /\ q.kinds = {} \/ db.of[Other(e, n)].kind \in q.kinds
           on == Sites(both, Leads)
           es == Picked(both, on)
           a == Sites(es, LAMBDA e : e.kind = "contains")
           b == Sites(es, LAMBDA e : e.kind = "calls")
           c == Sites(es, LAMBDA e : e.kind \notin {"contains", "calls"})
           all == Picked(es, a) \o Picked(es, b) \o Picked(es, c)
           m == Len(all)
           r == [i \in DOMAIN all |-> [at |-> Other(all[i], n), via |-> <<all[i]>>, depth |-> depth]]
<1>1. Entries(q, n, seen, depth) = r
  BY DEF Entries, Prioritized, Where
<1>2. IsList(both)
  <2> HIDE DEF from, into
  <2> QED
    BY PickedList, JoinedLists
<1>3. IsList(es)
  <2> HIDE DEF both, on
  <2> QED
    BY <1>2, PickedList
<1>4. IsList(all)
  <2> HIDE DEF es, a, b, c
  <2> QED
    BY <1>3, PickedList, JoinedLists
<1> HIDE DEF all
<1>5. m \in Nat /\ DOMAIN all = 1 .. m
  BY <1>4, ListIs
<1> HIDE DEF m
<1>6. r = [i \in 1 .. m |-> r[i]] /\ \A i \in 1 .. m : r[i].via = <<all[i]>>
  BY <1>5
<1> HIDE DEF r
<1>7. IsList(r) /\ DOMAIN r = 1 .. m
  BY <1>5, <1>6, MappedIs
<1>8. ASSUME NEW x PROVE IsList(<<x>>)
  BY OneList
<1> QED
  BY <1>1, <1>6, <1>7, <1>8

LEMMA SpreadWalks ==
    ASSUME IsList(db.edges), NEW q, NEW limit, NEW s, Spreading(s)
    PROVE  Spreading(Spread(q, limit, s))
<1> DEFINE t == Head(s.todo)
           more == IF t.depth >= q.depth THEN <<>> ELSE Entries(q, t.at, s.seen \cup {t.at}, t.depth + 1)
           ids == [i \in DOMAIN more |-> more[i].at]
           m == Len(more)
           full == Cardinality(ToSet(s.nodes)) >= limit
           r == Spread(q, limit, s)
<1>1. /\ s = [nodes |-> s.nodes, edges |-> s.edges, todo |-> s.todo, seen |-> s.seen]
      /\ IsList(s.nodes) /\ IsList(s.edges) /\ IsList(s.todo)
      /\ \A i \in DOMAIN s.todo : IsList(s.todo[i].via)
  BY DEF Spreading, Walking, Visited
<1>2. r = IF s.todo = <<>> \/ full THEN s
          ELSE IF t.at \in s.seen THEN [s EXCEPT !.todo = Tail(s.todo)]
          ELSE Visited(s.nodes \o ids, s.edges \o t.via, Tail(s.todo) \o more, s.seen \cup {t.at})
  BY DEF Spread
<1>3. CASE s.todo = <<>> \/ full
  BY <1>2, <1>3
<1>4. CASE ~ (s.todo = <<>> \/ full)
  <2>1. /\ IsList(Tail(s.todo)) /\ 1 \in DOMAIN s.todo /\ t = s.todo[1]
        /\ \A i \in DOMAIN Tail(s.todo) : i + 1 \in DOMAIN s.todo /\ Tail(s.todo)[i] = s.todo[i + 1]
    BY <1>1, <1>4, EndsOf
  <2>2. IsList(t.via) /\ \A i \in DOMAIN Tail(s.todo) : IsList(Tail(s.todo)[i].via)
    BY <1>1, <2>1
  <2>3. CASE t.at \in s.seen
    <3>1. r = [s EXCEPT !.todo = Tail(s.todo)]
      BY <1>2, <1>4, <2>3
    <3>2. r = Visited(s.nodes, s.edges, Tail(s.todo), s.seen)
      BY <1>1, <3>1 DEF Visited
    <3> QED
      BY <1>1, <2>1, <2>2, <3>2 DEF Spreading, Walking, Visited
  <2>4. CASE t.at \notin s.seen
    <3>1. r = Visited(s.nodes \o ids, s.edges \o t.via, Tail(s.todo) \o more, s.seen \cup {t.at})
      BY <1>2, <1>4, <2>4
    <3>2. IsList(more) /\ m \in Nat /\ DOMAIN more = 1 .. m /\ \A i \in DOMAIN more : IsList(more[i].via)
      BY EntriesAre, EmptyList, ListIs
    <3> HIDE DEF more, t, m
    <3>3. ids = [i \in 1 .. m |-> ids[i]]
      BY <3>2
    <3> HIDE DEF ids
    <3>4. IsList(ids)
      BY <3>2, <3>3, MappedIs
    <3>5. IsList(s.nodes \o ids) /\ IsList(s.edges \o t.via)
      BY <1>1, <2>2, <3>4, JoinedLists
    <3> DEFINE old == Tail(s.todo)
               new == old \o more
    <3>6. /\ IsList(new) /\ Len(new) = Len(old) + m
          /\ \A i \in 1 .. Len(old) : new[i] = old[i]
          /\ \A i \in 1 .. m : new[Len(old) + i] = more[i]
      BY <2>1, <3>2, JoinedLists DEF m
    <3>7. DOMAIN new = 1 .. Len(new) /\ Len(old) \in Nat /\ DOMAIN old = 1 .. Len(old)
      BY <2>1, <3>6, ListIs
    <3>8. \A i \in DOMAIN old : IsList(old[i].via)
      BY <2>2
    <3> HIDE DEF old, new
    <3>9. ASSUME NEW i \in DOMAIN new PROVE IsList(new[i].via)
      <4>1. CASE i <= Len(old)
        BY <3>6, <3>7, <3>8, <4>1
      <4>2. CASE i > Len(old)
        <5>1. i - Len(old) \in 1 .. m /\ Len(old) + (i - Len(old)) = i
          BY <3>2, <3>6, <3>7, <4>2
        <5> QED
          BY <3>2, <3>6, <5>1
      <4> QED
        BY <3>7, <4>1, <4>2
    <3> DEFINE ns == s.nodes \o ids
               es == s.edges \o t.via
               seen == s.seen \cup {t.at}
    <3>10. r = Visited(ns, es, new, seen)
      BY <3>1 DEF new, old
    <3> HIDE DEF ns, es, seen
    <3>11. r.nodes = ns /\ r.edges = es /\ r.todo = new /\ r.seen = seen
      BY <3>10 DEF Visited
    <3> QED
      BY <3>5, <3>6, <3>9, <3>10, <3>11 DEF Spreading, Walking, ns, es
  <2> QED
    BY <2>3, <2>4
<1> QED
  BY <1>3, <1>4

LEMMA NeighboursLists ==
    ASSUME IsList(db.edges), NEW id, NEW q, NEW limit
    PROVE  IsList(Neighbours(id, q, limit).nodes) /\ IsList(Neighbours(id, q, limit).edges)
<1> DEFINE start == Visited(<<id>>, <<>>, <<[at |-> id, via |-> <<>>, depth |-> 0]>>, {})
           n == 2 * Len(db.edges) + 1
           f == CHOOSE f : f = [i \in 0 .. n |-> IF i = 0 THEN start ELSE Spread(q, limit, f[i - 1])]
<1>1. Neighbours(id, q, limit) = IF id \in ToSet(db.rows) THEN f[n] ELSE Visited(<<>>, <<>>, <<>>, {})
  BY DEF Neighbours
<1>2. n \in Nat
  BY ListIs
<1>3. Spreading(start)
  <2>1. ASSUME NEW x PROVE IsList(<<x>>)
    BY OneList
  <2> DEFINE x == [at |-> id, via |-> <<>>, depth |-> 0]
  <2>2. IsList(x.via)
    BY EmptyList
  <2> HIDE DEF x
  <2>3. \A i \in DOMAIN <<x>> : <<x>>[i] = x
    OBVIOUS
  <2>4. /\ start.nodes = <<id>> /\ start.edges = <<>> /\ start.todo = <<x>> /\ start.seen = {}
        /\ start = Visited(<<id>>, <<>>, <<x>>, {})
    BY DEF Visited, x
  <2> HIDE DEF start
  <2> QED
    BY <2>1, <2>2, <2>3, <2>4, EmptyList DEF Spreading, Walking
<1> HIDE DEF start, n
<1>4. \A i \in 0 .. n : f[i] = IF i = 0 THEN start ELSE Spread(q, limit, f[i - 1])
  <2>1. \E g : g = [i \in 0 .. n |-> IF i = 0 THEN start ELSE Spread(q, limit, g[i - 1])]
    <3>1. \E g : Spreads(q, limit, start, n, g)
      BY <1>2, SpreadsExists
    <3> QED
      BY <3>1, Zenon DEF Spreads
  <2>2. f = [i \in 0 .. n |-> IF i = 0 THEN start ELSE Spread(q, limit, f[i - 1])]
    BY <2>1
  <2> HIDE DEF f
  <2> QED
    BY <2>2
<1> HIDE DEF f
<1> DEFINE K == {i \in Nat : i \in 0 .. n => Spreading(f[i])}
<1>6. 0 \in K
  BY <1>2, <1>3, <1>4
<1>7. ASSUME NEW i \in Nat, i \in K PROVE i + 1 \in K
  <2> SUFFICES ASSUME i + 1 \in 0 .. n PROVE Spreading(f[i + 1])
    OBVIOUS
  <2>1. i \in 0 .. n /\ i + 1 # 0 /\ (i + 1) - 1 = i
    BY <1>2
  <2>2. Spreading(f[i])
    BY <1>7, <2>1
  <2>3. f[i + 1] = Spread(q, limit, f[i])
    BY <1>4, <2>1
  <2> QED
    BY <2>2, <2>3, SpreadWalks
<1> HIDE DEF K
<1>8. \A i \in Nat : i \in K
  BY <1>6, <1>7, SetInduction
<1>9. Spreading(f[n])
  <2>1. n \in 0 .. n /\ n \in K
    BY <1>2, <1>8
  <2> QED
    BY <2>1 DEF K
<1>10. IsList(f[n].nodes) /\ IsList(f[n].edges)
  BY <1>9 DEF Spreading, Walking
<1> QED
  BY <1>1, <1>10, EmptyList DEF Visited
-----------------------------------------------------------------------------
(* What the passes add to the answer. *)

LEMMA AddedOnce ==
    ASSUME NEW s, NEW t, IsList(s), IsList(t), NEW r, r = Extended(s, t, LAMBDA n : n)
    PROVE  /\ IsList(r)
           /\ ToSet(s) \subseteq ToSet(r)
           /\ IsInjective(s) => IsInjective(r)
<1> DEFINE all == s \o t
           key == [i \in DOMAIN all |-> all[i]]
           at == {i \in DOMAIN all : i <= Len(s) \/ \A j \in 1 .. i - 1 : all[j] # all[i]}
<1>1. /\ IsList(all) /\ Len(s) \in Nat /\ Len(all) \in Nat /\ DOMAIN all = 1 .. Len(all) /\ DOMAIN s = 1 .. Len(s)
      /\ Len(s) <= Len(all) /\ \A i \in DOMAIN s : all[i] = s[i]
  BY JoinedLists, ListIs
<1>2. r = Picked(all, at)
  BY DEF Extended
<1> HIDE DEF all
<1>3. \A i \in DOMAIN all : key[i] = all[i] /\ \A j \in 1 .. i - 1 : j \in DOMAIN all
  BY <1>1
<1>4. at = NewIn(all, Len(s), key)
  <2> HIDE DEF key
  <2> QED
    BY <1>1, <1>3 DEF NewIn
<1> HIDE DEF at, key
<1>5. /\ IsList(r) /\ ToSet(s) \subseteq ToSet(r)
      /\ \E h : Extending(s, all, key, r, h)
  BY <1>2, <1>4, ExtendedList DEF all
<1>6. ASSUME IsInjective(s) PROVE IsInjective(r)
  <2>1. \A i \in DOMAIN s : i \in DOMAIN all /\ key[i] = s[i]
    BY <1>1, <1>3
  <2>2. \A i, j \in DOMAIN s : key[i] = key[j] => i = j
    BY <1>6, <2>1 DEF IsInjective
  <2>3. PICK h : /\ \A k \in DOMAIN r : h[k] \in DOMAIN all /\ r[k] = all[h[k]]
                 /\ \A k, l \in DOMAIN r : key[h[k]] = key[h[l]] => k = l
    BY <1>5, <2>2 DEF Extending
  <2> QED
    BY <1>3, <2>3 DEF IsInjective
<1> QED
  BY <1>5, <1>6

LEMMA NodesAdded ==
    ASSUME IsList(nodes), NEW t, IsList(t)
    PROVE  /\ IsList(AddNodes(t))
           /\ ToSet(nodes) \subseteq ToSet(AddNodes(t))
           /\ IsInjective(nodes) => IsInjective(AddNodes(t))
BY AddedOnce DEF AddNodes

\* No two edges say the same.
Once(es) == \A i, j \in DOMAIN es : Key(es[i]) = Key(es[j]) => i = j

Keys(es) == {Key(es[i]) : i \in DOMAIN es}

LEMMA EdgesAdded ==
    ASSUME NEW s, NEW t, IsList(s), IsList(t)
    PROVE  /\ IsList(WithEdges(s, t))
           /\ \A k \in DOMAIN WithEdges(s, t) : WithEdges(s, t)[k] \in ToSet(s) \cup ToSet(t)
           /\ \A e \in ToSet(s) \cup ToSet(t) : Key(e) \in Keys(WithEdges(s, t))
           /\ Once(s) => Once(WithEdges(s, t))
<1> DEFINE all == s \o t
           key == [i \in DOMAIN all |-> Key(all[i])]
           at == {i \in DOMAIN all : i <= Len(s) \/ \A j \in 1 .. i - 1 : Key(all[j]) # Key(all[i])}
           r == WithEdges(s, t)
<1>1. /\ IsList(all) /\ Len(s) \in Nat /\ Len(t) \in Nat /\ Len(all) = Len(s) + Len(t)
      /\ DOMAIN all = 1 .. Len(all) /\ DOMAIN s = 1 .. Len(s) /\ DOMAIN t = 1 .. Len(t)
      /\ \A i \in DOMAIN s : all[i] = s[i]
      /\ \A i \in DOMAIN t : all[Len(s) + i] = t[i]
  BY JoinedLists, ListIs
<1>2. r = Picked(all, at)
  BY DEF WithEdges, Extended
<1> HIDE DEF all
<1>3. \A i \in DOMAIN all : key[i] = Key(all[i]) /\ \A j \in 1 .. i - 1 : j \in DOMAIN all
  BY <1>1
<1>4. at = NewIn(all, Len(s), key)
  <2> HIDE DEF key
  <2> QED
    BY <1>1, <1>3 DEF NewIn
<1> HIDE DEF at, r, key
<1>5. /\ IsList(r)
      /\ \A k \in DOMAIN r : r[k] \in ToSet(s) \cup ToSet(t)
      /\ \E h : Extending(s, all, key, r, h)
  BY <1>2, <1>4, ExtendedList DEF all
<1>6. PICK h : /\ \A k \in DOMAIN r : h[k] \in DOMAIN all /\ r[k] = all[h[k]]
               /\ \A i \in DOMAIN all : \E k \in DOMAIN r : key[h[k]] = key[i]
               /\ (\A i, j \in DOMAIN s : key[i] = key[j] => i = j)
                     => \A k, l \in DOMAIN r : key[h[k]] = key[h[l]] => k = l
  BY <1>5 DEF Extending
<1>7. \A i \in DOMAIN s : i \in DOMAIN all /\ key[i] = Key(s[i])
  BY <1>1, <1>3
<1>8. \A i \in DOMAIN t : Len(s) + i \in DOMAIN all /\ key[Len(s) + i] = Key(t[i])
  BY <1>1, <1>3
<1>9. \A i \in DOMAIN all : key[i] \in Keys(r)
  <2>1. ASSUME NEW i \in DOMAIN all PROVE key[i] \in Keys(r)
    <3>1. PICK k \in DOMAIN r : key[h[k]] = key[i]
      BY <1>6
    <3>2. key[i] = Key(r[k])
      BY <1>3, <1>6, <3>1
    <3> QED
      BY <3>2 DEF Keys
  <2> QED
    BY <2>1
<1>10. \A e \in ToSet(s) \cup ToSet(t) : Key(e) \in Keys(r)
  <2>1. \A i \in DOMAIN s : Key(s[i]) \in Keys(r)
    BY <1>7, <1>9
  <2>2. \A i \in DOMAIN t : Key(t[i]) \in Keys(r)
    BY <1>8, <1>9
  <2> HIDE DEF Key
  <2> QED
    BY <2>1, <2>2 DEF ToSet
<1>11. ASSUME Once(s) PROVE Once(r)
  <2>1. \A i, j \in DOMAIN s : key[i] = key[j] => i = j
    BY <1>7, <1>11 DEF Once
  <2>2. \A k, l \in DOMAIN r : key[h[k]] = key[h[l]] => k = l
    BY <1>6, <2>1
  <2> QED
    BY <1>3, <1>6, <2>2 DEF Once
<1> QED
  BY <1>5, <1>10, <1>11 DEF r

LEMMA AmongIs ==
    ASSUME NEW es, IsList(es), NEW ns
    PROVE  /\ IsList(Among(es, ns))
           /\ \A i \in DOMAIN Among(es, ns) : /\ {Among(es, ns)[i].source, Among(es, ns)[i].target} \subseteq ns
                                              /\ \E j \in DOMAIN es : Among(es, ns)[i] = es[j]
           /\ Once(es) => Once(Among(es, ns))
<1> DEFINE at == Sites(es, LAMBDA e : e.source \in ns /\ e.target \in ns)
           r == Among(es, ns)
           n == Len(es)
           m == Len(r)
<1>1. r = Picked(es, at)
  BY DEF Among, Where
<1>2. /\ es \in Seq(ToSet(es)) /\ n \in Nat /\ DOMAIN es = 1 .. n
  BY ListIs
<1>3. \A i \in DOMAIN es \cap at : es[i].source \in ns /\ es[i].target \in ns
  BY DEF Sites
<1>4. PICK h : PickedBy(es, at, r, h)
  BY <1>1, <1>2, PickedIs
<1>5. IsList(r) /\ m \in Nat /\ DOMAIN r = 1 .. m
  BY <1>1, PickedList, ListIs
<1> HIDE DEF at, r, n
<1>6. /\ \A k \in 1 .. m : h[k] \in DOMAIN es \cap at /\ r[k] = es[h[k]]
      /\ \A j, k \in 1 .. m : j < k => h[j] < h[k]
  BY <1>4 DEF PickedBy
<1> HIDE DEF m
<1>7. \A i \in DOMAIN r : r[i].source \in ns /\ r[i].target \in ns /\ \E j \in DOMAIN es : r[i] = es[j]
  BY <1>3, <1>5, <1>6
<1>8. ASSUME Once(es), NEW j \in DOMAIN r, NEW k \in DOMAIN r, Key(r[j]) = Key(r[k]) PROVE j = k
  <2>1. h[j] \in DOMAIN es /\ h[k] \in DOMAIN es /\ r[j] = es[h[j]] /\ r[k] = es[h[k]]
    BY <1>5, <1>6
  <2>2. h[j] = h[k]
    BY <1>8, <2>1 DEF Once
  <2>3. h[j] \in 1 .. n /\ h[k] \in 1 .. n /\ j \in 1 .. m /\ k \in 1 .. m
    BY <1>2, <1>5, <2>1
  <2> QED
    BY <1>2, <1>5, <1>6, <2>2, <2>3
<1> QED
  BY <1>5, <1>7, <1>8 DEF r, Once

\* Fewer edges are fewer edges among the same nodes.
LEMMA AmongShrinks ==
    ASSUME NEW es, NEW fs, IsList(es), IsList(fs), ToSet(es) \subseteq ToSet(fs), NEW ns
    PROVE  ToSet(Among(es, ns)) \subseteq ToSet(Among(fs, ns))
<1> DEFINE at == Sites(fs, LAMBDA e : e.source \in ns /\ e.target \in ns)
           a == Among(es, ns)
           b == Among(fs, ns)
<1>1. b = Picked(fs, at)
  BY DEF Among, Where
<1>2. \A i \in DOMAIN fs : fs[i].source \in ns /\ fs[i].target \in ns => i \in at
  BY DEF Sites
<1> HIDE DEF at
<1>3. \A i \in DOMAIN fs \cap at : \E k \in DOMAIN b : b[k] = fs[i]
  BY <1>1, PickedList
<1>4. \A k \in DOMAIN a : {a[k].source, a[k].target} \subseteq ns /\ \E j \in DOMAIN es : a[k] = es[j]
  BY AmongIs
<1> HIDE DEF a, b
<1>5. ASSUME NEW x \in ToSet(a) PROVE x \in ToSet(b)
  <2>1. PICK k \in DOMAIN a : a[k] = x
    BY DEF ToSet
  <2>2. x.source \in ns /\ x.target \in ns /\ x \in ToSet(es)
    BY <1>4, <2>1 DEF ToSet
  <2>3. PICK i \in DOMAIN fs : fs[i] = x
    BY <2>2 DEF ToSet
  <2>4. \E l \in DOMAIN b : b[l] = x
    BY <1>2, <1>3, <2>2, <2>3
  <2> QED
    BY <2>4, Zenon DEF ToSet
<1> QED
  BY <1>5 DEF a, b

LEMMA MeantIs ==
    ASSUME Storable(db), NEW r
    PROVE  IsList(Meant(r)) /\ \A i \in DOMAIN Meant(r) : db.of[Meant(r)[i].id].kind \notin DOMAIN Passage
<1>1. IsList(db.edges)
  BY DEF Storable
<1>2. CASE db.of[r.id].kind \in DOMAIN Passage
  <2> DEFINE out == Outgoing(r.id, {Passage[db.of[r.id].kind]})
             at == Sites(out, LAMBDA e : e.target \in ToSet(db.rows))
             es == Picked(out, at)
             s == [i \in DOMAIN es |-> Result(es[i].target, r.score)]
  <2>1. Meant(r) = s
    BY <1>2 DEF Meant, Where
  <2>2. DOMAIN Passage = {"import", "export"} /\ Passage["import"] = "imports" /\ Passage["export"] = "exports"
    BY DEF Passage
  <2>3. Passage[db.of[r.id].kind] \in {"imports", "exports"}
    BY <1>2, <2>2
  <2>4. IsList(out) /\ \A i \in DOMAIN out : \E j \in DOMAIN db.edges : db.edges[j].source = r.id
                                                                      /\ db.edges[j].kind \in {"imports", "exports"}
    BY <1>1, <2>3, OutgoingList
  <2>5. \A j \in DOMAIN db.edges : db.edges[j].kind \in {"imports", "exports"}
                                     => db.of[db.edges[j].source].kind \notin {"import", "export"}
    BY DEF Storable, ToSet
  <2>6. DOMAIN out = {}
    BY <1>2, <2>2, <2>4, <2>5
  <2> HIDE DEF out, at
  <2>7. IsList(es) /\ DOMAIN es = {}
    BY <2>4, <2>6, PickedList
  <2>8. s = <<>>
    BY <2>7
  <2> QED
    BY <2>1, <2>8, EmptyList
<1>3. CASE db.of[r.id].kind \notin DOMAIN Passage
  <2>1. Meant(r) = <<r>>
    BY <1>3 DEF Meant
  <2>2. IsList(<<r>>) /\ \A i \in DOMAIN <<r>> : <<r>>[i] = r
    BY OneList
  <2> QED
    BY <1>3, <2>1, <2>2
<1> QED
  BY <1>2, <1>3

\* The hits after the imports are resolved.
LEMMA EntriesFound ==
    ASSUME Storable(db), IsList(hits), NEW limit \in Nat
    PROVE  LET all == Joined(<<>>, FlattenSeq([i \in DOMAIN hits |-> Meant(hits[i])]))
               r == Take(all, limit)
           IN  /\ IsList(r) /\ Len(r) <= limit
               /\ \A i, j \in DOMAIN r : r[i].id = r[j].id => i = j
               /\ \A i \in DOMAIN r : db.of[r[i].id].kind \notin DOMAIN Passage
<1> DEFINE s == [i \in DOMAIN hits |-> Meant(hits[i])]
           n == Len(hits)
           S == {r \in UNION {ToSet(Meant(hits[i])) : i \in DOMAIN hits} : db.of[r.id].kind \notin DOMAIN Passage}
           flat == FlattenSeq(s)
           all == Joined(<<>>, flat)
           r == Take(all, limit)
<1>1. n \in Nat /\ DOMAIN hits = 1 .. n
  BY ListIs
<1>2. ASSUME NEW i \in DOMAIN hits PROVE Meant(hits[i]) \in Seq(S)
  <2> DEFINE m == Meant(hits[i])
             k == Len(m)
  <2>1. IsList(m) /\ \A j \in DOMAIN m : db.of[m[j].id].kind \notin DOMAIN Passage
    BY MeantIs
  <2>2. k \in Nat /\ DOMAIN m = 1 .. k /\ m \in Seq(ToSet(m))
    BY <2>1, ListIs
  <2>3. \A j \in DOMAIN m : m[j] \in S
    BY <2>1 DEF ToSet
  <2>4. m = [j \in 1 .. k |-> m[j]]
    <3> HIDE DEF m
    <3> QED
      BY <2>2
  <2> HIDE DEF m, S, k
  <2>5. m \in [1 .. k -> S]
    BY <2>2, <2>3, <2>4
  <2>6. m \in Seq(S)
    BY <2>2, <2>5, IsSeq
  <2> QED
    BY <2>6 DEF m
<1>3. \A x \in S : db.of[x.id].kind \notin DOMAIN Passage
  OBVIOUS
<1> HIDE DEF S, n
<1>4. s \in [1 .. n -> Seq(S)]
  BY <1>1, <1>2
<1> HIDE DEF s
<1>5. s \in Seq(Seq(S))
  BY <1>1, <1>4, IsSeq
<1>6. flat \in Seq(S)
  BY <1>5, FlattenHas
<1> HIDE DEF flat
<1>7. IsList(flat) /\ \A i \in DOMAIN flat : flat[i] \in S
  BY <1>6, ListOf
<1>8. ToSet(<<>>) = {} /\ ToSet(flat) \subseteq S
  BY <1>7, EmptyList DEF ToSet
<1>9. /\ IsList(all)
      /\ \A k \in DOMAIN all : all[k] \in S
      /\ \A k, l \in DOMAIN all : all[k].id = all[l].id => k = l
  BY <1>7, <1>8, EmptyList, JoinedIs
<1> HIDE DEF all
<1>10. IsList(r) /\ Len(r) <= limit /\ \A i \in 1 .. Len(r) : i \in DOMAIN all /\ r[i] = all[i]
  BY <1>9, TakeIs, ListIs
<1>11. DOMAIN r = 1 .. Len(r)
  BY <1>10, ListIs
<1> HIDE DEF r
<1> QED
  BY <1>3, <1>9, <1>10, <1>11 DEF r, all, flat, s
-----------------------------------------------------------------------------
(* The nodes of a file. *)

LEMMA CapsAre ==
    ASSUME NEW q \in Questions
    PROVE  FileCap(q) \in Nat
<1> DEFINE a == q.max_nodes \div 5
<1>1. FileFloor \in Nat /\ q.max_nodes \in Nat
  BY ContextAssumption
<1>2. FileFloor \in Nat /\ FileFloor \in Int /\ a \in Nat /\ a \in Int
  BY <1>1
<1> HIDE DEF a
<1>3. Max({FileFloor, a}) \in Nat
  BY <1>2, TwoOf
<1> QED
  BY <1>3 DEF FileCap, a

\* An entry point is cut only behind other entry points of its file.
LEMMA CutBehind ==
    ASSUME IsList(nodes), IsInjective(nodes), query \in Questions,
           NEW id \in ToSet(roots) \cap ToSet(nodes),
           id \notin IdsOf(Take(InFile(db.of[id].file), FileCap(query)))
    PROVE  \E p \in Nat :
              /\ p > FileCap(query)
              /\ \E f : /\ \A k \in 1 .. p : f[k] \in ToSet(roots) /\ db.of[f[k]].file = db.of[id].file
                       /\ \A k, l \in 1 .. p : f[k] = f[l] => k = l
<1> DEFINE file == db.of[id].file
           at == Sites(nodes, LAMBDA x : db.of[x].file = file)
           ids == Picked(nodes, at)
           Weight(x) == (IF x \in ToSet(roots) THEN 10 ELSE 0) + (IF IsType(x) THEN 3 ELSE 0)
           s == [i \in DOMAIN ids |-> Result(ids[i], Weight(ids[i]))]
           n == Len(ids)
           before == {p \in (DOMAIN s) \X (DOMAIN s) : s[p[1]].score > s[p[2]].score}
           o == Arranged(Len(s), before)
           t == [k \in DOMAIN s |-> s[o[k]]]
           cap == FileCap(query)
<1>1. InFile(file) = t
  BY DEF InFile, FileNodes, Where, Scored, Ranked, SortedBy
<1>2. \A i \in DOMAIN nodes : i \in at <=> db.of[nodes[i]].file = file
  BY DEF Sites
<1>3. cap \in Nat
  BY CapsAre
<1>4. /\ Weight(id) >= 10
      /\ \A x : Weight(x) \in Int /\ (Weight(x) >= 10 => x \in ToSet(roots))
  OBVIOUS
<1>5. Reorders(t, s, o, before)
  BY DEF Reorders
<1>6. /\ \A i \in DOMAIN ids : s[i].id = ids[i] /\ s[i].score = Weight(ids[i])
      /\ DOMAIN s = DOMAIN ids
  BY DEF Result
<1>7. \A i, j : <<i, j>> \in before <=> i \in DOMAIN s /\ j \in DOMAIN s /\ s[i].score > s[j].score
  OBVIOUS
<1>15. s = [i \in DOMAIN ids |-> s[i]]
  OBVIOUS
<1> HIDE DEF file, at, cap, Weight, s, before, o, t
<1>8. /\ IsList(ids) /\ IsInjective(ids) /\ n \in Nat /\ DOMAIN ids = 1 .. n
      /\ \A k \in DOMAIN ids : \E i \in DOMAIN nodes \cap at : ids[k] = nodes[i]
      /\ \A i \in DOMAIN nodes \cap at : \E k \in DOMAIN ids : ids[k] = nodes[i]
  BY PickedList, ListIs
<1>9. \A k \in DOMAIN ids : db.of[ids[k]].file = file
  BY <1>2, <1>8
<1>10. PICK x \in DOMAIN ids : ids[x] = id
  <2>1. PICK i \in DOMAIN nodes : nodes[i] = id
    BY DEF ToSet
  <2>2. i \in at
    BY <1>2, <2>1 DEF file
  <2> QED
    BY <1>8, <2>1, <2>2
<1> HIDE DEF ids, n
<1>11. IsList(s) /\ Len(s) = n /\ DOMAIN s = 1 .. n
  BY <1>8, <1>15, MappedIs
<1>12. PICK S : s \in Seq(S)
  BY <1>11, ListIs
<1>13. StrictOrder(before)
  <2>1. \A i \in DOMAIN s : s[i].score \in Int
    BY <1>4, <1>6
  <2>2. \A a, b : <<a, b>> \in before => <<b, a>> \notin before
    BY <1>7, <2>1
  <2>3. \A a, b, c : <<a, b>> \in before /\ <<b, c>> \in before => <<a, c>> \in before
    BY <1>7, <2>1
  <2> QED
    BY <2>2, <2>3 DEF StrictOrder
<1>14. /\ \A k \in 1 .. n : o[k] \in 1 .. n /\ t[k] = s[o[k]]
       /\ t \in Seq(S) /\ Len(t) = n
       /\ Permutes(o, n) /\ InOrder(o, n, before)
  BY <1>5, <1>11, <1>12, <1>13, ReorderedIs
<1>16. PICK p \in 1 .. n : o[p] = x
  BY <1>8, <1>10, <1>14 DEF Permutes
<1>17. \A k \in 1 .. n : t[k].id = ids[o[k]] /\ t[k].score = Weight(ids[o[k]])
  BY <1>6, <1>8, <1>14
<1>18. IsList(t) /\ DOMAIN t = 1 .. n
  BY <1>14, ListOf
<1>19. p > cap
  <2> SUFFICES ASSUME p <= cap PROVE FALSE
    BY <1>3, <1>8
  <2> DEFINE u == Take(t, cap)
  <2>1. /\ IsList(u) /\ Len(u) = IF cap <= Len(t) THEN cap ELSE Len(t)
        /\ \A i \in 1 .. Len(u) : u[i] = t[i]
    BY <1>3, <1>18, TakeIs
  <2>2. DOMAIN u = 1 .. Len(u)
    BY <2>1, ListIs
  <2>3. p \in DOMAIN u /\ u[p] = t[p]
    BY <1>3, <1>8, <1>14, <2>1, <2>2
  <2>4. u[p].id = id
    BY <1>10, <1>16, <1>17, <2>3
  <2>5. id \in IdsOf(u)
    BY <2>3, <2>4 DEF IdsOf
  <2> QED
    BY <1>1, <2>5 DEF file, cap
<1>20. ASSUME NEW k \in 1 .. p PROVE t[k].id \in ToSet(roots) /\ db.of[t[k].id].file = file
  <2>1. k \in 1 .. n /\ (k = p \/ k < p)
    BY <1>8, <1>16
  <2>2. t[p].score = Weight(id) /\ o[p] \in DOMAIN s /\ o[k] \in DOMAIN s
    BY <1>10, <1>11, <1>14, <1>16, <1>17, <2>1
  <2>3. t[k].score >= 10
    <3>1. CASE k = p
      BY <1>4, <2>2, <3>1
    <3>2. CASE k < p
      <4>1. <<o[p], o[k]>> \notin before
        BY <1>14, <2>1, <3>2 DEF InOrder
      <4>2. ~ (s[o[p]].score > s[o[k]].score) /\ t[p] = s[o[p]] /\ t[k] = s[o[k]]
        BY <1>7, <1>14, <2>1, <2>2, <4>1
      <4>3. t[k].score \in Int /\ t[p].score \in Int
        BY <1>4, <1>17, <2>1
      <4> QED
        BY <1>4, <2>2, <4>2, <4>3
    <3> QED
      BY <2>1, <3>1, <3>2
  <2>4. t[k].id = ids[o[k]] /\ t[k].score = Weight(ids[o[k]]) /\ o[k] \in DOMAIN ids
    BY <1>6, <1>17, <2>1, <2>2
  <2> QED
    BY <1>4, <1>9, <2>3, <2>4
<1>21. ASSUME NEW k \in 1 .. p, NEW l \in 1 .. p, t[k].id = t[l].id PROVE k = l
  <2>1. k \in 1 .. n /\ l \in 1 .. n
    BY <1>8, <1>16
  <2>2. ids[o[k]] = ids[o[l]] /\ o[k] \in DOMAIN ids /\ o[l] \in DOMAIN ids
    BY <1>8, <1>14, <1>17, <1>21, <2>1
  <2>3. o[k] = o[l]
    BY <1>8, <2>2 DEF IsInjective
  <2> QED
    BY <1>14, <2>1, <2>3 DEF Permutes
<1> DEFINE f == [k \in 1 .. p |-> t[k].id]
<1>22. /\ p \in Nat
       /\ \A k \in 1 .. p : f[k] \in ToSet(roots) /\ db.of[f[k]].file = file
       /\ \A k, l \in 1 .. p : f[k] = f[l] => k = l
  BY <1>20, <1>21
<1> HIDE DEF f
<1> QED
  BY <1>19, <1>22 DEF file, cap

\* What is cut has more entry points in its file than the cap.
LEMMA CutIsCrowded ==
    ASSUME IsList(nodes), IsInjective(nodes), IsList(hits), query \in Questions,
           roots = [i \in DOMAIN hits |-> hits[i].id],
           NEW id \in ToSet(roots) \cap ToSet(nodes),
           id \notin IdsOf(Take(InFile(db.of[id].file), FileCap(query)))
    PROVE  Cardinality({i \in DOMAIN hits : db.of[hits[i].id].file = db.of[id].file}) > FileCap(query)
<1> DEFINE file == db.of[id].file
           H == {i \in DOMAIN hits : db.of[hits[i].id].file = file}
           cap == FileCap(query)
<1>20. PICK p \in Nat :
          /\ p > cap
          /\ \E f : /\ \A k \in 1 .. p : f[k] \in ToSet(roots) /\ db.of[f[k]].file = file
                   /\ \A k, l \in 1 .. p : f[k] = f[l] => k = l
  BY CutBehind
<1>1. PICK f : /\ p > cap
               /\ \A k \in 1 .. p : f[k] \in ToSet(roots) /\ db.of[f[k]].file = file
               /\ \A k, l \in 1 .. p : f[k] = f[l] => k = l
  BY <1>20
<1>2. cap \in Nat
  BY CapsAre
<1> HIDE DEF cap, file
<1>3. \A x \in ToSet(roots) : \E i \in DOMAIN hits : hits[i].id = x
  BY DEF ToSet
<1>4. \A k \in 1 .. p : \E i \in H : hits[i].id = f[k]
  BY <1>1, <1>3
<1>5. IsFiniteSet(H)
  <2>1. Len(hits) \in Nat /\ H \subseteq 1 .. Len(hits)
    BY ListIs
  <2>2. IsFiniteSet(1 .. Len(hits))
    BY <2>1, FS_Interval
  <2> QED
    BY <2>1, <2>2, FS_Subset
<1> HIDE DEF H
<1> DEFINE g == [k \in 1 .. p |-> CHOOSE i \in H : hits[i].id = f[k]]
<1>6. \A k \in 1 .. p : g[k] \in H /\ hits[g[k]].id = f[k]
  BY <1>4
<1>7. g \in [1 .. p -> H] /\ \A k, l \in 1 .. p : g[k] = g[l] => k = l
  BY <1>1, <1>6
<1> HIDE DEF g
<1>8. g \in Injection(1 .. p, H)
  BY <1>7 DEF Injection, IsInjective
<1>9. Cardinality(1 .. p) <= Cardinality(H)
  BY <1>5, <1>8, FS_Injection
<1>10. Cardinality(1 .. p) = p
  <2> DEFINE a == 1
  <2>1. a \in Int /\ p \in Int
    OBVIOUS
  <2>2. Cardinality(a .. p) = IF a > p THEN 0 ELSE p - a + 1
    <3> HIDE DEF a
    <3> QED
      BY <2>1, FS_Interval
  <2> QED
    BY <2>2
<1>11. Cardinality(H) \in Nat
  BY <1>5, FS_CardinalityType
<1> QED
  BY <1>1, <1>2, <1>9, <1>10, <1>11 DEF H, cap, file
-----------------------------------------------------------------------------
(* The inductive invariant: what is stored can be walked, every list is one, *)
(* no edge is there twice, and until the caps the entry points are nodes.    *)

Phases == {"idle", "seed", "exact", "text", "merge", "imports"} \cup Entered

Asked ==
    /\ Storable(db)
    /\ pc \in Phases
    /\ pc # "idle" => query \in Questions

Listed ==
    /\ IsList(seeds) /\ IsList(hits) /\ IsList(work)
    /\ IsList(nodes) /\ IsList(edges) /\ IsList(roots)

\* Neither a node nor an edge is there twice.
AnsweredOnce == IsInjective(nodes) /\ Once(edges)

Crowded(id) == Cardinality({i \in DOMAIN hits : db.of[hits[i].id].file = db.of[id].file}) > FileCap(query)

RootsKept ==
    /\ pc \in {"hierarchy", "walk"} => /\ roots = [i \in DOMAIN hits |-> hits[i].id]
                                       /\ ToSet(roots) \subseteq ToSet(nodes)
    /\ pc \in {"tests", "recover", "inject", "done"} => \A id \in ToSet(roots) \ ToSet(nodes) : Crowded(id)

IInv == Asked /\ Listed /\ AnsweredOnce /\ RootsKept /\ EntryPoints /\ AnswerClosed

LEMMA StartsRight == Init => IInv
<1> SUFFICES ASSUME Init PROVE IInv
  OBVIOUS
<1>1. /\ db \in Databases /\ pc = "idle"
      /\ seeds = <<>> /\ hits = <<>> /\ work = <<>> /\ nodes = <<>> /\ edges = <<>> /\ roots = <<>>
  BY DEF Init
<1>2. Asked
  BY <1>1, ContextAssumption DEF Asked, Phases
<1>3. Listed
  BY <1>1, EmptyList DEF Listed
<1>4. AnsweredOnce
  BY <1>1, EmptyList DEF AnsweredOnce, IsInjective, Once
<1>5. RootsKept /\ EntryPoints /\ AnswerClosed
  BY <1>1 DEF RootsKept, EntryPoints, AnswerClosed, Entered
<1> QED
  BY <1>2, <1>3, <1>4, <1>5 DEF IInv

\* The passes before there is an answer.
Before == {"idle", "seed", "exact", "text", "merge", "imports"}

LEMMA SearchesKeep ==
    ASSUME IInv, UNCHANGED <<db, nodes, edges, roots>>, pc' \in Before, pc' # "idle" => query' \in Questions,
           IsList(seeds'), IsList(hits'), IsList(work')
    PROVE  IInv'
<1>1. Asked'
  BY DEF IInv, Asked, Storable, Phases, Before
<1>2. Listed'
  BY DEF IInv, Listed
<1>3. AnsweredOnce'
  BY DEF IInv, AnsweredOnce, IsInjective, Once
<1>4. (RootsKept /\ EntryPoints /\ AnswerClosed)'
  BY DEF RootsKept, EntryPoints, AnswerClosed, Entered, Before
<1> QED
  BY <1>1, <1>2, <1>3, <1>4 DEF IInv

LEMMA QuestionIs ==
    ASSUME IInv, pc # "idle"
    PROVE  /\ query \in Questions
           /\ IsList(query.symbols) /\ IsList(query.terms)
           /\ query.search_limit \in Nat /\ query.max_nodes \in Nat
           /\ IsList(db.rows) /\ IsList(db.edges)
           /\ \A i \in DOMAIN query.terms : IsList(db.near[query.terms[i]])
<1>1. query \in Questions /\ Storable(db)
  BY DEF IInv, Asked
<1>2. {query.search_limit, query.max_nodes, query.depth} \subseteq Nat /\ IsList(query.symbols) /\ IsList(query.terms)
  BY <1>1, ContextAssumption
<1> QED
  BY <1>1, <1>2 DEF Storable

LEMMA HitsKeep ==
    ASSUME IInv, Ask \/ Seed \/ SearchExact \/ SearchText \/ MergeHits \/ Return
    PROVE  IInv'
<1>1. IsList(seeds) /\ IsList(hits) /\ IsList(work)
  BY DEF IInv, Listed
<1>2. CASE Ask
  <2>1. pc' = "seed" /\ query' \in Questions /\ UNCHANGED <<db, seeds, hits, work, nodes, edges, roots>>
    BY <1>2 DEF Ask
  <2> QED
    BY <1>1, <2>1, SearchesKeep DEF Before
<1>3. CASE Seed
  <2>1. pc = "seed" /\ pc' = "exact" /\ seeds' = SeedNamedSymbols(db, query)
        /\ UNCHANGED <<db, query, hits, work, nodes, edges, roots>>
    BY <1>3 DEF Seed
  <2>2. IsList(seeds')
    BY <2>1, QuestionIs, SeedsList
  <2> QED
    BY <1>1, <2>1, <2>2, QuestionIs, SearchesKeep DEF Before
<1>4. CASE SearchExact
  <2>1. pc = "exact" /\ pc' = "text" /\ hits' = ExactMatches(query)
        /\ UNCHANGED <<db, query, seeds, work, nodes, edges, roots>>
    BY <1>4 DEF SearchExact
  <2>2. IsList(hits')
    BY <2>1, QuestionIs, ExactList
  <2> QED
    BY <1>1, <2>1, <2>2, QuestionIs, SearchesKeep DEF Before
<1>5. CASE SearchText
  <2>1. pc = "text" /\ pc' = "merge" /\ work' = TextResults(query)
        /\ UNCHANGED <<db, query, seeds, hits, nodes, edges, roots>>
    BY <1>5 DEF SearchText
  <2>2. IsList(work')
    BY <2>1, QuestionIs, TextList
  <2> QED
    BY <1>1, <2>1, <2>2, QuestionIs, SearchesKeep DEF Before
<1>6. CASE MergeHits
  <2>1. pc = "merge" /\ pc' = "imports" /\ hits' = Merged(query, hits, work) /\ work' = <<>>
        /\ UNCHANGED <<db, query, seeds, nodes, edges, roots>>
    BY <1>6 DEF MergeHits
  <2>2. IsList(hits') /\ IsList(work')
    BY <1>1, <2>1, QuestionIs, MergedList, EmptyList
  <2> QED
    BY <1>1, <2>1, <2>2, QuestionIs, SearchesKeep DEF Before
<1>7. CASE Return
  <2>1. /\ pc' = "idle" /\ UNCHANGED db
        /\ seeds' = <<>> /\ hits' = <<>> /\ work' = <<>> /\ nodes' = <<>> /\ edges' = <<>> /\ roots' = <<>>
    BY <1>7 DEF Return
  <2>2. Asked'
    BY <2>1 DEF IInv, Asked, Storable, Phases
  <2>3. Listed'
    BY <2>1, EmptyList DEF Listed
  <2>4. AnsweredOnce'
    BY <2>1, EmptyList DEF AnsweredOnce, IsInjective, Once
  <2>5. (RootsKept /\ EntryPoints /\ AnswerClosed)'
    BY <2>1 DEF RootsKept, EntryPoints, AnswerClosed, Entered
  <2> QED
    BY <2>2, <2>3, <2>4, <2>5 DEF IInv
<1> QED
  BY <1>2, <1>3, <1>4, <1>5, <1>6, <1>7

LEMMA ImportsKeep ==
    ASSUME IInv, ResolveImports
    PROVE  IInv'
<1> DEFINE found == Take(Joined(<<>>, FlattenSeq([i \in DOMAIN hits |-> Meant(hits[i])])), query.search_limit)
           ids == [i \in DOMAIN found |-> found[i].id]
           n == Len(found)
<1>1. /\ pc = "imports" /\ pc' = "hierarchy"
      /\ hits' = found /\ work' = hits' /\ roots' = [i \in DOMAIN hits' |-> hits'[i].id] /\ nodes' = roots'
      /\ UNCHANGED <<db, query, seeds, edges>>
  BY DEF ResolveImports
<1>2. query \in Questions /\ query.search_limit \in Nat /\ Storable(db) /\ IsList(hits) /\ IsList(edges) /\ IsList(seeds)
  BY <1>1, QuestionIs DEF IInv, Asked, Listed
<1>3. /\ IsList(found) /\ n <= query.search_limit
      /\ \A i, j \in DOMAIN found : found[i].id = found[j].id => i = j
      /\ \A i \in DOMAIN found : db.of[found[i].id].kind \notin DOMAIN Passage
  BY <1>2, EntriesFound
<1> HIDE DEF found
<1>4. n \in Nat /\ DOMAIN found = 1 .. n
  BY <1>3, ListIs
<1> HIDE DEF n
<1>5. ids = [i \in 1 .. n |-> ids[i]]
  BY <1>4
<1>6. /\ \A i \in DOMAIN found : ids[i] = found[i].id
      /\ hits' = found /\ roots' = ids /\ nodes' = ids /\ work' = found /\ roots' = [i \in DOMAIN hits' |-> hits'[i].id]
  BY <1>1
<1> HIDE DEF ids
<1>7. IsList(ids) /\ Len(ids) = n /\ DOMAIN ids = 1 .. n
  BY <1>4, <1>5, MappedIs
<1>8. IsInjective(ids)
  BY <1>3, <1>4, <1>6, <1>7 DEF IsInjective
<1>9. \A i \in DOMAIN ids : db.of[ids[i]].kind \notin DOMAIN Passage
  BY <1>3, <1>4, <1>6, <1>7
<1>10. Asked'
  BY <1>1, <1>2 DEF Asked, Storable, Phases, Entered
<1>11. Listed'
  BY <1>1, <1>2, <1>3, <1>6, <1>7 DEF Listed
<1>12. AnsweredOnce'
  BY <1>1, <1>6, <1>8 DEF IInv, AnsweredOnce, Once, IsInjective
<1>13. RootsKept'
  BY <1>1, <1>6 DEF RootsKept
<1>14. EntryPoints'
  <2>1. /\ IsInjective(roots') /\ Len(roots') <= query'.search_limit
        /\ \A i \in DOMAIN roots' : db'.of[roots'[i]].kind \notin DOMAIN Passage
    BY <1>1, <1>3, <1>6, <1>7, <1>8, <1>9 DEF n
  <2> QED
    BY <2>1 DEF EntryPoints
<1>15. AnswerClosed'
  BY <1>1 DEF AnswerClosed
<1> QED
  BY <1>10, <1>11, <1>12, <1>13, <1>14, <1>15 DEF IInv

\* A pass that adds a walk, in the phase of the walks.
LEMMA WalksKeep ==
    ASSUME IInv, pc \in {"hierarchy", "walk"}, pc' \in {"hierarchy", "walk"},
           UNCHANGED <<db, query, seeds, hits, roots>>, IsList(work'),
           UNCHANGED <<nodes, edges>> \/ \E w : IsList(w.nodes) /\ IsList(w.edges) /\ AddWalk(w)
    PROVE  IInv'
<1>1. IsList(nodes) /\ IsList(edges) /\ IsInjective(nodes) /\ Once(edges)
  BY DEF IInv, Listed, AnsweredOnce
<1>2. IsList(nodes') /\ IsList(edges') /\ IsInjective(nodes') /\ Once(edges') /\ ToSet(nodes) \subseteq ToSet(nodes')
  <2>1. CASE UNCHANGED <<nodes, edges>>
    BY <1>1, <2>1
  <2>2. CASE \E w : IsList(w.nodes) /\ IsList(w.edges) /\ AddWalk(w)
    <3>1. PICK w : IsList(w.nodes) /\ IsList(w.edges) /\ AddWalk(w)
      BY <2>2
    <3>2. nodes' = AddNodes(w.nodes) /\ edges' = WithEdges(edges, w.edges)
      BY <3>1 DEF AddWalk
    <3> QED
      BY <1>1, <3>1, <3>2, NodesAdded, EdgesAdded
  <2> QED
    BY <2>1, <2>2
<1>3. Asked'
  BY DEF IInv, Asked, Storable, Phases, Entered
<1>4. Listed'
  BY <1>2 DEF IInv, Listed
<1>5. AnsweredOnce'
  BY <1>2 DEF AnsweredOnce, Once, IsInjective
<1>6. RootsKept'
  BY <1>2 DEF IInv, RootsKept
<1>7. EntryPoints'
  BY DEF IInv, EntryPoints, Entered
<1>8. AnswerClosed'
  BY DEF AnswerClosed
<1> QED
  BY <1>3, <1>4, <1>5, <1>6, <1>7, <1>8 DEF IInv

LEMMA GraphKeeps ==
    ASSUME IInv, ExpandHierarchy \/ FinishHierarchy \/ WalkAround
    PROVE  IInv'
<1>1. IsList(work) /\ IsList(hits)
  BY DEF IInv, Listed
<1>2. CASE ExpandHierarchy
  <2>1. /\ pc = "hierarchy" /\ work # <<>> /\ work' = Tail(work)
        /\ UNCHANGED <<db, query, pc, seeds, hits, roots>>
        /\ AddWalk(Hierarchy(Head(work).id)) \/ UNCHANGED <<nodes, edges>>
    BY <1>2 DEF ExpandHierarchy
  <2>2. IsList(work')
    BY <1>1, <2>1, EndsOf
  <2>3. IsList(Hierarchy(Head(work).id).nodes) /\ IsList(Hierarchy(Head(work).id).edges)
    BY <2>1, QuestionIs, HierarchyLists
  <2>4. UNCHANGED <<nodes, edges>> \/ \E w : IsList(w.nodes) /\ IsList(w.edges) /\ AddWalk(w)
    BY <2>1, <2>3
  <2> QED
    BY <2>1, <2>2, <2>4, WalksKeep
<1>3. CASE FinishHierarchy
  <2>1. pc = "hierarchy" /\ pc' = "walk" /\ work' = hits /\ UNCHANGED <<db, query, seeds, hits, nodes, edges, roots>>
    BY <1>3 DEF FinishHierarchy
  <2> QED
    BY <1>1, <2>1, WalksKeep
<1>4. CASE WalkAround
  <2> DEFINE w == Neighbours(Head(work).id, query, Max({1, query.max_nodes \div Len(hits)}))
  <2>1. /\ pc = "walk" /\ work # <<>> /\ work' = Tail(work) /\ AddWalk(w)
        /\ UNCHANGED <<db, query, pc, seeds, hits, roots>>
    BY <1>4 DEF WalkAround
  <2>2. IsList(work')
    BY <1>1, <2>1, EndsOf
  <2>3. IsList(w.nodes) /\ IsList(w.edges)
    BY <2>1, QuestionIs, NeighboursLists
  <2> HIDE DEF w
  <2> QED
    BY <2>1, <2>2, <2>3, WalksKeep
<1> QED
  BY <1>2, <1>3, <1>4

LEMMA CapFilesKeeps ==
    ASSUME IInv, CapFiles
    PROVE  IInv'
<1> DEFINE Fits(id) == id \in IdsOf(Take(InFile(db.of[id].file), FileCap(query)))
           at == Sites(nodes, Fits)
<1>1. pc = "walk" /\ pc' = "tests" /\ nodes' = Picked(nodes, at)
      /\ UNCHANGED <<db, query, seeds, hits, work, edges, roots>>
  BY DEF CapFiles, Where
<1>2. /\ IsList(nodes) /\ IsInjective(nodes) /\ IsList(hits) /\ query \in Questions
      /\ roots = [i \in DOMAIN hits |-> hits[i].id] /\ ToSet(roots) \subseteq ToSet(nodes)
  BY <1>1 DEF IInv, Asked, Listed, AnsweredOnce, RootsKept
<1>3. \A i \in DOMAIN nodes : Fits(nodes[i]) => i \in at
  BY DEF Sites
<1> HIDE DEF at
<1>4. /\ IsList(nodes') /\ IsInjective(nodes')
      /\ \A i \in DOMAIN nodes \cap at : \E k \in DOMAIN nodes' : nodes'[k] = nodes[i]
  BY <1>1, <1>2, PickedList
<1>5. ASSUME NEW id \in ToSet(roots) \ ToSet(nodes') PROVE Crowded(id)
  <2>1. id \in ToSet(nodes) /\ id \notin ToSet(nodes')
    BY <1>2
  <2>2. PICK i \in DOMAIN nodes : nodes[i] = id
    BY <2>1 DEF ToSet
  <2>3. i \notin at
    BY <1>4, <2>1, <2>2, Zenon DEF ToSet
  <2>4. ~ Fits(id)
    BY <1>3, <2>2, <2>3
  <2>5. id \in ToSet(roots) \cap ToSet(nodes)
    BY <2>1
  <2> QED
    BY <1>2, <2>4, <2>5, CutIsCrowded DEF Crowded
<1> HIDE DEF Fits
<1>6. Asked'
  BY <1>1 DEF IInv, Asked, Storable, Phases, Entered
<1>7. Listed'
  BY <1>1, <1>4 DEF IInv, Listed
<1>8. AnsweredOnce'
  BY <1>1, <1>4 DEF IInv, AnsweredOnce, Once, IsInjective
<1>9. \A id : Crowded(id)' <=> Crowded(id)
  BY <1>1 DEF Crowded, FileCap
<1>10. RootsKept'
  <2>1. \A id \in ToSet(roots') \ ToSet(nodes') : Crowded(id)'
    BY <1>1, <1>5, <1>9
  <2> QED
    BY <1>1, <2>1 DEF RootsKept
<1>11. EntryPoints'
  BY <1>1 DEF IInv, EntryPoints, Entered
<1>12. AnswerClosed'
  BY <1>1 DEF AnswerClosed
<1> QED
  BY <1>6, <1>7, <1>8, <1>10, <1>11, <1>12 DEF IInv

LEMMA CapTestsKeeps ==
    ASSUME IInv, CapTests
    PROVE  IInv'
<1> DEFINE cut == TestsCut(query)
           at == Sites(nodes, LAMBDA id : id \notin cut)
           on == Sites(roots, LAMBDA id : id \notin cut)
<1>1. /\ pc = "tests" /\ pc' = "recover"
      /\ nodes' = Picked(nodes, at) /\ roots' = Picked(roots, on)
      /\ UNCHANGED <<db, query, seeds, hits, work, edges>>
  BY DEF CapTests, Where
<1>2. /\ IsList(nodes) /\ IsInjective(nodes) /\ IsList(roots)
      /\ IsInjective(roots) /\ Len(roots) <= query.search_limit
      /\ \A i \in DOMAIN roots : db.of[roots[i]].kind \notin DOMAIN Passage
      /\ \A id \in ToSet(roots) \ ToSet(nodes) : Crowded(id)
  BY <1>1 DEF IInv, Asked, Listed, AnsweredOnce, RootsKept, EntryPoints, Entered
<1>3. /\ \A i \in DOMAIN nodes : nodes[i] \notin cut => i \in at
      /\ \A i \in DOMAIN roots \cap on : roots[i] \notin cut
  BY DEF Sites
<1> HIDE DEF cut, at, on
<1>4. /\ IsList(nodes') /\ IsInjective(nodes')
      /\ \A i \in DOMAIN nodes \cap at : \E k \in DOMAIN nodes' : nodes'[k] = nodes[i]
  BY <1>1, <1>2, PickedList
<1>5. /\ IsList(roots') /\ IsInjective(roots') /\ Len(roots') <= Len(roots)
      /\ \A k \in DOMAIN roots' : \E i \in DOMAIN roots \cap on : roots'[k] = roots[i]
  BY <1>1, <1>2, PickedList
<1>6. ASSUME NEW id \in ToSet(roots') \ ToSet(nodes') PROVE Crowded(id)
  <2>1. PICK k \in DOMAIN roots' : roots'[k] = id
    BY DEF ToSet
  <2>2. PICK i \in DOMAIN roots \cap on : id = roots[i]
    BY <1>5, <2>1
  <2>3. id \notin cut /\ id \in ToSet(roots)
    BY <1>3, <2>2 DEF ToSet
  <2>4. id \notin ToSet(nodes)
    <3> SUFFICES ASSUME id \in ToSet(nodes) PROVE FALSE
      OBVIOUS
    <3>1. PICK j \in DOMAIN nodes : nodes[j] = id
      BY DEF ToSet
    <3>2. j \in DOMAIN nodes \cap at
      BY <1>3, <2>3, <3>1
    <3>3. \E l \in DOMAIN nodes' : nodes'[l] = id
      BY <1>4, <3>1, <3>2
    <3>4. id \in ToSet(nodes')
      BY <3>3, Zenon DEF ToSet
    <3> QED
      BY <3>4
  <2> QED
    BY <1>2, <2>3, <2>4
<1>7. Asked'
  BY <1>1 DEF IInv, Asked, Storable, Phases, Entered
<1>8. Listed'
  BY <1>1, <1>4, <1>5 DEF IInv, Listed
<1>9. AnsweredOnce'
  BY <1>1, <1>4 DEF IInv, AnsweredOnce, Once, IsInjective
<1>10. \A id : Crowded(id)' <=> Crowded(id)
  BY <1>1 DEF Crowded, FileCap
<1>11. RootsKept'
  <2>1. \A id \in ToSet(roots') \ ToSet(nodes') : Crowded(id)'
    BY <1>1, <1>6, <1>10
  <2> QED
    BY <1>1, <2>1 DEF RootsKept
<1>12. EntryPoints'
  <2>1. Len(roots') <= query'.search_limit
    <3>1. Len(roots) \in Nat /\ Len(roots') \in Nat /\ query.search_limit \in Nat
      BY <1>1, <1>2, <1>5, QuestionIs, ListIs
    <3> QED
      BY <1>1, <1>2, <1>5, <3>1
  <2>2. \A i \in DOMAIN roots' : db'.of[roots'[i]].kind \notin DOMAIN Passage
    BY <1>1, <1>2, <1>5
  <2>3. IsInjective(roots)'
    BY <1>5 DEF IsInjective
  <2> QED
    BY <2>1, <2>2, <2>3 DEF EntryPoints
<1>13. AnswerClosed'
  BY <1>1 DEF AnswerClosed
<1> QED
  BY <1>7, <1>8, <1>9, <1>11, <1>12, <1>13 DEF IInv

LEMMA RecoverKeeps ==
    ASSUME IInv, RecoverEdges
    PROVE  IInv'
<1> DEFINE near == Among(db.edges, ToSet(nodes))
           at == Sites(near, LAMBDA e : e.kind \in RecoveryKind)
           more == Picked(near, at)
           old == Among(edges, ToSet(nodes))
<1>1. /\ pc = "recover" /\ pc' = "inject" /\ edges' = WithEdges(old, more)
      /\ UNCHANGED <<db, query, seeds, hits, work, nodes, roots>>
  BY DEF RecoverEdges, AnswerEdges, Where
<1>2. IsList(edges) /\ Once(edges) /\ IsList(db.edges)
  BY <1>1, QuestionIs DEF IInv, Listed, AnsweredOnce
<1>3. /\ IsList(old) /\ Once(old) /\ IsList(near)
      /\ \A i \in DOMAIN old : {old[i].source, old[i].target} \subseteq ToSet(nodes)
      /\ \A i \in DOMAIN near : {near[i].source, near[i].target} \subseteq ToSet(nodes)
  BY <1>2, AmongIs
<1>4. \A i \in DOMAIN near : near[i].kind \in RecoveryKind => i \in at
  BY DEF Sites
<1> HIDE DEF near, at, old
<1>5. /\ IsList(more)
      /\ \A k \in DOMAIN more : \E i \in DOMAIN near \cap at : more[k] = near[i]
      /\ \A i \in DOMAIN near \cap at : \E k \in DOMAIN more : more[k] = near[i]
  BY <1>3, PickedList
<1> HIDE DEF more
<1>6. /\ IsList(edges') /\ Once(edges')
      /\ \A k \in DOMAIN edges' : edges'[k] \in ToSet(old) \cup ToSet(more)
      /\ \A e \in ToSet(old) \cup ToSet(more) : Key(e) \in Keys(edges')
  BY <1>1, <1>3, <1>5, EdgesAdded
<1>7. \A e \in ToSet(old) \cup ToSet(more) : {e.source, e.target} \subseteq ToSet(nodes)
  <2>1. \A e \in ToSet(old) : {e.source, e.target} \subseteq ToSet(nodes)
    BY <1>3 DEF ToSet
  <2>2. \A k \in DOMAIN more : {more[k].source, more[k].target} \subseteq ToSet(nodes)
    BY <1>3, <1>5
  <2>3. \A e \in ToSet(more) : {e.source, e.target} \subseteq ToSet(nodes)
    BY <2>2 DEF ToSet
  <2> QED
    BY <2>1, <2>3
<1>8. ASSUME NEW e \in ToSet(near), e.kind \in RecoveryKind PROVE Key(e) \in Keys(edges')
  <2>1. PICK i \in DOMAIN near : near[i] = e
    BY DEF ToSet
  <2>2. i \in DOMAIN near \cap at
    BY <1>4, <1>8, <2>1
  <2>3. \E k \in DOMAIN more : more[k] = e
    BY <1>5, <2>1, <2>2
  <2>4. e \in ToSet(more)
    BY <2>3, Zenon DEF ToSet
  <2> QED
    BY <1>6, <2>4
<1>9. Asked'
  BY <1>1 DEF IInv, Asked, Storable, Phases, Entered
<1>10. Listed'
  BY <1>1, <1>6 DEF IInv, Listed
<1>11. AnsweredOnce'
  BY <1>1, <1>6 DEF IInv, AnsweredOnce, Once, IsInjective
<1>12. RootsKept'
  BY <1>1 DEF IInv, RootsKept, Crowded, FileCap
<1>13. EntryPoints'
  BY <1>1 DEF IInv, EntryPoints, Entered
<1>14. AnswerClosed'
  <2>1. \A i \in DOMAIN edges' : {edges'[i].source, edges'[i].target} \subseteq ToSet(nodes')
    BY <1>1, <1>6, <1>7
  <2>2. \A i, j \in DOMAIN edges' : Key(edges'[i]) = Key(edges'[j]) => i = j
    BY <1>6 DEF Once
  <2>3. \A e \in ToSet(near) : e.kind \in RecoveryKind => Key(e) \in {Key(edges'[i]) : i \in DOMAIN edges'}
    BY <1>8 DEF Keys
  <2>4. near = Among(db'.edges, ToSet(nodes'))
    BY <1>1 DEF near
  <2> HIDE DEF Key
  <2>5. \A e \in ToSet(Among(db'.edges, ToSet(nodes'))) :
            e.kind \in RecoveryKind => Key(e) \in {Key(edges'[i]) : i \in DOMAIN edges'}
    BY <2>3, <2>4
  <2> QED
    BY <1>1, <2>1, <2>2, <2>5 DEF AnswerClosed
<1> QED
  BY <1>9, <1>10, <1>11, <1>12, <1>13, <1>14 DEF IInv

LEMMA InjectKeeps ==
    ASSUME IInv, InjectSeeds
    PROVE  IInv'
<1> DEFINE ids == [i \in DOMAIN seeds |-> seeds[i].id]
           n == Len(seeds)
<1>1. /\ pc = "inject" /\ pc' = "done" /\ nodes' = AddNodes(ids)
      /\ UNCHANGED <<db, query, seeds, hits, work, edges, roots>>
  BY DEF InjectSeeds
<1>2. IsList(nodes) /\ IsInjective(nodes) /\ n \in Nat /\ DOMAIN seeds = 1 .. n
  BY ListIs DEF IInv, Listed, AnsweredOnce
<1> HIDE DEF n
<1>3. ids = [i \in 1 .. n |-> ids[i]]
  BY <1>2
<1> HIDE DEF ids
<1>4. IsList(ids)
  BY <1>2, <1>3, MappedIs
<1>5. IsList(nodes') /\ IsInjective(nodes') /\ ToSet(nodes) \subseteq ToSet(nodes')
  BY <1>1, <1>2, <1>4, NodesAdded
<1>6. Asked'
  BY <1>1 DEF IInv, Asked, Storable, Phases, Entered
<1>7. Listed'
  BY <1>1, <1>5 DEF IInv, Listed
<1>8. AnsweredOnce'
  BY <1>1, <1>5 DEF IInv, AnsweredOnce, Once, IsInjective
<1>9. RootsKept'
  <2>1. \A id \in ToSet(roots') \ ToSet(nodes') : Crowded(id)'
    BY <1>1, <1>5 DEF IInv, RootsKept, Crowded, FileCap
  <2> QED
    BY <1>1, <2>1 DEF RootsKept
<1>10. EntryPoints'
  BY <1>1 DEF IInv, EntryPoints, Entered
<1>11. AnswerClosed'
  BY <1>1, <1>5 DEF IInv, AnswerClosed
<1> QED
  BY <1>6, <1>7, <1>8, <1>9, <1>10, <1>11 DEF IInv

\* A file that is deleted meanwhile only takes rows and edges away.
LEMMA DeletionKeeps ==
    ASSUME IInv, NEW file, DeleteFile(file)
    PROVE  IInv'
<1> DEFINE gone == {id \in ToSet(db.rows) : db.of[id].file = file}
           at == Sites(db.rows, LAMBDA id : id \notin gone)
           on == Sites(db.edges, LAMBDA e : {e.source, e.target} \cap gone = {})
           rows == Picked(db.rows, at)
           es == Picked(db.edges, on)
<1>1. /\ db' = [db EXCEPT !.rows = rows, !.files = @ \ {file}, !.edges = es]
      /\ UNCHANGED <<query, pc, seeds, hits, work, nodes, edges, roots>>
  BY DEF DeleteFile, Where
<1>2. /\ {"rows", "of", "files", "edges", "near"} \subseteq DOMAIN db
      /\ IsList(db.rows) /\ IsInjective(db.rows) /\ IsList(db.edges)
      /\ \A e \in ToSet(db.edges) :
            e.kind \in {"imports", "exports"} => db.of[e.source].kind \notin {"import", "export"}
      /\ \A q \in Questions : \A i \in DOMAIN q.terms : IsList(db.near[q.terms[i]])
  BY DEF IInv, Asked, Storable
<1> HIDE DEF gone, at, on
<1>3. /\ IsList(rows) /\ IsInjective(rows)
      /\ IsList(es) /\ \A k \in DOMAIN es : \E i \in DOMAIN db.edges \cap on : es[k] = db.edges[i]
  BY <1>2, PickedList
<1> HIDE DEF rows, es
<1>4. db'.rows = rows /\ db'.edges = es /\ db'.of = db.of /\ db'.near = db.near /\ DOMAIN db' = DOMAIN db
  BY <1>1, <1>2
<1>5. ToSet(es) \subseteq ToSet(db.edges)
  BY <1>3 DEF ToSet
<1>6. Storable(db')
  BY <1>2, <1>3, <1>4, <1>5 DEF Storable
<1>7. Asked'
  <2>1. pc' \in Phases /\ (pc' # "idle" => query' \in Questions)
    BY <1>1 DEF IInv, Asked
  <2> QED
    BY <1>6, <2>1 DEF Asked, Phases, Entered, Storable
<1>8. Listed'
  BY <1>1 DEF IInv, Listed
<1>9. AnsweredOnce'
  BY <1>1 DEF IInv, AnsweredOnce, Once, IsInjective
<1>10. RootsKept'
  <2>1. \A id : Crowded(id)' <=> Crowded(id)
    BY <1>1, <1>4 DEF Crowded, FileCap
  <2>2. /\ pc \in {"hierarchy", "walk"} => /\ roots = [i \in DOMAIN hits |-> hits[i].id]
                                          /\ ToSet(roots) \subseteq ToSet(nodes)
        /\ pc \in {"tests", "recover", "inject", "done"} => \A id \in ToSet(roots) \ ToSet(nodes) : Crowded(id)
    BY DEF IInv, RootsKept
  <2> HIDE DEF Crowded
  <2> QED
    BY <1>1, <2>1, <2>2 DEF RootsKept
<1>11. EntryPoints'
  BY <1>1, <1>4 DEF IInv, EntryPoints, Entered
<1>12. AnswerClosed'
  <2>1. CASE pc \in {"inject", "done"}
    <3>1. /\ \A i \in DOMAIN edges : {edges[i].source, edges[i].target} \subseteq ToSet(nodes)
          /\ \A i, j \in DOMAIN edges : Key(edges[i]) = Key(edges[j]) => i = j
          /\ pc = "inject" => \A e \in ToSet(Among(db.edges, ToSet(nodes))) :
                e.kind \in RecoveryKind => Key(e) \in {Key(edges[i]) : i \in DOMAIN edges}
      BY <2>1 DEF IInv, AnswerClosed
    <3>2. ToSet(Among(es, ToSet(nodes))) \subseteq ToSet(Among(db.edges, ToSet(nodes)))
      BY <1>2, <1>3, <1>5, AmongShrinks
    <3>3. pc = "inject" => \A e \in ToSet(Among(es, ToSet(nodes))) :
                e.kind \in RecoveryKind => Key(e) \in {Key(edges[i]) : i \in DOMAIN edges}
      BY <3>1, <3>2
    <3> HIDE DEF Key
    <3>4. Among(db'.edges, ToSet(nodes')) = Among(es, ToSet(nodes))
      BY <1>1, <1>4
    <3> QED
      BY <1>1, <3>1, <3>3, <3>4 DEF AnswerClosed
  <2>2. CASE pc \notin {"inject", "done"}
    BY <1>1, <2>2 DEF AnswerClosed
  <2> QED
    BY <2>1, <2>2
<1> QED
  BY <1>7, <1>8, <1>9, <1>10, <1>11, <1>12 DEF IInv

LEMMA StepsKeep == IInv /\ [Next]_vars => IInv'
<1> SUFFICES ASSUME IInv, [Next]_vars PROVE IInv'
  OBVIOUS
<1>1. CASE Ask \/ Seed \/ SearchExact \/ SearchText \/ MergeHits \/ Return
  BY <1>1, HitsKeep
<1>2. CASE ResolveImports
  BY <1>2, ImportsKeep
<1>3. CASE ExpandHierarchy \/ FinishHierarchy \/ WalkAround
  BY <1>3, GraphKeeps
<1>4. CASE CapFiles
  BY <1>4, CapFilesKeeps
<1>5. CASE CapTests
  BY <1>5, CapTestsKeeps
<1>6. CASE RecoverEdges
  BY <1>6, RecoverKeeps
<1>7. CASE InjectSeeds
  BY <1>7, InjectKeeps
<1>8. CASE \E file \in db.files : DeleteFile(file)
  BY <1>8, DeletionKeeps
<1>9. CASE UNCHANGED vars
  <2>1. Asked' /\ Listed' /\ AnsweredOnce'
    BY <1>9 DEF IInv, Asked, Storable, Listed, AnsweredOnce, Once, IsInjective, vars, Phases, Entered
  <2>2. RootsKept' /\ EntryPoints'
    BY <1>9 DEF IInv, RootsKept, Crowded, FileCap, EntryPoints, Entered, vars
  <2>3. AnswerClosed'
    BY <1>9 DEF IInv, AnswerClosed, vars
  <2> QED
    BY <2>1, <2>2, <2>3 DEF IInv
<1> QED
  BY <1>1, <1>2, <1>3, <1>4, <1>5, <1>6, <1>7, <1>8, <1>9 DEF Next, Builder

THEOREM Invariance == Spec => []IInv
<1> QED
  BY StartsRight, StepsKeep, PTL DEF Spec

-----------------------------------------------------------------------------
(* What an answer is. *)

\* Whatever is asked and whatever is deleted meanwhile, the entry points of the
\* answer are entered once, no more than asked for, and never imports
\* (_resolve_imports_to_definitions, context/builder.py).
THEOREM EntriesSound == Spec => []EntryPoints
<1>1. IInv => EntryPoints
  BY DEF IInv
<1> QED
  BY <1>1, Invariance, PTL

\* An entry point that the caps leave without its node has more entry points in
\* its file than the cap: entry points outweigh all other nodes there, and the
\* cap on tests takes its cut from both lists (find_relevant_context).
THEOREM RootsStay == Spec => []RootsAnswered
<1>1. IInv => RootsAnswered
  BY DEF IInv, RootsKept, RootsAnswered, Crowded
<1> QED
  BY <1>1, Invariance, PTL

\* The edges of the answer are between its nodes, none is there twice, and the
\* recovery leaves out no stored call or type relation between two of them
\* (edge recovery in find_relevant_context).
THEOREM AnswerWhole == Spec => []AnswerClosed
<1>1. IInv => AnswerClosed
  BY DEF IInv
<1> QED
  BY <1>1, Invariance, PTL

-----------------------------------------------------------------------------
(* The seeds. *)

\* The results are those of the ids, once each.
Tells(results, ids) ==
    /\ IsList(results)
    /\ \A i, j \in DOMAIN results : results[i].id = results[j].id => i = j
    /\ IdsOf(results) = ids

LEMMA CountedOnce ==
    ASSUME NEW s, IsList(s), IsInjective(s)
    PROVE  IsFiniteSet(ToSet(s)) /\ Cardinality(ToSet(s)) = Len(s)
<1> DEFINE n == Len(s)
           f == [i \in 1 .. n |-> s[i]]
           S == ToSet(s)
<1>1. n \in Nat /\ DOMAIN s = 1 .. n /\ \A i \in 1 .. n : s[i] \in S
  BY ListIs
<1>2. \A x \in S : \E i \in 1 .. n : s[i] = x
  BY <1>1 DEF ToSet
<1>3. \A i, j \in 1 .. n : s[i] = s[j] => i = j
  BY <1>1 DEF IsInjective
<1>7. \A i \in 1 .. n : f[i] = s[i]
  OBVIOUS
<1>8. f \in [1 .. n -> S]
  BY <1>1
<1> HIDE DEF n, S, f
<1>4. f \in Bijection(1 .. n, S)
  <2>1. f \in Surjection(1 .. n, S)
    BY <1>2, <1>7, <1>8 DEF Surjection
  <2>2. f \in Injection(1 .. n, S)
    BY <1>3, <1>7, <1>8 DEF Injection, IsInjective
  <2> QED
    BY <2>1, <2>2 DEF Bijection
<1>5. IsFiniteSet(1 .. n) /\ Cardinality(1 .. n) = n
  BY <1>1, FS_Interval
<1>6. IsFiniteSet(S) /\ Cardinality(S) = n
  <2>1. ExistsBijection(1 .. n, S)
    BY <1>4 DEF ExistsBijection
  <2> QED
    BY <1>5, <2>1, FS_Bijection
<1> QED
  BY <1>6 DEF n, S

LEMMA CountedResults ==
    ASSUME NEW results, NEW S, Tells(results, S)
    PROVE  IsFiniteSet(S) /\ Cardinality(S) = Len(results)
<1> DEFINE n == Len(results)
           s == [i \in 1 .. n |-> results[i].id]
<1>1. /\ n \in Nat /\ DOMAIN results = 1 .. n
      /\ \A i, j \in DOMAIN results : results[i].id = results[j].id => i = j
      /\ S = {results[i].id : i \in DOMAIN results}
  BY ListIs DEF Tells, IdsOf
<1>2. s = [i \in 1 .. n |-> s[i]] /\ \A i \in 1 .. n : s[i] = results[i].id
  OBVIOUS
<1> HIDE DEF n, s
<1>3. IsList(s) /\ Len(s) = n /\ DOMAIN s = 1 .. n
  BY <1>1, <1>2, MappedIs
<1>4. IsInjective(s)
  BY <1>1, <1>2, <1>3 DEF IsInjective
<1>5. ToSet(s) = S
  BY <1>1, <1>2, <1>3 DEF ToSet
<1> QED
  BY <1>3, <1>4, <1>5, CountedOnce DEF n

\* Scoring, ranking and taking what is not too long change neither.
LEMMA ScoredTells ==
    ASSUME NEW ids, IsList(ids), IsInjective(ids), NEW s,
           s = [i \in DOMAIN ids |-> s[i]], \A i \in DOMAIN ids : s[i].id = ids[i]
    PROVE  Tells(s, ToSet(ids)) /\ Len(s) = Len(ids)
<1>1. Len(ids) \in Nat /\ DOMAIN ids = 1 .. Len(ids)
  BY ListIs
<1>2. IsList(s) /\ Len(s) = Len(ids) /\ DOMAIN s = 1 .. Len(ids)
  BY <1>1, MappedIs
<1>3. \A i, j \in DOMAIN s : s[i].id = s[j].id => i = j
  BY <1>1, <1>2 DEF IsInjective
<1>4. IdsOf(s) = ToSet(ids)
  BY <1>1, <1>2 DEF IdsOf, ToSet
<1> QED
  BY <1>2, <1>3, <1>4 DEF Tells

LEMMA RankedTells ==
    ASSUME NEW s, NEW S, Tells(s, S)
    PROVE  Tells(Ranked(s), S) /\ Len(Ranked(s)) = Len(s)
<1> DEFINE t == Ranked(s)
           before == {p \in (DOMAIN s) \X (DOMAIN s) : s[p[1]].score > s[p[2]].score}
           o == Arranged(Len(s), before)
           n == Len(s)
<1>1. /\ IsList(s) /\ \A i, j \in DOMAIN s : s[i].id = s[j].id => i = j
      /\ S = {s[i].id : i \in DOMAIN s}
  BY DEF Tells, IdsOf
<1>2. n \in Nat /\ DOMAIN s = 1 .. n
  BY <1>1, ListIs
<1>3. t = [k \in DOMAIN s |-> s[o[k]]]
  BY DEF Ranked, SortedBy
<1> HIDE DEF before, n
<1>4. Permutes(o, n)
  BY <1>2, ArrangedIs DEF n
<1> HIDE DEF o, t
<1>5. IsList(t) /\ Len(t) = n /\ DOMAIN t = 1 .. n
  BY <1>1, <1>2, SortedList DEF n, t
<1>6. \A k \in 1 .. n : o[k] \in 1 .. n /\ t[k] = s[o[k]]
  BY <1>2, <1>3, <1>4 DEF Permutes
<1>7. \A i, j \in DOMAIN t : t[i].id = t[j].id => i = j
  <2> SUFFICES ASSUME NEW i \in 1 .. n, NEW j \in 1 .. n, t[i].id = t[j].id PROVE i = j
    BY <1>5
  <2>1. o[i] = o[j]
    BY <1>1, <1>2, <1>6
  <2> QED
    BY <1>4, <2>1 DEF Permutes
<1>8. {t[k].id : k \in DOMAIN t} = {s[i].id : i \in DOMAIN s}
  <2>1. \A k \in DOMAIN t : \E i \in DOMAIN s : t[k].id = s[i].id
    BY <1>2, <1>5, <1>6
  <2>2. \A i \in DOMAIN s : \E k \in DOMAIN t : t[k].id = s[i].id
    <3> SUFFICES ASSUME NEW i \in DOMAIN s PROVE \E k \in DOMAIN t : t[k].id = s[i].id
      OBVIOUS
    <3>1. PICK k \in 1 .. n : o[k] = i
      BY <1>2, <1>4 DEF Permutes
    <3> QED
      BY <1>5, <1>6, <3>1
  <2> QED
    BY <2>1, <2>2
<1> QED
  BY <1>1, <1>5, <1>7, <1>8 DEF Tells, IdsOf, n, t

LEMMA TakenWhole ==
    ASSUME NEW s, IsList(s), NEW n \in Nat, Len(s) <= n
    PROVE  Take(s, n) = s
<1>1. Len(s) \in Nat /\ Len(s) \in Int /\ n \in Int /\ s \in Seq(ToSet(s))
  BY ListIs
<1>2. Min({n, Len(s)}) = Len(s)
  BY <1>1, TwoOf
<1>3. SubSeq(s, 1, Len(s)) = s
  BY <1>1
<1> QED
  BY <1>2, <1>3 DEF Take

LEMMA PickedElements ==
    ASSUME NEW s, IsList(s), NEW at
    PROVE  ToSet(Picked(s, at)) = {s[i] : i \in DOMAIN s \cap at}
<1> DEFINE r == Picked(s, at)
<1>1. /\ \A k \in DOMAIN r : \E i \in DOMAIN s \cap at : r[k] = s[i]
      /\ \A i \in DOMAIN s \cap at : \E k \in DOMAIN r : r[k] = s[i]
  BY PickedList
<1> HIDE DEF r
<1>2. {r[k] : k \in DOMAIN r} = {s[i] : i \in DOMAIN s \cap at}
  BY <1>1
<1> QED
  BY <1>2 DEF ToSet, r

Limit == Max({10, 2 * MaxSeeds})

\* All that a token may name.
Namesakes(d, token) == OfKinds(d, Named(d, token), CallableKind)

LEMMA NamesakesAre ==
    ASSUME NEW d, NEW token, IsList(d.rows), IsInjective(d.rows)
    PROVE  /\ IsList(Namesakes(d, token)) /\ IsInjective(Namesakes(d, token))
           /\ ToSet(Namesakes(d, token)) = {id \in ToSet(d.rows) : d.of[id].name = token /\ d.of[id].kind \in CallableKind}
<1> DEFINE at == Sites(d.rows, LAMBDA id : d.of[id].name = token)
           s == Picked(d.rows, at)
           on == Sites(s, LAMBDA id : CallableKind = {} \/ d.of[id].kind \in CallableKind)
           r == Picked(s, on)
<1>1. Named(d, token) = s /\ Namesakes(d, token) = r
  BY DEF Namesakes, OfKinds, Named, Where
<1>2. \A i \in DOMAIN d.rows : i \in at <=> d.of[d.rows[i]].name = token
  BY DEF Sites
<1>3. "class" \in CallableKind
  BY DEF CallableKind, DefinitionKind, TypeKind
<1>4. \A i \in DOMAIN s : i \in on <=> d.of[s[i]].kind \in CallableKind
  BY <1>3 DEF Sites
<1> HIDE DEF at
<1>5. IsList(s) /\ IsInjective(s) /\ ToSet(s) = {d.rows[i] : i \in DOMAIN d.rows \cap at}
  BY PickedList, PickedElements
<1> HIDE DEF s, on
<1>6. IsList(r) /\ IsInjective(r) /\ ToSet(r) = {s[i] : i \in DOMAIN s \cap on}
  BY <1>5, PickedList, PickedElements
<1> HIDE DEF r
<1>7. ToSet(s) = {id \in ToSet(d.rows) : d.of[id].name = token}
  <2>1. ToSet(d.rows) = {d.rows[i] : i \in DOMAIN d.rows}
    BY DEF ToSet
  <2> QED
    BY <1>2, <1>5, <2>1
<1>8. ToSet(r) = {id \in ToSet(s) : d.of[id].kind \in CallableKind}
  <2>1. ToSet(s) = {s[i] : i \in DOMAIN s}
    BY DEF ToSet
  <2> QED
    BY <1>4, <1>6, <2>1
<1> QED
  BY <1>1, <1>6, <1>7, <1>8

LEMMA JoinedTells ==
    ASSUME NEW s, NEW t, NEW S, NEW T, Tells(s, S), IsList(t), IdsOf(t) = T
    PROVE  Tells(Joined(s, t), S \cup T)
<1> DEFINE r == Joined(s, t)
           all == s \o t
<1>1. /\ IsList(s) /\ \A i, j \in DOMAIN s : s[i].id = s[j].id => i = j
      /\ S = {s[i].id : i \in DOMAIN s} /\ T = {t[i].id : i \in DOMAIN t}
  BY DEF Tells, IdsOf
<1>2. /\ IsList(r)
      /\ \A k \in DOMAIN r : r[k] \in ToSet(s) \cup ToSet(t)
      /\ \A k, l \in DOMAIN r : r[k].id = r[l].id => k = l
      /\ \A i \in DOMAIN all : \E k \in DOMAIN r : r[k].id = all[i].id
  BY <1>1, JoinedIs
<1>3. /\ DOMAIN s = 1 .. Len(s) /\ DOMAIN t = 1 .. Len(t) /\ DOMAIN all = 1 .. Len(s) + Len(t)
      /\ Len(s) \in Nat /\ Len(t) \in Nat
      /\ \A i \in 1 .. Len(s) : all[i] = s[i]
      /\ \A i \in 1 .. Len(t) : all[Len(s) + i] = t[i]
  BY <1>1, JoinedLists, ListIs
<1> HIDE DEF r, all
<1>4. ASSUME NEW x \in {r[k].id : k \in DOMAIN r} PROVE x \in S \cup T
  BY <1>1, <1>2 DEF ToSet
<1>5. ASSUME NEW x \in S PROVE x \in {r[k].id : k \in DOMAIN r}
  <2>1. PICK i \in DOMAIN s : x = s[i].id
    BY <1>1
  <2>2. i \in DOMAIN all /\ all[i] = s[i]
    BY <1>3
  <2> QED
    BY <1>2, <2>1, <2>2
<1>6. ASSUME NEW x \in T PROVE x \in {r[k].id : k \in DOMAIN r}
  <2>1. PICK i \in DOMAIN t : x = t[i].id
    BY <1>1
  <2>2. Len(s) + i \in DOMAIN all /\ all[Len(s) + i] = t[i]
    BY <1>3
  <2> QED
    BY <1>2, <2>1, <2>2
<1>7. IdsOf(r) = S \cup T
  BY <1>4, <1>5, <1>6 DEF IdsOf
<1> QED
  BY <1>2, <1>7 DEF Tells, r

LEMMA LimitIs == Limit \in Nat /\ Limit # 0
<1>1. MaxSeeds \in Nat /\ MaxSeeds # 0
  BY SearchAssumption
<1>2. 10 \in Int /\ 2 * MaxSeeds \in Int
  BY <1>1
<1>3. Limit = IF 10 >= 2 * MaxSeeds THEN 10 ELSE 2 * MaxSeeds
  BY <1>2, TwoOf DEF Limit
<1> QED
  BY <1>1, <1>3

\* The lookup of a name finds all its definitions when they are few.
LEMMA BestTells ==
    ASSUME NEW d, NEW token, NEW files, NEW most \in Nat, IsList(d.rows), IsInjective(d.rows),
           Len(Namesakes(d, token)) <= most
    PROVE  Tells(WithBest(d, token, CallableKind, files, most, <<>>), ToSet(Namesakes(d, token)))
<1> DEFINE ids == Namesakes(d, token)
           at == Sites(ids, LAMBDA id : id \notin IdsOf(<<>>))
           fresh == Picked(ids, at)
           s == [i \in DOMAIN fresh |-> Result(fresh[i], IF d.of[fresh[i]].file \in files THEN 210 ELSE 10)]
           b == WithBest(d, token, CallableKind, files, most, <<>>)
<1>2. IsList(ids) /\ IsInjective(ids) /\ Len(ids) \in Nat
  BY NamesakesAre, ListIs
<1>0. Take(ids, AtLeastFifty(3 * most)) = ids
  <2> DEFINE m == 3 * most
             t == AtLeastFifty(m)
  <2>1. m \in Nat /\ most <= m
    OBVIOUS
  <2> HIDE DEF m
  <2>2. t \in Nat /\ m <= t
    BY <2>1, AtLeastFiftyIs
  <2>3. Len(ids) <= most
    OBVIOUS
  <2> HIDE DEF t, ids
  <2>4. Len(ids) <= t
    BY <1>2, <2>1, <2>2, <2>3
  <2>5. Take(ids, t) = ids
    BY <1>2, <2>2, <2>4, TakenWhole
  <2> QED
    BY <2>5 DEF t, m
<1>1. b = <<>> \o Take(Ranked(s), most)
  BY <1>0 DEF WithBest, Where, Scored, Namesakes
<1>3. DOMAIN ids \subseteq at
  <2>1. IdsOf(<<>>) = {}
    BY EmptyList DEF IdsOf
  <2> QED
    BY <2>1 DEF Sites
<1> HIDE DEF ids, at
<1>4. IsList(fresh) /\ IsInjective(fresh) /\ Len(fresh) <= Len(ids) /\ Len(fresh) \in Nat
  BY <1>2, PickedList, ListIs
<1>5. ToSet(fresh) = ToSet(ids)
  <2>1. ToSet(fresh) = {ids[i] : i \in DOMAIN ids \cap at}
    BY <1>2, PickedElements
  <2> QED
    BY <1>3, <2>1 DEF ToSet
<1> HIDE DEF fresh
<1>6. s = [i \in DOMAIN fresh |-> s[i]] /\ \A i \in DOMAIN fresh : s[i].id = fresh[i]
  BY DEF Result
<1> HIDE DEF s
<1>7. Tells(s, ToSet(ids)) /\ Len(s) = Len(fresh)
  BY <1>4, <1>5, <1>6, ScoredTells
<1>8. Tells(Ranked(s), ToSet(ids)) /\ Len(Ranked(s)) <= most
  BY <1>2, <1>4, <1>7, RankedTells DEF ids
<1>9. Take(Ranked(s), most) = Ranked(s)
  BY <1>8, TakenWhole DEF Tells
<1>10. <<>> \o Ranked(s) = Ranked(s)
  <2>1. Ranked(s) \in Seq(ToSet(Ranked(s)))
    BY <1>8, ListIs DEF Tells
  <2> QED
    BY <2>1
<1> QED
  BY <1>1, <1>8, <1>9, <1>10 DEF ids

LEMMA LookupTells ==
    ASSUME NEW d, NEW token, IsList(d.rows), IsInjective(d.rows),
           Cardinality(ToSet(Namesakes(d, token))) <= Limit
    PROVE  Tells(FindByExactName(d, <<token>>, CallableKind, Limit), ToSet(Namesakes(d, token)))
<1> DEFINE names == <<token>>
           few == {s \in {FilesOfName(d, names[i], CallableKind) : i \in DOMAIN names} : Cardinality(s) < Distinctive}
           files == UNION few
           n == Len(names)
           most == Max({PerName, Limit \div n})
           f == CHOOSE f : f = [i \in 0 .. n |-> IF i = 0 THEN <<>>
                                                ELSE WithBest(d, names[i], CallableKind, files, most, f[i - 1])]
           S == ToSet(Namesakes(d, token))
<1>1. FindByExactName(d, names, CallableKind, Limit)
        = IF names = <<>> THEN <<>> ELSE Take(Ranked(f[n]), Limit)
  BY DEF FindByExactName
<1>2. n = 1 /\ names # <<>> /\ names[1] = token
  OBVIOUS
<1> HIDE DEF few, n, names
<1>3. most \in Nat /\ Limit <= most
  <2>1. PerName \in Nat /\ Limit \in Nat
    BY SearchAssumption, LimitIs
  <2>2. Limit \div n = Limit
    BY <1>2, <2>1
  <2>3. Max({PerName, Limit}) = IF PerName >= Limit THEN PerName ELSE Limit
    BY <2>1, TwoOf
  <2> QED
    BY <2>1, <2>2, <2>3
<1> HIDE DEF most, files
<1>4. FindsBest(d, names, CallableKind, files, most, n, f)
  <2>1. \E g : g = [i \in 0 .. n |-> IF i = 0 THEN <<>>
                                    ELSE WithBest(d, names[i], CallableKind, files, most, g[i - 1])]
    <3>1. n \in Nat
      BY <1>2
    <3> HIDE DEF n
    <3>2. \E g : FindsBest(d, names, CallableKind, files, most, n, g)
      BY <3>1, FindsBestExists
    <3> QED
      BY <3>2, Zenon DEF FindsBest
  <2>2. f = [i \in 0 .. n |-> IF i = 0 THEN <<>>
                             ELSE WithBest(d, names[i], CallableKind, files, most, f[i - 1])]
    BY <2>1
  <2> HIDE DEF f
  <2> QED
    BY <2>2 DEF FindsBest
<1> HIDE DEF f
<1>5. \A i \in 0 .. n : f[i] = IF i = 0 THEN <<>> ELSE WithBest(d, names[i], CallableKind, files, most, f[i - 1])
  BY <1>4 DEF FindsBest
<1>6. f[n] = WithBest(d, token, CallableKind, files, most, <<>>)
  <2>1. f[0] = <<>> /\ f[1] = WithBest(d, names[1], CallableKind, files, most, f[0])
    BY <1>2, <1>5
  <2> QED
    BY <1>2, <2>1
<1>7. Len(Namesakes(d, token)) <= Limit /\ Len(Namesakes(d, token)) \in Nat
  BY NamesakesAre, CountedOnce, ListIs
<1>8. Tells(f[n], S)
  BY <1>3, <1>6, <1>7, LimitIs, BestTells
<1>9. Tells(Ranked(f[n]), S) /\ Len(Ranked(f[n])) <= Limit
  <2>1. Len(f[n]) = Cardinality(S)
    BY <1>8, CountedResults
  <2> QED
    BY <1>8, <2>1, RankedTells
<1>10. Take(Ranked(f[n]), Limit) = Ranked(f[n])
  BY <1>9, LimitIs, TakenWhole DEF Tells
<1> QED
  BY <1>1, <1>2, <1>9, <1>10 DEF names

LEMMA SubstantiveIs ==
    ASSUME NEW d, NEW results, NEW S, Tells(results, S)
    PROVE  /\ IsList(Substantive(d, results)) /\ IsInjective(Substantive(d, results))
           /\ ToSet(Substantive(d, results)) = S
<1> DEFINE Weight(id) == d.of[id].size - (IF d.of[id].file \in TestFile THEN 1000 ELSE 0)
           s == [i \in DOMAIN results |-> Result(results[i].id, Weight(results[i].id))]
           t == Ranked(s)
           c == [i \in DOMAIN t |-> t[i].id]
           n == Len(results)
<1>1. Substantive(d, results) = c
  BY DEF Substantive
<1>2. /\ n \in Nat /\ DOMAIN results = 1 .. n
      /\ \A i, j \in DOMAIN results : results[i].id = results[j].id => i = j
      /\ S = {results[i].id : i \in DOMAIN results}
  BY ListIs DEF Tells, IdsOf
<1> HIDE DEF n
<1>3. s = [i \in 1 .. n |-> s[i]] /\ \A i \in 1 .. n : s[i].id = results[i].id
  BY <1>2 DEF Result
<1> HIDE DEF s
<1>4. IsList(s) /\ DOMAIN s = 1 .. n
  BY <1>2, <1>3, MappedIs
<1>5. Tells(s, S)
  BY <1>2, <1>3, <1>4 DEF Tells, IdsOf
<1>6. Tells(t, S)
  BY <1>5, RankedTells
<1> HIDE DEF t
<1>7. /\ Len(t) \in Nat /\ DOMAIN t = 1 .. Len(t)
      /\ \A i, j \in DOMAIN t : t[i].id = t[j].id => i = j
      /\ S = {t[i].id : i \in DOMAIN t}
  BY <1>6, ListIs DEF Tells, IdsOf
<1>8. c = [i \in 1 .. Len(t) |-> c[i]] /\ \A i \in 1 .. Len(t) : c[i] = t[i].id
  BY <1>7
<1> HIDE DEF c
<1>9. IsList(c) /\ DOMAIN c = 1 .. Len(t)
  BY <1>7, <1>8, MappedIs
<1>10. IsInjective(c)
  BY <1>7, <1>8, <1>9 DEF IsInjective
<1>11. ToSet(c) = S
  BY <1>7, <1>8, <1>9 DEF ToSet
<1> QED
  BY <1>1, <1>9, <1>10, <1>11

LEMMA ProductionIs ==
    ASSUME NEW d, NEW ids, IsList(ids)
    PROVE  /\ IsList(Production(d, ids)) /\ (IsInjective(ids) => IsInjective(Production(d, ids)))
           /\ ToSet(Production(d, ids)) = {id \in ToSet(ids) : d.of[id].file \notin TestFile}
<1> DEFINE at == Sites(ids, LAMBDA id : d.of[id].file \notin TestFile)
<1>1. Production(d, ids) = Picked(ids, at)
  BY DEF Production, Where
<1>2. \A i \in DOMAIN ids : i \in at <=> d.of[ids[i]].file \notin TestFile
  BY DEF Sites
<1> HIDE DEF at
<1>3. /\ IsList(Picked(ids, at)) /\ (IsInjective(ids) => IsInjective(Picked(ids, at)))
      /\ ToSet(Picked(ids, at)) = {ids[i] : i \in DOMAIN ids \cap at}
  BY PickedList, PickedElements
<1>4. {ids[i] : i \in DOMAIN ids \cap at} = {id \in ToSet(ids) : d.of[id].file \notin TestFile}
  BY <1>2 DEF ToSet
<1> QED
  BY <1>1, <1>3, <1>4

\* What is left to choose from is what the token is defined as.
LEMMA CandidatesAre ==
    ASSUME NEW d, NEW q, NEW token, IsList(d.rows), IsInjective(d.rows),
           Cardinality(ToSet(Namesakes(d, token))) <= Limit
    PROVE  /\ IsList(Candidates(d, q, token)) /\ IsInjective(Candidates(d, q, token))
           /\ ToSet(Candidates(d, q, token)) = Definitions(d, token, q.testQuery)
<1> DEFINE all == Namesakes(d, token)
           r == FindByExactName(d, <<token>>, CallableKind, Limit)
           s == Substantive(d, r)
<1>1. Candidates(d, q, token) = IF q.testQuery THEN s ELSE Production(d, s)
  BY DEF Candidates, Limit
<1>2. Definitions(d, token, q.testQuery) = ToSet(IF q.testQuery THEN all ELSE Production(d, all))
  BY DEF Definitions, Namesakes
<1>3. IsList(all)
  BY NamesakesAre
<1>4. Tells(r, ToSet(all))
  BY LookupTells
<1> HIDE DEF all, r
<1>5. IsList(s) /\ IsInjective(s) /\ ToSet(s) = ToSet(all)
  BY <1>4, SubstantiveIs
<1> HIDE DEF s
<1>6. CASE q.testQuery
  BY <1>1, <1>2, <1>5, <1>6
<1>7. CASE ~q.testQuery
  <2>1. Candidates(d, q, token) = Production(d, s) /\ Definitions(d, token, q.testQuery) = ToSet(Production(d, all))
    BY <1>1, <1>2, <1>7
  <2> QED
    BY <1>3, <1>5, <2>1, ProductionIs
<1> QED
  BY <1>6, <1>7

LEMMA ScoredOnce ==
    ASSUME NEW ids, IsList(ids), IsInjective(ids), NEW c
    PROVE  LET s == [i \in DOMAIN ids |-> Result(ids[i], c)]
           IN  Tells(s, ToSet(ids)) /\ Len(s) = Len(ids)
<1> DEFINE s == [i \in DOMAIN ids |-> Result(ids[i], c)]
<1>1. s = [i \in DOMAIN ids |-> s[i]] /\ \A i \in DOMAIN ids : s[i].id = ids[i]
  BY DEF Result
<1> HIDE DEF s
<1>2. Tells(s, ToSet(ids)) /\ Len(s) = Len(ids)
  BY <1>1, ScoredTells
<1> QED
  BY <1>2 DEF s

LEMMA TakenSome ==
    ASSUME NEW s, IsList(s), IsInjective(s), NEW n \in Nat
    PROVE  /\ IsList(Take(s, n)) /\ IsInjective(Take(s, n))
           /\ ToSet(Take(s, n)) \subseteq ToSet(s) /\ Len(Take(s, n)) <= n
           /\ (n # 0 /\ Len(s) # 0) => Len(Take(s, n)) # 0
<1> DEFINE t == Take(s, n)
<1>1. /\ IsList(t) /\ Len(t) = IF n <= Len(s) THEN n ELSE Len(s)
      /\ \A i \in 1 .. Len(t) : i \in DOMAIN s /\ t[i] = s[i]
  BY TakeIs
<1> HIDE DEF t
<1>2. Len(t) \in Nat /\ DOMAIN t = 1 .. Len(t) /\ Len(s) \in Nat
  BY <1>1, ListIs
<1>3. IsInjective(t)
  BY <1>1, <1>2 DEF IsInjective
<1>4. ToSet(t) \subseteq ToSet(s)
  BY <1>1, <1>2 DEF ToSet
<1> QED
  BY <1>1, <1>2, <1>3, <1>4 DEF t

\* All of three, and of more at least one and at most four.
LEMMA PicksAre ==
    ASSUME NEW d, NEW q, NEW ids, IsList(ids), IsInjective(ids)
    PROVE  LET P == IdsOf(Picks(d, q, ids))
           IN  /\ Tells(Picks(d, q, ids), P) /\ P \subseteq ToSet(ids)
               /\ Len(ids) <= 3 => P = ToSet(ids)
               /\ Len(ids) > 3 => Cardinality(P) \in 1 .. 4
<1> DEFINE types == q.types
           at == Sites(ids, LAMBDA id : types \cap {d.of[id].name, d.of[id].file, d.of[id].owner} # {})
           near == Take(Picked(ids, at), 4)
           some == Else(near, Take(ids, 1))
           whole == [i \in DOMAIN ids |-> Result(ids[i], SpecificBoost)]
           part == [i \in DOMAIN some |-> Result(some[i], GenericBoost)]
<1>1. Picks(d, q, ids) = IF Len(ids) <= 3 THEN whole ELSE part
  BY DEF Picks, Scored, InNamedContext, Where
<1>2. Len(ids) \in Nat
  BY ListIs
<1>3. CASE Len(ids) <= 3
  <2>1. Tells(whole, ToSet(ids))
    BY ScoredOnce
  <2> HIDE DEF whole
  <2>2. Picks(d, q, ids) = whole /\ ~(Len(ids) > 3)
    BY <1>1, <1>2, <1>3
  <2> QED
    BY <2>1, <2>2 DEF Tells
<1>4. CASE Len(ids) > 3
  <2> HIDE DEF at
  <2>1. /\ IsList(Picked(ids, at)) /\ IsInjective(Picked(ids, at))
        /\ ToSet(Picked(ids, at)) \subseteq ToSet(ids)
    <3>1. ToSet(Picked(ids, at)) = {ids[i] : i \in DOMAIN ids \cap at}
      BY PickedElements
    <3> QED
      BY <3>1, PickedList DEF ToSet
  <2>2. /\ IsList(near) /\ IsInjective(near) /\ Len(near) <= 4
        /\ ToSet(near) \subseteq ToSet(Picked(ids, at))
    BY <2>1, TakenSome
  <2>3. /\ IsList(Take(ids, 1)) /\ IsInjective(Take(ids, 1)) /\ Len(Take(ids, 1)) <= 1 /\ Len(Take(ids, 1)) # 0
        /\ ToSet(Take(ids, 1)) \subseteq ToSet(ids)
    BY <1>2, <1>4, TakenSome
  <2>4. some = IF near = <<>> THEN Take(ids, 1) ELSE near
    BY DEF Else
  <2>5. near # <<>> => Len(near) # 0
    <3>1. near \in Seq(ToSet(near))
      BY <2>2, ListIs
    <3> HIDE DEF near
    <3> QED
      BY <3>1
  <2> HIDE DEF near, some
  <2>6. /\ IsList(some) /\ IsInjective(some) /\ Len(some) <= 4 /\ Len(some) # 0 /\ Len(some) \in Nat
        /\ ToSet(some) \subseteq ToSet(ids)
    <3>1. CASE near = <<>>
      BY <2>3, <2>4, <3>1, ListIs
    <3>2. CASE near # <<>>
      BY <2>1, <2>2, <2>4, <2>5, <3>2, ListIs
    <3> QED
      BY <3>1, <3>2
  <2>7. Tells(part, ToSet(some))
    BY <2>6, ScoredOnce
  <2> HIDE DEF part
  <2>8. Picks(d, q, ids) = part /\ ~(Len(ids) <= 3)
    BY <1>1, <1>2, <1>4
  <2>9. IdsOf(part) = ToSet(some) /\ Cardinality(ToSet(some)) = Len(some)
    BY <2>6, <2>7, CountedOnce DEF Tells
  <2> QED
    BY <2>6, <2>7, <2>8, <2>9
<1> QED
  BY <1>2, <1>3, <1>4

-----------------------------------------------------------------------------
(* One token after the other. *)

Chosen(d, q, token) == IdsOf(Picks(d, q, Candidates(d, q, token)))

Findable(d, q) ==
    /\ IsList(d.rows) /\ IsInjective(d.rows) /\ IsList(q.symbols)
    /\ \A i \in DOMAIN q.symbols : Cardinality(ToSet(Namesakes(d, q.symbols[i]))) <= Limit

LEMMA ChosenIs ==
    ASSUME NEW d, NEW q, Findable(d, q), NEW i \in DOMAIN q.symbols
    PROVE  LET P == Chosen(d, q, q.symbols[i])
               D == Definitions(d, q.symbols[i], q.testQuery)
           IN  /\ Tells(Picks(d, q, Candidates(d, q, q.symbols[i])), P)
               /\ P \subseteq D /\ IsFiniteSet(D)
               /\ Cardinality(D) \in Nat
               /\ Cardinality(D) <= 3 => P = D
               /\ Cardinality(D) > 3 => Cardinality(P) \in 1 .. 4
<1> DEFINE c == Candidates(d, q, q.symbols[i])
           D == Definitions(d, q.symbols[i], q.testQuery)
<1>1. IsList(c) /\ IsInjective(c) /\ ToSet(c) = D
  BY CandidatesAre DEF Findable
<1>2. Chosen(d, q, q.symbols[i]) = IdsOf(Picks(d, q, c))
  BY DEF Chosen
<1> HIDE DEF c, D
<1>3. IsFiniteSet(D) /\ Cardinality(D) = Len(c) /\ Len(c) \in Nat
  BY <1>1, CountedOnce, ListIs
<1>4. /\ Tells(Picks(d, q, c), IdsOf(Picks(d, q, c))) /\ IdsOf(Picks(d, q, c)) \subseteq ToSet(c)
      /\ Len(c) <= 3 => IdsOf(Picks(d, q, c)) = ToSet(c)
      /\ Len(c) > 3 => Cardinality(IdsOf(Picks(d, q, c))) \in 1 .. 4
  BY <1>1, PicksAre
<1> QED
  BY <1>1, <1>2, <1>3, <1>4 DEF c, D

\* What a symbol is defined as bears its name.
LEMMA DefinedNamed ==
    ASSUME NEW d, NEW token, NEW testQuery, IsList(d.rows), IsInjective(d.rows)
    PROVE  \A id \in Definitions(d, token, testQuery) : id \in ToSet(d.rows) /\ d.of[id].name = token
<1> DEFINE all == Namesakes(d, token)
<1>1. Definitions(d, token, testQuery) = ToSet(IF testQuery THEN all ELSE Production(d, all))
  BY DEF Definitions, Namesakes
<1>2. IsList(all) /\ \A id \in ToSet(all) : id \in ToSet(d.rows) /\ d.of[id].name = token
  BY NamesakesAre
<1> HIDE DEF all
<1>3. ToSet(Production(d, all)) \subseteq ToSet(all)
  BY <1>2, ProductionIs
<1>4. CASE testQuery
  BY <1>1, <1>2, <1>4
<1>5. CASE ~testQuery
  BY <1>1, <1>2, <1>3, <1>5
<1> QED
  BY <1>4, <1>5

LEMMA SeededIs ==
    ASSUME NEW d, NEW q, Findable(d, q), NEW i \in DOMAIN q.symbols, NEW found, NEW S, Tells(found, S)
    PROVE  LET r == Seeded(d, q, found, q.symbols[i])
           IN  /\ Len(found) >= MaxSeeds => r = found
               /\ ~(Len(found) >= MaxSeeds) => Tells(r, S \cup Chosen(d, q, q.symbols[i]))
<1> DEFINE p == Picks(d, q, Candidates(d, q, q.symbols[i]))
           P == Chosen(d, q, q.symbols[i])
<1>1. Seeded(d, q, found, q.symbols[i]) = IF Len(found) >= MaxSeeds THEN found ELSE Joined(found, p)
  BY DEF Seeded, Joined
<1>2. Tells(p, P)
  BY ChosenIs
<1> HIDE DEF p, P
<1>3. IsList(p) /\ IdsOf(p) = P
  BY <1>2 DEF Tells
<1>4. Tells(Joined(found, p), S \cup P)
  BY <1>3, JoinedTells
<1> QED
  BY <1>1, <1>4 DEF P

\* What has been found after the first i tokens.
SeedStep(d, q, n, f) ==
    /\ \A i \in 0 .. n : Tells(f[i], IdsOf(f[i]))
    /\ IdsOf(f[0]) = {}
    /\ \A i \in 1 .. n :
         /\ IdsOf(f[i - 1]) \subseteq IdsOf(f[i])
         /\ IdsOf(f[i]) \subseteq IdsOf(f[i - 1]) \cup Chosen(d, q, q.symbols[i])
         /\ ~(Len(f[i - 1]) >= MaxSeeds) => Chosen(d, q, q.symbols[i]) \subseteq IdsOf(f[i])

LEMMA SeedsStep ==
    ASSUME NEW d, NEW q, Findable(d, q)
    PROVE  \E f : SeedNamedSymbols(d, q) = f[Len(q.symbols)] /\ SeedStep(d, q, Len(q.symbols), f)
<1> DEFINE n == Len(q.symbols)
           f == CHOOSE f : f = [i \in 0 .. n |-> IF i = 0 THEN <<>> ELSE Seeded(d, q, f[i - 1], q.symbols[i])]
<1>1. SeedNamedSymbols(d, q) = f[n]
  BY DEF SeedNamedSymbols
<1>2. n \in Nat /\ DOMAIN q.symbols = 1 .. n
  BY ListIs DEF Findable
<1> HIDE DEF n
<1>3. Seeds(d, q, n, f)
  <2>1. \E g : g = [i \in 0 .. n |-> IF i = 0 THEN <<>> ELSE Seeded(d, q, g[i - 1], q.symbols[i])]
    <3>1. \E g : Seeds(d, q, n, g)
      BY <1>2, SeedsExists
    <3> QED
      BY <3>1, Zenon DEF Seeds
  <2>2. f = [i \in 0 .. n |-> IF i = 0 THEN <<>> ELSE Seeded(d, q, f[i - 1], q.symbols[i])]
    BY <2>1
  <2> HIDE DEF f
  <2> QED
    BY <2>2 DEF Seeds
<1> HIDE DEF f
<1>4. \A i \in 0 .. n : f[i] = IF i = 0 THEN <<>> ELSE Seeded(d, q, f[i - 1], q.symbols[i])
  BY <1>3 DEF Seeds
<1>5. f[0] = <<>> /\ \A i \in 1 .. n : i \in DOMAIN q.symbols /\ f[i] = Seeded(d, q, f[i - 1], q.symbols[i])
  BY <1>2, <1>4
<1> DEFINE K == {i \in Nat : i <= n => Tells(f[i], IdsOf(f[i]))}
<1>6. 0 \in K /\ IdsOf(f[0]) = {}
  BY <1>5, EmptyList DEF Tells, IdsOf
<1>7. ASSUME NEW i \in 1 .. n, Tells(f[i - 1], IdsOf(f[i - 1]))
      PROVE  /\ Tells(f[i], IdsOf(f[i]))
             /\ IdsOf(f[i - 1]) \subseteq IdsOf(f[i])
             /\ IdsOf(f[i]) \subseteq IdsOf(f[i - 1]) \cup Chosen(d, q, q.symbols[i])
             /\ ~(Len(f[i - 1]) >= MaxSeeds) => Chosen(d, q, q.symbols[i]) \subseteq IdsOf(f[i])
  <2>1. /\ Len(f[i - 1]) >= MaxSeeds => f[i] = f[i - 1]
        /\ ~(Len(f[i - 1]) >= MaxSeeds) => Tells(f[i], IdsOf(f[i - 1]) \cup Chosen(d, q, q.symbols[i]))
    <3> DEFINE x == f[i - 1]
    <3>1. Tells(x, IdsOf(x))
      BY <1>7
    <3>2. i \in DOMAIN q.symbols /\ f[i] = Seeded(d, q, x, q.symbols[i])
      BY <1>5
    <3> HIDE DEF x
    <3>4. /\ Len(x) >= MaxSeeds => Seeded(d, q, x, q.symbols[i]) = x
          /\ ~(Len(x) >= MaxSeeds)
                => Tells(Seeded(d, q, x, q.symbols[i]), IdsOf(x) \cup Chosen(d, q, q.symbols[i]))
      BY <3>1, <3>2, SeededIs, Zenon
    <3>3. /\ Len(x) >= MaxSeeds => f[i] = x
          /\ ~(Len(x) >= MaxSeeds) => Tells(f[i], IdsOf(x) \cup Chosen(d, q, q.symbols[i]))
      BY <3>2, <3>4
    <3> QED
      BY <3>3 DEF x
  <2>2. CASE Len(f[i - 1]) >= MaxSeeds
    BY <1>7, <2>1, <2>2
  <2>3. CASE ~(Len(f[i - 1]) >= MaxSeeds)
    <3>1. IdsOf(f[i]) = IdsOf(f[i - 1]) \cup Chosen(d, q, q.symbols[i])
      BY <2>1, <2>3 DEF Tells
    <3> QED
      BY <2>1, <2>3, <3>1
  <2> QED
    BY <2>2, <2>3
<1>8. ASSUME NEW i \in Nat, i \in K PROVE i + 1 \in K
  <2> SUFFICES ASSUME i + 1 <= n PROVE Tells(f[i + 1], IdsOf(f[i + 1]))
    OBVIOUS
  <2> DEFINE k == i + 1
  <2>1. k \in 1 .. n /\ k - 1 = i
    BY <1>2
  <2>2. Tells(f[k - 1], IdsOf(f[k - 1]))
    BY <1>2, <1>8, <2>1
  <2> HIDE DEF k
  <2>3. Tells(f[k], IdsOf(f[k]))
    BY <1>7, <2>1, <2>2
  <2> QED
    BY <2>3 DEF k
<1> HIDE DEF K
<1>9. \A i \in Nat : i \in K
  BY <1>6, <1>8, SetInduction
<1>10. \A i \in 0 .. n : Tells(f[i], IdsOf(f[i]))
  BY <1>2, <1>9 DEF K
<1>11. \A i \in 1 .. n : Tells(f[i - 1], IdsOf(f[i - 1]))
  BY <1>2, <1>10
<1>12. SeedStep(d, q, n, f)
  BY <1>6, <1>7, <1>10, <1>11 DEF SeedStep
<1> QED
  BY <1>1, <1>12 DEF n

\* Any number of symbols: what one of them was given is there in the end, and
\* what is there of its definitions was given to it.
LEMMA SeedsHold ==
    ASSUME NEW d, NEW q, Findable(d, q), NEW n, n = Len(q.symbols), NEW f, SeedStep(d, q, n, f)
    PROVE  /\ \A x \in IdsOf(f[n]) : \E j \in 1 .. n : x \in Chosen(d, q, q.symbols[j])
           /\ \A i \in 1 .. n : \A x \in IdsOf(f[i - 1]) : \E j \in 1 .. i - 1 : x \in Chosen(d, q, q.symbols[j])
           /\ \A i \in 1 .. n : IdsOf(f[i - 1]) \subseteq IdsOf(f[n]) /\ IdsOf(f[i]) \subseteq IdsOf(f[n])
<1> DEFINE P(j) == Chosen(d, q, q.symbols[j])
           A(i) == IdsOf(f[i])
<1>1. n \in Nat
  BY ListIs DEF Findable
<1>2. /\ A(0) = {}
      /\ \A i \in 1 .. n : A(i - 1) \subseteq A(i) /\ A(i) \subseteq A(i - 1) \cup P(i)
  BY DEF SeedStep
<1> HIDE DEF A, P
<1> DEFINE K == {i \in Nat : i <= n => \A x \in A(i) : \E j \in 1 .. i : x \in P(j)}
<1>3. 0 \in K
  BY <1>2
<1>4. ASSUME NEW i \in Nat, i \in K PROVE i + 1 \in K
  <2> SUFFICES ASSUME i + 1 <= n, NEW x \in A(i + 1) PROVE \E j \in 1 .. i + 1 : x \in P(j)
    OBVIOUS
  <2> DEFINE k == i + 1
  <2>1. k \in 1 .. n /\ k - 1 = i
    BY <1>1
  <2> HIDE DEF k
  <2>2. x \in A(k) => x \in A(k - 1) \/ x \in P(k)
    BY <1>2, <2>1
  <2>3. x \in A(i) \/ x \in P(k)
    BY <2>1, <2>2 DEF k
  <2>4. CASE x \in A(i)
    <3>1. PICK j \in 1 .. i : x \in P(j)
      BY <1>1, <1>4, <2>4
    <3> QED
      BY <3>1
  <2>5. CASE x \in P(k)
    BY <2>1, <2>5 DEF k
  <2> QED
    BY <2>3, <2>4, <2>5
<1> HIDE DEF K
<1>5. \A i \in Nat : i \in K
  BY <1>3, <1>4, SetInduction
<1>6. \A i \in 0 .. n : \A x \in A(i) : \E j \in 1 .. i : x \in P(j)
  BY <1>1, <1>5 DEF K
<1> DEFINE L == {m \in Nat : m <= n => A(n - m) \subseteq A(n)}
<1>7. 0 \in L
  BY <1>1
<1>8. ASSUME NEW m \in Nat, m \in L PROVE m + 1 \in L
  <2> SUFFICES ASSUME m + 1 <= n PROVE A(n - (m + 1)) \subseteq A(n)
    OBVIOUS
  <2> DEFINE k == n - m
  <2>1. k \in 1 .. n /\ n - (m + 1) = k - 1
    BY <1>1
  <2>2. A(k) \subseteq A(n)
    BY <1>1, <1>8
  <2> HIDE DEF k
  <2>3. A(k - 1) \subseteq A(k)
    BY <1>2, <2>1
  <2> QED
    BY <2>1, <2>2, <2>3
<1> HIDE DEF L
<1>9. \A m \in Nat : m \in L
  BY <1>7, <1>8, SetInduction
<1>10. ASSUME NEW i \in 0 .. n PROVE A(i) \subseteq A(n)
  <2> DEFINE m == n - i
  <2>1. m \in Nat /\ m <= n /\ n - m = i
    BY <1>1
  <2> HIDE DEF m
  <2>2. A(n - m) \subseteq A(n)
    BY <1>9, <2>1 DEF L
  <2> QED
    BY <2>1, <2>2
<1>11. \A i \in 1 .. n : i \in 0 .. n /\ i - 1 \in 0 .. n
  BY <1>1
<1>12. n \in 0 .. n
  BY <1>1
<1> QED
  BY <1>6, <1>10, <1>11, <1>12 DEF A, P

LEMMA SeedsSound ==
    ASSUME NEW d, NEW q, Findable(d, q)
    PROVE  LET answer == SeedNamedSymbols(d, q)
               Defined(i) == Definitions(d, q.symbols[i], q.testQuery)
               before(i) == UNION {Defined(j) \cap IdsOf(answer) : j \in 1 .. i - 1}
           IN  /\ IdsOf(answer) \subseteq UNION {Defined(i) : i \in DOMAIN q.symbols}
               /\ \A i \in DOMAIN q.symbols :
                    LET chosen == Defined(i) \cap IdsOf(answer)
                    IN  Cardinality(before(i)) < MaxSeeds =>
                           IF Cardinality(Defined(i)) <= 3
                           THEN chosen = Defined(i)
                           ELSE Cardinality(chosen) \in 1 .. 4
<1> DEFINE n == Len(q.symbols)
           answer == SeedNamedSymbols(d, q)
           A == IdsOf(answer)
           D(i) == Definitions(d, q.symbols[i], q.testQuery)
           P(i) == Chosen(d, q, q.symbols[i])
           before(i) == UNION {D(j) \cap A : j \in 1 .. i - 1}
<1>1. IsList(d.rows) /\ IsInjective(d.rows) /\ n \in Nat /\ DOMAIN q.symbols = 1 .. n
  BY ListIs DEF Findable
<1>2. PICK f : answer = f[n] /\ SeedStep(d, q, n, f)
  BY SeedsStep
<1>3. \A i \in 1 .. n : /\ P(i) \subseteq D(i) /\ IsFiniteSet(D(i)) /\ Cardinality(D(i)) \in Nat
                        /\ Cardinality(D(i)) <= 3 => P(i) = D(i)
                        /\ Cardinality(D(i)) > 3 => Cardinality(P(i)) \in 1 .. 4
  BY <1>1, ChosenIs
<1>4. \A i \in 1 .. n : \A x \in D(i) : x \in ToSet(d.rows) /\ d.of[x].name = q.symbols[i]
  BY <1>1, DefinedNamed
<1>5. \A i, j \in 1 .. n : q.symbols[i] = q.symbols[j] => P(i) = P(j)
  OBVIOUS
<1>6. /\ \A x \in IdsOf(f[n]) : \E j \in 1 .. n : x \in P(j)
      /\ \A i \in 1 .. n : \A x \in IdsOf(f[i - 1]) : \E j \in 1 .. i - 1 : x \in P(j)
      /\ \A i \in 1 .. n : IdsOf(f[i - 1]) \subseteq IdsOf(f[n]) /\ IdsOf(f[i]) \subseteq IdsOf(f[n])
  BY <1>2, SeedsHold
<1>7. \A i \in 1 .. n : /\ Tells(f[i - 1], IdsOf(f[i - 1]))
                        /\ ~(Len(f[i - 1]) >= MaxSeeds) => P(i) \subseteq IdsOf(f[i])
  <2>1. \A i \in 0 .. n : Tells(f[i], IdsOf(f[i]))
    BY <1>2 DEF SeedStep
  <2>2. \A i \in 1 .. n : i - 1 \in 0 .. n
    BY <1>1
  <2> QED
    BY <1>2, <2>1, <2>2 DEF SeedStep
<1>8. A = IdsOf(f[n])
  BY <1>2
<1> HIDE DEF n, answer, A, D, P
<1>9. \A x \in A : \E j \in 1 .. n : x \in P(j) /\ x \in D(j)
  <2> SUFFICES ASSUME NEW x \in A PROVE \E j \in 1 .. n : x \in P(j) /\ x \in D(j)
    OBVIOUS
  <2>1. PICK j \in 1 .. n : x \in P(j)
    BY <1>6, <1>8
  <2> QED
    BY <1>3, <2>1
<1>10. A \subseteq UNION {D(i) : i \in 1 .. n}
  BY <1>9
<1>11. ASSUME NEW i \in 1 .. n PROVE D(i) \cap A \subseteq P(i)
  <2> SUFFICES ASSUME NEW x \in D(i), x \in A PROVE x \in P(i)
    OBVIOUS
  <2>1. PICK j \in 1 .. n : x \in P(j) /\ x \in D(j)
    BY <1>9
  <2>2. q.symbols[i] = q.symbols[j]
    BY <1>4, <2>1
  <2> QED
    BY <1>5, <2>1, <2>2
<1>12. ASSUME NEW i \in 1 .. n, Cardinality(before(i)) < MaxSeeds PROVE P(i) \subseteq A
  <2>1. IsFiniteSet(before(i))
    <3>1. IsFiniteSet(ToSet(d.rows))
      BY <1>1, CountedOnce
    <3>2. before(i) \subseteq ToSet(d.rows)
      BY <1>1, <1>4
    <3> HIDE DEF before
    <3> QED
      BY <3>1, <3>2, FS_Subset
  <2>2. IdsOf(f[i - 1]) \subseteq before(i)
    <3> SUFFICES ASSUME NEW x \in IdsOf(f[i - 1]) PROVE x \in before(i)
      OBVIOUS
    <3>1. x \in A
      BY <1>6, <1>8
    <3>2. PICK j \in 1 .. i - 1 : x \in P(j)
      BY <1>6
    <3>3. j \in 1 .. n
      BY <1>1
    <3> QED
      BY <1>3, <3>1, <3>2, <3>3
  <2> HIDE DEF before
  <2>3. Cardinality(IdsOf(f[i - 1])) <= Cardinality(before(i)) /\ Cardinality(before(i)) \in Nat
    BY <2>1, <2>2, FS_Subset, FS_CardinalityType
  <2>4. Cardinality(IdsOf(f[i - 1])) = Len(f[i - 1]) /\ Len(f[i - 1]) \in Nat
    <3> DEFINE x == f[i - 1]
    <3>1. Tells(x, IdsOf(x))
      BY <1>7
    <3> HIDE DEF x
    <3>2. Cardinality(IdsOf(x)) = Len(x) /\ Len(x) \in Nat
      BY <3>1, CountedResults, ListIs DEF Tells
    <3> QED
      BY <3>2 DEF x
  <2>5. MaxSeeds \in Nat
    BY SearchAssumption
  <2>6. ~(Len(f[i - 1]) >= MaxSeeds)
    BY <1>12, <2>3, <2>4, <2>5
  <2> QED
    BY <1>6, <1>7, <1>8, <2>6
<1>13. ASSUME NEW i \in 1 .. n, Cardinality(before(i)) < MaxSeeds
       PROVE  IF Cardinality(D(i)) <= 3 THEN D(i) \cap A = D(i) ELSE Cardinality(D(i) \cap A) \in 1 .. 4
  <2>1. D(i) \cap A = P(i)
    BY <1>3, <1>11, <1>12, <1>13
  <2> HIDE DEF before
  <2> QED
    BY <1>3, <2>1
<1> QED
  BY <1>1, <1>10, <1>13 DEF n, answer, A, D

-----------------------------------------------------------------------------
(* What is seeded. *)

\* Deletions take rows and change none.
Shrunk == \E d \in Databases : db.of = d.of /\ ToSet(db.rows) \subseteq ToSet(d.rows)

LEMMA ShrinksOnly == IInv /\ Shrunk /\ [Next]_vars => Shrunk'
<1> SUFFICES ASSUME IInv, Shrunk, [Next]_vars PROVE Shrunk'
  OBVIOUS
<1>1. CASE db' = db
  BY <1>1 DEF Shrunk
<1>2. ASSUME NEW file \in db.files, DeleteFile(file) PROVE Shrunk'
  <2> DEFINE gone == {id \in ToSet(db.rows) : db.of[id].file = file}
             at == Sites(db.rows, LAMBDA id : id \notin gone)
             on == Sites(db.edges, LAMBDA e : {e.source, e.target} \cap gone = {})
  <2>1. Storable(db)
    BY DEF IInv, Asked
  <2>2. {"rows", "of", "files", "edges", "near"} \subseteq DOMAIN db /\ IsList(db.rows)
    BY <2>1 DEF Storable
  <2>3. db' = [db EXCEPT !.rows = Picked(@, at), !.files = @ \ {file}, !.edges = Picked(@, on)]
    BY <1>2 DEF DeleteFile, Where
  <2> HIDE DEF gone, at, on
  <2>4. db'.of = db.of /\ db'.rows = Picked(db.rows, at)
    BY <2>2, <2>3
  <2>5. ToSet(db'.rows) = {db.rows[i] : i \in DOMAIN db.rows \cap at}
    BY <2>2, <2>4, PickedElements
  <2>6. ToSet(db'.rows) \subseteq ToSet(db.rows)
    BY <2>5 DEF ToSet
  <2> QED
    BY <2>4, <2>6 DEF Shrunk
<1>3. CASE Builder
  BY <1>1, <1>3 DEF Builder, Ask, Seed, SearchExact, SearchText, MergeHits, ResolveImports, ExpandHierarchy,
     FinishHierarchy, WalkAround, CapFiles, CapTests, RecoverEdges, InjectSeeds, Return
<1> QED
  BY <1>1, <1>2, <1>3 DEF Next, vars

LEMMA FewAreFindable ==
    ASSUME FewNamesakes, IInv, Shrunk, pc # "idle"
    PROVE  Findable(db, query)
<1>1. query \in Questions /\ IsList(query.symbols) /\ IsList(db.rows)
  BY QuestionIs
<1>2. IsInjective(db.rows)
  BY DEF IInv, Asked, Storable
<1>3. PICK d \in Databases : db.of = d.of /\ ToSet(db.rows) \subseteq ToSet(d.rows)
  BY DEF Shrunk
<1>4. IsList(d.rows) /\ IsInjective(d.rows)
  BY ContextAssumption DEF Storable
<1>5. ASSUME NEW i \in DOMAIN query.symbols
      PROVE  Cardinality(ToSet(Namesakes(db, query.symbols[i]))) <= Limit
  <2> DEFINE token == query.symbols[i]
             R == ToSet(Namesakes(db, token))
             S == ToSet(Namesakes(d, token))
  <2>1. R = {id \in ToSet(db.rows) : db.of[id].name = token /\ db.of[id].kind \in CallableKind}
    BY <1>1, <1>2, NamesakesAre
  <2>2. S = {id \in ToSet(d.rows) : d.of[id].name = token /\ d.of[id].kind \in CallableKind}
    BY <1>4, NamesakesAre
  <2>3. IsFiniteSet(S)
    BY <1>4, NamesakesAre, CountedOnce
  <2>4. Cardinality(S) <= Limit
    BY <1>1 DEF FewNamesakes, Limit, Namesakes
  <2> HIDE DEF token, R, S
  <2>5. R \subseteq S
    BY <1>3, <2>1, <2>2
  <2>6. Cardinality(R) <= Cardinality(S) /\ Cardinality(R) \in Nat /\ Cardinality(S) \in Nat
    BY <2>3, <2>5, FS_Subset, FS_CardinalityType
  <2>7. Cardinality(R) <= Limit
    BY <2>4, <2>6, LimitIs
  <2> QED
    BY <2>7 DEF R, token
<1> QED
  BY <1>1, <1>2, <1>5 DEF Findable

\* Below the limit of a lookup, each symbol of a question is seeded with all
\* its production definitions if they are three at most, and with one to four of
\* them if not, in whatever order symbols and rows come (seed_named_symbols).
THEOREM SeedsAre == FewNamesakes => (Spec => []SeedsNamed)
<1> SUFFICES ASSUME FewNamesakes PROVE Spec => []SeedsNamed
  OBVIOUS
<1>1. Init => Shrunk
  BY DEF Init, Shrunk
<1>2. IInv /\ Shrunk /\ [Next]_vars => Shrunk'
  BY ShrinksOnly
<1>3. IInv /\ Shrunk => SeedsNamed
  <2> SUFFICES ASSUME IInv, Shrunk, pc = "seed" PROVE SeedsNamed
    BY DEF SeedsNamed
  <2>1. Findable(db, query)
    BY FewAreFindable
  <2> QED
    BY <2>1, SeedsSound DEF SeedsNamed
<1> QED
  BY <1>1, <1>2, <1>3, Invariance, PTL DEF Spec
=============================================================================
