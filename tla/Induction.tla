----------------------------- MODULE Induction -----------------------------
(***************************************************************************)
(* Induction over the natural numbers, for sets of them.  With it the      *)
(* recursive functions of the models are unfolded, and what they compute   *)
(* is proved for every argument; those of Lists are unfolded here.         *)
(***************************************************************************)
EXTENDS Lists, SequencesExt, SequenceTheorems, TLAPS, WellFoundedInduction

\* A set of natural numbers that is not empty has a smallest element.
LEMMA Smallest ==
    ASSUME NEW T \in SUBSET Nat, T # {}
    PROVE  \E m \in T : \A k \in T : m <= k
<1>1. PICK m \in T : \A k \in T : ~ (<<k, m>> \in OpToRel(<, Nat))
  BY NatLessThanWellFounded, WFMin
<1>2. \A k \in T : ~ (k < m)
  BY <1>1 DEF OpToRel
<1> QED
  BY <1>2

\* Induction over the natural numbers, for a set of them.
LEMMA SetInduction ==
    ASSUME NEW S, 0 \in S, \A n \in Nat : n \in S => n + 1 \in S
    PROVE  \A n \in Nat : n \in S
<1> SUFFICES ASSUME Nat \ S # {} PROVE FALSE
  OBVIOUS
<1>1. PICK m \in Nat \ S : \A k \in Nat \ S : m <= k
  BY Smallest
<1>2. m # 0 /\ m - 1 \in Nat /\ ~ (m <= m - 1) /\ (m - 1) + 1 = m
  BY <1>1
<1> QED
  BY <1>1, <1>2

\* The same, from all smaller numbers.
LEMMA CourseOfValues ==
    ASSUME NEW S, \A n \in Nat : (\A m \in 0 .. n - 1 : m \in S) => n \in S
    PROVE  \A n \in Nat : n \in S
<1> SUFFICES ASSUME Nat \ S # {} PROVE FALSE
  OBVIOUS
<1>1. PICK m \in Nat \ S : \A k \in Nat \ S : m <= k
  BY Smallest
<1>2. \A k \in 0 .. m - 1 : k \in Nat /\ ~ (m <= k)
  OBVIOUS
<1> QED
  BY <1>1, <1>2

-----------------------------------------------------------------------------
(* Comprehensions. *)

Keeping(s, at, n, f) ==
    f = [i \in 0 .. n |-> IF i = 0 THEN <<>> ELSE IF i \in at THEN Append(f[i - 1], s[i]) ELSE f[i - 1]]

LEMMA KeepingExists ==
    ASSUME NEW s, NEW at, NEW m \in Nat
    PROVE  \E f : Keeping(s, at, m, f)
<1> DEFINE K == {n \in Nat : \E f : Keeping(s, at, n, f)}
<1>1. 0 \in K
  <2> DEFINE f == [i \in 0 .. 0 |-> <<>>]
  <2>1. Keeping(s, at, 0, f)
    BY DEF Keeping
  <2> QED
    BY <2>1
<1>2. ASSUME NEW n \in Nat, n \in K PROVE n + 1 \in K
  <2>1. PICK f : Keeping(s, at, n, f)
    BY <1>2
  <2> DEFINE x == IF n + 1 \in at THEN Append(f[n], s[n + 1]) ELSE f[n]
             g == [i \in 0 .. n + 1 |-> IF i = n + 1 THEN x ELSE f[i]]
             h == [i \in 0 .. n + 1 |-> IF i = 0 THEN <<>> ELSE IF i \in at THEN Append(g[i - 1], s[i]) ELSE g[i - 1]]
  <2>2. \A i \in 0 .. n : f[i] = IF i = 0 THEN <<>> ELSE IF i \in at THEN Append(f[i - 1], s[i]) ELSE f[i - 1]
    BY <2>1 DEF Keeping
  <2>3. ASSUME NEW i \in 0 .. n + 1 PROVE g[i] = h[i]
    <3>1. CASE i = n + 1
      <4>1. i # 0 /\ i - 1 = n /\ i - 1 \in 0 .. n + 1 /\ i - 1 # n + 1
        BY <3>1
      <4>2. g[i] = x /\ g[i - 1] = f[n]
        BY <3>1, <4>1
      <4> QED
        BY <3>1, <4>1, <4>2
    <3>2. CASE i # n + 1
      <4>1. i \in 0 .. n
        BY <3>2
      <4>2. i # 0 => i - 1 \in 0 .. n + 1 /\ i - 1 # n + 1
        BY <4>1
      <4>3. g[i] = f[i] /\ (i # 0 => g[i - 1] = f[i - 1])
        BY <3>2, <4>2
      <4> HIDE DEF g
      <4> QED
        BY <2>2, <4>1, <4>3
    <3> QED
      BY <3>1, <3>2
  <2>4. g = h
    <3>1. g = [i \in 0 .. n + 1 |-> g[i]] /\ h = [i \in 0 .. n + 1 |-> h[i]]
      OBVIOUS
    <3> HIDE DEF g, h
    <3> QED
      BY <2>3, <3>1
  <2> HIDE DEF g
  <2>5. Keeping(s, at, n + 1, g)
    BY <2>4 DEF Keeping
  <2> QED
    BY <2>5
<1> HIDE DEF K
<1>3. \A n \in Nat : n \in K
  BY <1>1, <1>2, SetInduction
<1> QED
  BY <1>3 DEF K

LEMMA PickedKeeps ==
    ASSUME NEW s, NEW at, Len(s) \in Nat
    PROVE  \E f : Keeping(s, at, Len(s), f) /\ Picked(s, at) = f[Len(s)]
<1> DEFINE f == CHOOSE f : f = [i \in 0 .. Len(s) |-> IF i = 0 THEN <<>>
                                                   ELSE IF i \in at THEN Append(f[i - 1], s[i]) ELSE f[i - 1]]
<1>1. \E g : g = [i \in 0 .. Len(s) |-> IF i = 0 THEN <<>>
                                       ELSE IF i \in at THEN Append(g[i - 1], s[i]) ELSE g[i - 1]]
  <2>1. \E g : Keeping(s, at, Len(s), g)
    BY KeepingExists
  <2> QED
    BY <2>1 DEF Keeping
<1>2. f = [i \in 0 .. Len(s) |-> IF i = 0 THEN <<>> ELSE IF i \in at THEN Append(f[i - 1], s[i]) ELSE f[i - 1]]
  BY <1>1
<1>3. Picked(s, at) = f[Len(s)]
  BY DEF Picked
<1> HIDE DEF f
<1> QED
  BY <1>2, <1>3 DEF Keeping

\* h tells where in s each element of t was picked.
PickedBy(s, at, t, h) ==
    /\ h \in [1 .. Len(t) -> DOMAIN s \cap at]
    /\ \A k \in 1 .. Len(t) : t[k] = s[h[k]]
    /\ \A j, k \in 1 .. Len(t) : j < k => h[j] < h[k]
    /\ \A i \in DOMAIN s \cap at : \E k \in 1 .. Len(t) : h[k] = i

LEMMA PickedIs ==
    ASSUME NEW S, NEW s \in Seq(S), NEW at
    PROVE  /\ Picked(s, at) \in Seq(S)
           /\ \E h : PickedBy(s, at, Picked(s, at), h)
<1> DEFINE m == Len(s)
<1>1. m \in Nat /\ DOMAIN s = 1 .. m /\ \A i \in 1 .. m : s[i] \in S
  OBVIOUS
<1>2. PICK f : Keeping(s, at, m, f) /\ Picked(s, at) = f[m]
  BY <1>1, PickedKeeps
<1>3. \A i \in 0 .. m : f[i] = IF i = 0 THEN <<>> ELSE IF i \in at THEN Append(f[i - 1], s[i]) ELSE f[i - 1]
  BY <1>2 DEF Keeping
<1> DEFINE P(n, t, h) == /\ t \in Seq(S)
                         /\ h \in [1 .. Len(t) -> (1 .. n) \cap at]
                         /\ \A k \in 1 .. Len(t) : t[k] = s[h[k]]
                         /\ \A j, k \in 1 .. Len(t) : j < k => h[j] < h[k]
                         /\ \A i \in (1 .. n) \cap at : \E k \in 1 .. Len(t) : h[k] = i
           K == {n \in Nat : n <= m => \E h : P(n, f[n], h)}
<1> HIDE DEF m
<1>4. 0 \in K
  <2>1. f[0] = <<>>
    BY <1>1, <1>3
  <2> DEFINE h == [k \in 1 .. 0 |-> 0]
  <2>2. P(0, <<>>, h)
    OBVIOUS
  <2> HIDE DEF P
  <2> QED
    BY <2>1, <2>2
<1>5. ASSUME NEW n \in Nat, n \in K PROVE n + 1 \in K
  <2> SUFFICES ASSUME n + 1 <= m PROVE \E h : P(n + 1, f[n + 1], h)
    OBVIOUS
  <2>1. PICK h : P(n, f[n], h)
    BY <1>1, <1>5
  <2>2. f[n + 1] = IF n + 1 \in at THEN Append(f[n], s[n + 1]) ELSE f[n]
    BY <1>1, <1>3
  <2>3. n + 1 \in 1 .. m /\ s[n + 1] \in S
    BY <1>1
  <2>4. CASE n + 1 \notin at
    <3>1. (1 .. n + 1) \cap at = (1 .. n) \cap at
      BY <2>4
    <3> QED
      BY <2>1, <2>2, <2>4, <3>1
  <2>5. CASE n + 1 \in at
    <3> DEFINE t == f[n]
               l == Len(t)
               u == Append(t, s[n + 1])
               g == [k \in 1 .. l + 1 |-> IF k = l + 1 THEN n + 1 ELSE h[k]]
    <3>1. /\ t \in Seq(S) /\ l \in Nat
          /\ h \in [1 .. l -> (1 .. n) \cap at]
          /\ \A k \in 1 .. l : t[k] = s[h[k]]
          /\ \A j, k \in 1 .. l : j < k => h[j] < h[k]
          /\ \A i \in (1 .. n) \cap at : \E k \in 1 .. l : h[k] = i
      BY <2>1
    <3>2. /\ u \in Seq(S) /\ Len(u) = l + 1 /\ u[l + 1] = s[n + 1]
          /\ \A k \in 1 .. l : u[k] = t[k]
      BY <2>3, <3>1
    <3>3. /\ g \in [1 .. l + 1 -> (1 .. n + 1) \cap at] /\ g[l + 1] = n + 1
          /\ \A k \in 1 .. l : g[k] = h[k] /\ g[k] \in 1 .. n
      <4>1. (1 .. n) \cap at \subseteq (1 .. n + 1) \cap at /\ n + 1 \in (1 .. n + 1) \cap at
        BY <2>5
      <4>2. l + 1 \in 1 .. l + 1 /\ \A k \in 1 .. l : k \in 1 .. l + 1 /\ k # l + 1
        BY <3>1
      <4>3. \A k \in 1 .. l + 1 : k = l + 1 \/ k \in 1 .. l
        BY <3>1
      <4> HIDE DEF l
      <4>4. \A k \in 1 .. l : h[k] \in (1 .. n) \cap at
        BY <3>1
      <4> QED
        BY <4>1, <4>2, <4>3, <4>4
    <3>4. \A k \in 1 .. l + 1 : k \in 1 .. l \/ k = l + 1
      <4> HIDE DEF l
      <4> QED
        BY <3>1
    <3> HIDE DEF t, l, u, g
    <3>5. \A k \in 1 .. l + 1 : u[k] = s[g[k]]
      BY <3>1, <3>2, <3>3, <3>4
    <3>6. \A j, k \in 1 .. l + 1 : j < k => g[j] < g[k]
      <4> SUFFICES ASSUME NEW j \in 1 .. l + 1, NEW k \in 1 .. l + 1, j < k PROVE g[j] < g[k]
        OBVIOUS
      <4>1. j \in 1 .. l
        BY <3>1
      <4>2. CASE k = l + 1
        BY <3>3, <4>1, <4>2
      <4>3. CASE k # l + 1
        BY <3>1, <3>3, <3>4, <4>1, <4>3
      <4> QED
        BY <4>2, <4>3
    <3>7. \A i \in (1 .. n + 1) \cap at : \E k \in 1 .. l + 1 : g[k] = i
      <4> SUFFICES ASSUME NEW i \in (1 .. n + 1) \cap at PROVE \E k \in 1 .. l + 1 : g[k] = i
        OBVIOUS
      <4>1. CASE i = n + 1
        BY <3>1, <3>3, <4>1
      <4>2. CASE i # n + 1
        <5>1. i \in (1 .. n) \cap at
          BY <4>2
        <5>2. PICK k \in 1 .. l : h[k] = i
          BY <3>1, <5>1
        <5> QED
          BY <3>1, <3>3, <5>2
      <4> QED
        BY <4>1, <4>2
    <3>8. P(n + 1, u, g)
      BY <3>2, <3>3, <3>5, <3>6, <3>7
    <3>9. f[n + 1] = u
      BY <2>2, <2>5 DEF t, u
    <3> HIDE DEF P
    <3> QED
      BY <3>8, <3>9
  <2> QED
    BY <2>4, <2>5
<1> HIDE DEF K
<1>6. \A n \in Nat : n \in K
  BY <1>4, <1>5, SetInduction
<1>7. PICK h : P(m, f[m], h)
  BY <1>1, <1>6 DEF K
<1>8. PickedBy(s, at, f[m], h)
  BY <1>1, <1>7 DEF PickedBy
<1> QED
  BY <1>2, <1>7, <1>8

-----------------------------------------------------------------------------
(* Recursion over a position: g takes the position and what there is. *)

Stepping(S, g) == g \in [Nat \X S -> S]

Recurs(S, a, g, m, f) ==
    /\ f \in [0 .. m -> S]
    /\ f[0] = a
    /\ \A i \in 1 .. m : f[i] = g[<<i, f[i - 1]>>]

LEMMA Recursion ==
    ASSUME NEW S, NEW a \in S, NEW g, Stepping(S, g), NEW m \in Nat
    PROVE  \E f : Recurs(S, a, g, m, f)
<1> DEFINE Rec(n, f) == /\ f \in [0 .. n -> S]
                        /\ \A i \in 0 .. n : f[i] = IF i = 0 THEN a ELSE g[<<i, f[i - 1]>>]
           K == {n \in Nat : \E f : Rec(n, f)}
<1>1. 0 \in K
  <2> DEFINE f == [i \in 0 .. 0 |-> a]
  <2>1. Rec(0, f)
    OBVIOUS
  <2> QED
    BY <2>1
<1>2. ASSUME NEW n \in Nat, n \in K PROVE n + 1 \in K
  <2>1. PICK f : Rec(n, f)
    BY <1>2
  <2> DEFINE x == g[<<n + 1, f[n]>>]
             h == [i \in 0 .. n + 1 |-> IF i = n + 1 THEN x ELSE f[i]]
  <2>2. f[n] \in S /\ x \in S
    BY <2>1 DEF Stepping
  <2>3. h \in [0 .. n + 1 -> S]
    <3> HIDE DEF x
    <3> QED
      BY <2>1, <2>2
  <2>4. ASSUME NEW i \in 0 .. n + 1 PROVE h[i] = IF i = 0 THEN a ELSE g[<<i, h[i - 1]>>]
    <3>1. CASE i = n + 1
      <4>1. i # 0 /\ i - 1 = n /\ i - 1 \in 0 .. n + 1 /\ i - 1 # n + 1
        BY <3>1
      <4>2. h[i] = x /\ h[i - 1] = f[n]
        BY <3>1, <4>1
      <4> QED
        BY <3>1, <4>1, <4>2
    <3>2. CASE i # n + 1
      <4>1. i \in 0 .. n
        BY <3>2
      <4>2. i # 0 => i - 1 \in 0 .. n + 1 /\ i - 1 # n + 1
        BY <4>1
      <4>3. h[i] = f[i] /\ (i # 0 => h[i - 1] = f[i - 1])
        BY <3>2, <4>2
      <4> HIDE DEF h
      <4> QED
        BY <2>1, <4>1, <4>3
    <3> QED
      BY <3>1, <3>2
  <2> HIDE DEF h
  <2> QED
    BY <2>3, <2>4
<1> HIDE DEF K
<1>3. \A n \in Nat : n \in K
  BY <1>1, <1>2, SetInduction
<1>4. PICK f : Rec(m, f)
  BY <1>3 DEF K
<1>5. 0 \in 0 .. m /\ \A i \in 1 .. m : i \in 0 .. m /\ i # 0
  OBVIOUS
<1> QED
  BY <1>4, <1>5 DEF Recurs

\* The same from the first position on.
RecursFromOne(S, a, g, m, f) ==
    /\ f \in [1 .. m -> S]
    /\ f[1] = a
    /\ \A i \in 2 .. m : f[i] = g[<<i, f[i - 1]>>]

LEMMA RecursionFromOne ==
    ASSUME NEW S, NEW a \in S, NEW g, Stepping(S, g), NEW m \in Nat \ {0}
    PROVE  \E f : RecursFromOne(S, a, g, m, f)
<1> DEFINE k == [p \in Nat \X S |-> g[<<p[1] + 1, p[2]>>]]
<1>1. ASSUME NEW p \in Nat \X S PROVE g[<<p[1] + 1, p[2]>>] \in S
  BY DEF Stepping
<1>2. Stepping(S, k)
  BY <1>1 DEF Stepping
<1>3. \A i \in Nat, x \in S : k[<<i, x>>] = g[<<i + 1, x>>]
  OBVIOUS
<1> HIDE DEF k
<1>4. m - 1 \in Nat
  OBVIOUS
<1>5. PICK h : Recurs(S, a, k, m - 1, h)
  BY <1>2, <1>4, Recursion
<1>6. h \in [0 .. m - 1 -> S] /\ h[0] = a /\ \A i \in 1 .. m - 1 : h[i] = k[<<i, h[i - 1]>>]
  BY <1>5 DEF Recurs
<1> DEFINE f == [i \in 1 .. m |-> h[i - 1]]
<1>7. \A i \in 1 .. m : i - 1 \in 0 .. m - 1
  OBVIOUS
<1>8. f \in [1 .. m -> S] /\ f[1] = a /\ \A i \in 1 .. m : f[i] = h[i - 1]
  BY <1>6, <1>7
<1> HIDE DEF f
<1>9. ASSUME NEW i \in 2 .. m PROVE f[i] = g[<<i, f[i - 1]>>]
  <2>1. i \in 1 .. m /\ i - 1 \in 1 .. m - 1 /\ i - 1 \in 1 .. m /\ i - 1 \in Nat /\ (i - 1) + 1 = i
        /\ (i - 1) - 1 \in 0 .. m - 1
    OBVIOUS
  <2>2. f[i] = h[i - 1] /\ f[i - 1] = h[(i - 1) - 1] /\ h[(i - 1) - 1] \in S
    BY <1>6, <1>8, <2>1
  <2>3. h[i - 1] = k[<<i - 1, h[(i - 1) - 1]>>]
    BY <1>6, <2>1
  <2>4. k[<<i - 1, h[(i - 1) - 1]>>] = g[<<(i - 1) + 1, h[(i - 1) - 1]>>]
    BY <1>3, <2>1, <2>2
  <2> QED
    BY <2>1, <2>2, <2>3, <2>4
<1> QED
  BY <1>8, <1>9 DEF RecursFromOne

-----------------------------------------------------------------------------
(* Sums. *)

\* f holds the sums of the beginnings of w.
Sums(w, n, f) ==
    /\ f \in [0 .. n -> Int]
    /\ f[0] = 0
    /\ \A i \in 1 .. n : f[i] = f[i - 1] + w[i]

LEMMA TotalSums ==
    ASSUME NEW w \in Seq(Int)
    PROVE  \E f : Sums(w, Len(w), f) /\ Total(w) = f[Len(w)]
<1> DEFINE m == Len(w)
           g == [p \in Nat \X Int |-> p[2] + (IF p[1] \in 1 .. m THEN w[p[1]] ELSE 0)]
           f == CHOOSE f : f = [i \in 0 .. m |-> IF i = 0 THEN 0 ELSE f[i - 1] + w[i]]
<1>1. m \in Nat /\ \A i \in 1 .. m : w[i] \in Int
  OBVIOUS
<1> HIDE DEF m
<1>2. Stepping(Int, g) /\ 0 \in Int
  BY <1>1 DEF Stepping
<1>3. \A i \in Nat, x \in Int : i \in 1 .. m => g[<<i, x>>] = x + w[i]
  OBVIOUS
<1> HIDE DEF g
<1>16. PICK h : Recurs(Int, 0, g, m, h)
  BY <1>1, <1>2, Recursion
<1>4. h \in [0 .. m -> Int] /\ h[0] = 0 /\ \A i \in 1 .. m : h[i] = g[<<i, h[i - 1]>>]
  BY <1>16 DEF Recurs
<1>5. \A i \in 1 .. m : i \in Nat /\ h[i - 1] \in Int /\ h[i] = h[i - 1] + w[i]
  <2> SUFFICES ASSUME NEW i \in 1 .. m PROVE i \in Nat /\ h[i - 1] \in Int /\ h[i] = h[i - 1] + w[i]
    OBVIOUS
  <2>1. i \in Nat /\ i - 1 \in 0 .. m
    BY <1>1
  <2>2. h[i - 1] \in Int
    BY <1>4, <2>1
  <2>3. g[<<i, h[i - 1]>>] = h[i - 1] + w[i]
    BY <1>3, <2>1, <2>2
  <2> QED
    BY <1>4, <2>1, <2>2, <2>3
<1>6. h = [i \in 0 .. m |-> IF i = 0 THEN 0 ELSE h[i - 1] + w[i]]
  <2> DEFINE k == [i \in 0 .. m |-> IF i = 0 THEN 0 ELSE h[i - 1] + w[i]]
  <2>1. \A i \in 0 .. m : i = 0 \/ i \in 1 .. m
    BY <1>1
  <2>2. \A i \in 0 .. m : h[i] = k[i]
    BY <1>1, <1>4, <1>5, <2>1
  <2>3. h = [i \in 0 .. m |-> h[i]] /\ k = [i \in 0 .. m |-> k[i]]
    BY <1>4
  <2> HIDE DEF k
  <2>4. h = k
    BY <2>2, <2>3
  <2> QED
    BY <2>4 DEF k
<1>7. f = [i \in 0 .. m |-> IF i = 0 THEN 0 ELSE f[i - 1] + w[i]]
  BY <1>6
<1>8. Total(w) = f[m]
  BY DEF Total, m
<1> HIDE DEF f
<1> DEFINE K == {i \in Nat : i <= m => f[i] \in Int}
<1>9. \A i \in 0 .. m : f[i] = IF i = 0 THEN 0 ELSE f[i - 1] + w[i]
  BY <1>7
<1>10. 0 \in K
  BY <1>1, <1>9
<1>11. ASSUME NEW i \in Nat, i \in K PROVE i + 1 \in K
  <2> SUFFICES ASSUME i + 1 <= m PROVE f[i + 1] \in Int
    OBVIOUS
  <2>1. i + 1 \in 0 .. m /\ i + 1 # 0 /\ (i + 1) - 1 = i /\ i + 1 \in 1 .. m /\ i <= m
    BY <1>1
  <2>2. f[i + 1] = f[i] + w[i + 1]
    BY <1>9, <2>1
  <2> QED
    BY <1>1, <1>11, <2>1, <2>2
<1> HIDE DEF K
<1>12. \A i \in Nat : i \in K
  BY <1>10, <1>11, SetInduction
<1>13. \A i \in 0 .. m : f[i] \in Int
  BY <1>12 DEF K
<1>14. DOMAIN f = 0 .. m /\ f = [i \in 0 .. m |-> f[i]]
  BY <1>7
<1>15. Sums(w, m, f)
  <2>1. 0 \in 0 .. m /\ \A i \in 1 .. m : i \in 0 .. m /\ i # 0
    BY <1>1
  <2>2. f \in [0 .. m -> Int]
    BY <1>13, <1>14
  <2> QED
    BY <1>9, <2>1, <2>2 DEF Sums
<1> QED
  BY <1>8, <1>15 DEF m

SameUpTo(v, w, n) == \A i \in 1 .. n : v[i] = w[i]

\* Beginnings that agree have the same sums.
LEMMA SumsAgree ==
    ASSUME NEW v, NEW w, NEW f, NEW g, NEW n \in Nat, NEW m \in Nat,
           Sums(v, n, f), Sums(w, m, g), n <= m, SameUpTo(v, w, n)
    PROVE  f[n] = g[n]
<1> DEFINE K == {i \in Nat : i <= n => f[i] = g[i]}
<1>1. 0 \in K
  BY DEF Sums
<1>2. ASSUME NEW i \in Nat, i \in K PROVE i + 1 \in K
  BY <1>2 DEF Sums, SameUpTo
<1> HIDE DEF K
<1>3. \A i \in Nat : i \in K
  BY <1>1, <1>2, SetInduction
<1> QED
  BY <1>3 DEF K

LEMMA TotalType ==
    ASSUME NEW w \in Seq(Int)
    PROVE  Total(w) \in Int
BY TotalSums DEF Sums

LEMMA TotalNone == Total(<<>>) = 0
<1>1. <<>> \in Seq(Int) /\ Len(<<>>) = 0
  OBVIOUS
<1> QED
  BY <1>1, TotalSums DEF Sums

\* One number more adds itself.
LEMMA TotalMore ==
    ASSUME NEW v \in Seq(Int), NEW w \in Seq(Int), Len(w) = Len(v) + 1,
           \A i \in 1 .. Len(v) : w[i] = v[i]
    PROVE  Total(w) = Total(v) + w[Len(w)]
<1>1. PICK f : Sums(v, Len(v), f) /\ Total(v) = f[Len(v)]
  BY TotalSums
<1>2. PICK g : Sums(w, Len(w), g) /\ Total(w) = g[Len(w)]
  BY TotalSums
<1>3. f[Len(v)] = g[Len(v)]
  <2>1. Len(v) \in Nat /\ Len(w) \in Nat /\ Len(v) <= Len(w) /\ SameUpTo(v, w, Len(v))
    BY DEF SameUpTo
  <2>2. Sums(v, Len(v), f) /\ Sums(w, Len(w), g)
    BY <1>1, <1>2
  <2> DEFINE n == Len(v)
             m == Len(w)
  <2>3. /\ n \in Nat /\ m \in Nat /\ n <= m /\ SameUpTo(v, w, n) /\ Sums(v, n, f) /\ Sums(w, m, g)
    BY <2>1, <2>2
  <2> HIDE DEF n, m
  <2>4. f[n] = g[n]
    BY <2>3, SumsAgree
  <2> QED
    BY <2>4 DEF n
<1>4. g[Len(w)] = g[Len(w) - 1] + w[Len(w)]
  BY <1>2 DEF Sums
<1> QED
  BY <1>1, <1>2, <1>3, <1>4

LEMMA TotalNat ==
    ASSUME NEW w \in Seq(Nat)
    PROVE  /\ Total(w) \in Nat
           /\ \A i \in 1 .. Len(w) : w[i] <= Total(w)
<1>1. w \in Seq(Int) /\ Len(w) \in Nat /\ \A i \in 1 .. Len(w) : w[i] \in Nat
  OBVIOUS
<1>2. PICK f : Sums(w, Len(w), f) /\ Total(w) = f[Len(w)]
  BY <1>1, TotalSums
<1> DEFINE K == {n \in Nat : n <= Len(w) => f[n] \in Nat /\ \A i \in 1 .. n : w[i] <= f[n]}
<1>3. 0 \in K
  BY <1>1, <1>2 DEF Sums
<1>4. ASSUME NEW n \in Nat, n \in K PROVE n + 1 \in K
  <2> SUFFICES ASSUME n + 1 <= Len(w) PROVE f[n + 1] \in Nat /\ \A i \in 1 .. n + 1 : w[i] <= f[n + 1]
    OBVIOUS
  <2>1. f[n + 1] = f[n] + w[n + 1] /\ w[n + 1] \in Nat
    BY <1>1, <1>2 DEF Sums
  <2>2. f[n] \in Nat /\ \A i \in 1 .. n : w[i] \in Nat /\ w[i] <= f[n]
    BY <1>1, <1>4
  <2>3. \A i \in 1 .. n + 1 : i \in 1 .. n \/ i = n + 1
    OBVIOUS
  <2> QED
    BY <2>1, <2>2, <2>3
<1> HIDE DEF K
<1>5. \A n \in Nat : n \in K
  BY <1>3, <1>4, SetInduction
<1> QED
  BY <1>1, <1>2, <1>5 DEF K

-----------------------------------------------------------------------------
(* Lists of lists. *)

\* f holds what the beginnings of s amount to, one behind the other.
Flattens(s, S, f) ==
    /\ f \in [1 .. Len(s) -> Seq(S)]
    /\ f[1] = s[1]
    /\ \A i \in 2 .. Len(s) : f[i] = f[i - 1] \o s[i]
    /\ FlattenSeq(s) = f[Len(s)]

LEMMA FlattenIs ==
    ASSUME NEW S, NEW s \in Seq(Seq(S)), Len(s) > 0
    PROVE  \E f : Flattens(s, S, f)
<1> DEFINE m == Len(s)
           g == [p \in Nat \X Seq(S) |-> IF p[1] \in 1 .. m THEN p[2] \o s[p[1]] ELSE p[2]]
           f == CHOOSE f : f = [i \in 1 .. m |-> IF i = 1 THEN s[i] ELSE f[i - 1] \o s[i]]
<1>1. m \in Nat /\ m >= 1 /\ \A i \in 1 .. m : s[i] \in Seq(S)
  OBVIOUS
<1>2. FlattenSeq(s) = f[m]
  BY DEF FlattenSeq
<1> HIDE DEF m
<1>3. \A x, y \in Seq(S) : x \o y \in Seq(S)
  OBVIOUS
<1>4. ASSUME NEW p \in Nat \X Seq(S) PROVE g[p] \in Seq(S)
  BY <1>1, <1>3
<1>5. Stepping(Seq(S), g)
  <2>1. g = [p \in Nat \X Seq(S) |-> g[p]]
    OBVIOUS
  <2> HIDE DEF g
  <2> QED
    BY <1>4, <2>1 DEF Stepping
<1>6. ASSUME NEW i \in 1 .. m, NEW x \in Seq(S) PROVE g[<<i, x>>] = x \o s[i]
  <2>1. <<i, x>> \in Nat \X Seq(S) /\ <<i, x>>[1] = i /\ <<i, x>>[2] = x
    BY <1>1
  <2> QED
    BY <2>1
<1> HIDE DEF g
<1>7. <<>> \in Seq(S)
  OBVIOUS
<1>8. PICK h : Recurs(Seq(S), <<>>, g, m, h)
  BY <1>1, <1>5, <1>7, Recursion
<1>9. h \in [0 .. m -> Seq(S)] /\ h[0] = <<>> /\ \A i \in 1 .. m : h[i] = g[<<i, h[i - 1]>>]
  BY <1>8 DEF Recurs
<1>10. ASSUME NEW i \in 1 .. m PROVE h[i] = h[i - 1] \o s[i] /\ h[i] \in Seq(S)
  <2>1. i \in Nat /\ i - 1 \in 0 .. m /\ i \in 0 .. m
    BY <1>1
  <2>2. h[i - 1] \in Seq(S) /\ h[i] \in Seq(S)
    BY <1>9, <2>1
  <2>3. g[<<i, h[i - 1]>>] = h[i - 1] \o s[i]
    BY <1>6, <2>1, <2>2
  <2> QED
    BY <1>9, <2>2, <2>3
<1>11. h[1] = s[1]
  <2>1. 1 \in 1 .. m /\ 1 - 1 = 0
    BY <1>1
  <2>2. h[1] = h[0] \o s[1] /\ s[1] \in Seq(S)
    BY <1>1, <1>10, <2>1
  <2> QED
    BY <1>9, <2>2
<1> DEFINE k == [i \in 1 .. m |-> h[i]]
           l == [i \in 1 .. m |-> IF i = 1 THEN s[i] ELSE k[i - 1] \o s[i]]
<1>12. ASSUME NEW i \in 1 .. m PROVE k[i] = l[i]
  <2>1. CASE i = 1
    BY <1>11, <2>1
  <2>2. CASE i # 1
    <3>1. i - 1 \in 1 .. m
      BY <1>1, <2>2
    <3>2. k[i - 1] = h[i - 1] /\ k[i] = h[i]
      BY <3>1
    <3> HIDE DEF k
    <3> QED
      BY <1>10, <2>2, <3>2
  <2> QED
    BY <2>1, <2>2
<1>13. k = [i \in 1 .. m |-> k[i]] /\ l = [i \in 1 .. m |-> l[i]]
  OBVIOUS
<1>14. k = l
  <2> HIDE DEF k, l
  <2> QED
    BY <1>12, <1>13
<1>15. f = [i \in 1 .. m |-> IF i = 1 THEN s[i] ELSE f[i - 1] \o s[i]]
  <2> HIDE DEF k
  <2> QED
    BY <1>14
<1> HIDE DEF f
<1> DEFINE K == {i \in Nat : i \in 1 .. m => f[i] = h[i]}
<1>16. \A i \in 1 .. m : f[i] = IF i = 1 THEN s[i] ELSE f[i - 1] \o s[i]
  BY <1>15
<1>17. 0 \in K
  OBVIOUS
<1>18. ASSUME NEW i \in Nat, i \in K PROVE i + 1 \in K
  <2> SUFFICES ASSUME i + 1 \in 1 .. m PROVE f[i + 1] = h[i + 1]
    OBVIOUS
  <2>1. CASE i = 0
    BY <1>11, <1>16, <2>1
  <2>2. CASE i # 0
    <3>1. i \in 1 .. m /\ (i + 1) - 1 = i /\ i + 1 # 1
      BY <1>1, <2>2
    <3>2. f[i] = h[i]
      BY <1>18, <3>1
    <3>3. h[i + 1] = h[i] \o s[i + 1]
      BY <1>10, <3>1
    <3>4. f[i + 1] = f[i] \o s[i + 1]
      BY <1>16, <3>1
    <3> QED
      BY <3>2, <3>3, <3>4
  <2> QED
    BY <2>1, <2>2
<1> HIDE DEF K
<1>19. \A i \in Nat : i \in K
  BY <1>17, <1>18, SetInduction
<1>20. \A i \in 1 .. m : f[i] = h[i] /\ i \in Nat
  BY <1>1, <1>19 DEF K
<1>21. f \in [1 .. m -> Seq(S)]
  <2>1. f = [i \in 1 .. m |-> f[i]]
    BY <1>15
  <2> QED
    BY <1>10, <1>20, <2>1
<1>22. 1 \in 1 .. m /\ \A i \in 2 .. m : i \in 1 .. m /\ i # 1
  BY <1>1
<1>23. f[1] = s[1] /\ \A i \in 2 .. m : f[i] = f[i - 1] \o s[i]
  BY <1>16, <1>22
<1> QED
  BY <1>2, <1>21, <1>23 DEF Flattens, m

\* What is one behind the other is what there was.
LEMMA FlattenHas ==
    ASSUME NEW S, NEW s \in Seq(Seq(S))
    PROVE  /\ FlattenSeq(s) \in Seq(S)
           /\ \A k \in 1 .. Len(s) : \A j \in 1 .. Len(s[k]) :
                 \E i \in 1 .. Len(FlattenSeq(s)) : FlattenSeq(s)[i] = s[k][j]
<1>1. CASE Len(s) = 0
  <2>1. s = <<>>
    BY <1>1
  <2>2. FlattenSeq(s) = <<>>
    BY <1>1, <2>1 DEF FlattenSeq
  <2> QED
    BY <1>1, <2>2
<1>2. CASE Len(s) > 0
  <2> DEFINE m == Len(s)
  <2>1. PICK f : Flattens(s, S, f)
    BY <1>2, FlattenIs
  <2>2. /\ m \in Nat \ {0} /\ \A i \in 1 .. m : s[i] \in Seq(S)
        /\ f \in [1 .. m -> Seq(S)] /\ f[1] = s[1] /\ \A i \in 2 .. m : f[i] = f[i - 1] \o s[i]
        /\ FlattenSeq(s) = f[m]
    <3>1. m \in Nat \ {0} /\ \A i \in 1 .. m : s[i] \in Seq(S)
      BY <1>2
    <3> QED
      BY <2>1, <3>1 DEF Flattens
  <2> HIDE DEF m
  <2> DEFINE Has(n) == \A k \in 1 .. n : \A j \in 1 .. Len(s[k]) : \E i \in 1 .. Len(f[n]) : f[n][i] = s[k][j]
             K == {n \in Nat : n + 1 <= m => Has(n + 1)}
  <2>3. 0 \in K
    <3>1. Has(1)
      BY <2>2
    <3> HIDE DEF Has
    <3> QED
      BY <3>1
  <2>4. ASSUME NEW n \in Nat, n \in K PROVE n + 1 \in K
    <3>6. (n + 2 <= m => Has(n + 2)) => n + 1 \in K
      <4> HIDE DEF Has
      <4> QED
        OBVIOUS
    <3>7. n + 1 <= m => Has(n + 1)
      BY <2>4
    <3> SUFFICES ASSUME n + 2 <= m, NEW k \in 1 .. n + 2, NEW j \in 1 .. Len(s[k])
                 PROVE  \E i \in 1 .. Len(f[n + 2]) : f[n + 2][i] = s[k][j]
      BY <3>6
    <3> DEFINE a == f[n + 1]
               b == s[n + 2]
    <3>1. n + 1 \in 1 .. m /\ n + 2 \in 2 .. m /\ (n + 2) - 1 = n + 1 /\ n + 2 \in 1 .. m /\ n + 1 <= m
      BY <2>2
    <3>2. a \in Seq(S) /\ b \in Seq(S) /\ f[n + 2] = a \o b
      BY <2>2, <3>1
    <3> HIDE DEF a, b
    <3>3. /\ Len(a) \in Nat /\ Len(b) \in Nat /\ Len(a \o b) = Len(a) + Len(b)
          /\ \A i \in 1 .. Len(a) : (a \o b)[i] = a[i]
          /\ \A i \in 1 .. Len(b) : (a \o b)[i + Len(a)] = b[i]
      BY <3>2
    <3>4. CASE k \in 1 .. n + 1
      <4>3. Has(n + 1)
        BY <3>1, <3>7
      <4>1. PICK i \in 1 .. Len(a) : a[i] = s[k][j]
        BY <3>4, <4>3 DEF a
      <4>2. i \in 1 .. Len(a \o b)
        BY <3>3
      <4> QED
        BY <3>2, <3>3, <4>1, <4>2
    <3>5. CASE k = n + 2
      <4>1. j \in 1 .. Len(b) /\ s[k][j] = b[j]
        BY <3>5 DEF b
      <4>2. j + Len(a) \in 1 .. Len(a \o b)
        BY <3>3, <4>1
      <4> QED
        BY <3>2, <3>3, <4>1, <4>2
    <3> QED
      BY <3>4, <3>5
  <2> HIDE DEF K
  <2>5. \A n \in Nat : n \in K
    BY <2>3, <2>4, SetInduction
  <2>6. m - 1 \in Nat /\ (m - 1) + 1 = m
    BY <2>2
  <2>7. \A k \in 1 .. m : \A j \in 1 .. Len(s[k]) : \E i \in 1 .. Len(f[m]) : f[m][i] = s[k][j]
    <3>1. m - 1 \in K
      BY <2>5, <2>6
    <3>2. m <= m
      BY <2>2
    <3>3. Has(m)
      <4> HIDE DEF Has
      <4> QED
        BY <2>6, <3>1, <3>2 DEF K
    <3> QED
      BY <3>3
  <2>8. FlattenSeq(s) = f[m] /\ f[m] \in Seq(S)
    BY <2>2, <2>6
  <2>9. \A k \in 1 .. Len(s) : \A j \in 1 .. Len(s[k]) : \E i \in 1 .. Len(f[m]) : f[m][i] = s[k][j]
    BY <2>7 DEF m
  <2> HIDE DEF m
  <2> QED
    BY <2>8, <2>9
<1>3. Len(s) \in Nat
  OBVIOUS
<1> QED
  BY <1>1, <1>2, <1>3

\* Numbers in a row.
Run(t) == \A i \in 1 .. Len(t) : t[i] = t[1] + (i - 1)

Below(t, u) == \A i \in 1 .. Len(t), j \in 1 .. Len(u) : t[i] < u[j]

\* A number only comes again in a row that begins with one of B.
Echoes(t, B) ==
    \A k, l \in 1 .. Len(t) :
       k < l /\ t[k] = t[l] => \E p \in k + 1 .. l : t[p] \in B /\ \A q \in p .. l : t[q] = t[p] + (q - p)

LEMMA EchoesConcat ==
    ASSUME NEW t \in Seq(Int), NEW u \in Seq(Int), NEW B, Echoes(t, B), Run(u),
           Below(t, u) \/ (Len(u) > 0 => u[1] \in B)
    PROVE  Echoes(t \o u, B)
<1> DEFINE m == Len(t)
           n == Len(u)
           v == t \o u
<1>1. /\ m \in Nat /\ n \in Nat /\ Len(v) = m + n
      /\ \A i \in 1 .. m : v[i] = t[i]
      /\ \A i \in m + 1 .. m + n : v[i] = u[i - m] /\ i - m \in 1 .. n
      /\ \A i \in 1 .. m : t[i] \in Int
      /\ \A i \in 1 .. n : u[i] \in Int
  OBVIOUS
<1>2. \A i \in 1 .. n : u[i] = u[1] + (i - 1)
  BY DEF Run
<1>3. \A k, l \in 1 .. m : k < l /\ t[k] = t[l] =>
         \E p \in k + 1 .. l : t[p] \in B /\ \A q \in p .. l : t[q] = t[p] + (q - p)
  BY DEF Echoes
<1>4. \A k \in 1 .. m, l \in 1 .. n : Below(t, u) => t[k] < u[l]
  BY DEF Below
<1> HIDE DEF m, n, v
<1> SUFFICES ASSUME NEW k \in 1 .. m + n, NEW l \in 1 .. m + n, k < l, v[k] = v[l]
             PROVE  \E p \in k + 1 .. l : v[p] \in B /\ \A q \in p .. l : v[q] = v[p] + (q - p)
  BY <1>1 DEF Echoes, v
<1>5. \A i \in 1 .. m + n : i \in 1 .. m \/ i \in m + 1 .. m + n
  BY <1>1
<1>6. CASE l \in 1 .. m
  <2>1. k \in 1 .. m /\ t[k] = t[l]
    BY <1>1, <1>6
  <2>2. PICK p \in k + 1 .. l : t[p] \in B /\ \A q \in p .. l : t[q] = t[p] + (q - p)
    BY <1>3, <1>6, <2>1
  <2>3. p \in 1 .. m /\ v[p] = t[p]
    <3>1. p \in 1 .. m
      BY <1>1, <1>6, <2>1
    <3> QED
      BY <1>1, <3>1
  <2>4. \A q \in p .. l : q \in 1 .. m /\ v[q] = t[q]
    BY <1>1, <1>6, <2>3
  <2> QED
    BY <2>2, <2>3, <2>4
<1>7. CASE l \in m + 1 .. m + n /\ k \in 1 .. m
  <2> DEFINE p == m + 1
  <2>1. l - m \in 1 .. n /\ t[k] = u[l - m] /\ n > 0 /\ 1 \in 1 .. n
    BY <1>1, <1>7
  <2>2. t[k] \in Int /\ u[l - m] \in Int
    BY <1>1, <1>7, <2>1
  <2>3. ~Below(t, u)
    BY <1>4, <1>7, <2>1, <2>2
  <2>4. u[1] \in B
    BY <2>1, <2>3 DEF n
  <2>5. p \in k + 1 .. l /\ p \in m + 1 .. m + n /\ p - m = 1
    BY <1>1, <1>7
  <2>6. v[p] = u[1]
    BY <1>1, <2>5
  <2>7. ASSUME NEW q \in p .. l PROVE v[q] = v[p] + (q - p)
    <3>1. q \in m + 1 .. m + n /\ q - m \in 1 .. n
      BY <1>1, <1>7
    <3>2. v[q] = u[q - m] /\ u[q - m] = u[1] + ((q - m) - 1)
      BY <1>1, <1>2, <3>1
    <3>3. (q - m) - 1 = q - p
      BY <1>1, <1>7
    <3> QED
      BY <2>6, <3>2, <3>3
  <2> HIDE DEF p
  <2> QED
    BY <2>4, <2>5, <2>6, <2>7
<1>8. CASE l \in m + 1 .. m + n /\ k \in m + 1 .. m + n
  <2>1. k - m \in 1 .. n /\ l - m \in 1 .. n /\ u[k - m] = u[l - m]
    BY <1>1, <1>8
  <2>2. u[k - m] = u[1] + ((k - m) - 1) /\ u[l - m] = u[1] + ((l - m) - 1) /\ u[1] \in Int
    <3>1. 1 \in 1 .. n
      BY <1>1, <2>1
    <3> QED
      BY <1>1, <1>2, <2>1, <3>1
  <2>3. k = l
    BY <1>1, <1>8, <2>1, <2>2
  <2> QED
    BY <1>8, <2>3
<1> QED
  BY <1>1, <1>5, <1>6, <1>7, <1>8

LEMMA BelowConcat ==
    ASSUME NEW t \in Seq(Int), NEW u \in Seq(Int), NEW w, Below(t, w), Below(u, w)
    PROVE  Below(t \o u, w)
<1>1. /\ Len(t) \in Nat /\ Len(u) \in Nat /\ Len(t \o u) = Len(t) + Len(u)
      /\ \A i \in 1 .. Len(t) : (t \o u)[i] = t[i]
      /\ \A i \in Len(t) + 1 .. Len(t) + Len(u) : (t \o u)[i] = u[i - Len(t)] /\ i - Len(t) \in 1 .. Len(u)
  OBVIOUS
<1> SUFFICES ASSUME NEW i \in 1 .. Len(t \o u), NEW j \in 1 .. Len(w) PROVE (t \o u)[i] < w[j]
  BY DEF Below
<1>2. CASE i \in 1 .. Len(t)
  BY <1>1, <1>2 DEF Below
<1>3. CASE i \in Len(t) + 1 .. Len(t) + Len(u)
  BY <1>1, <1>3 DEF Below
<1> QED
  BY <1>1, <1>2, <1>3

\* In rows that either are above all before them or begin with one of B, a
\* number only comes again in a row that begins with one of B.
LEMMA FlattenEchoes ==
    ASSUME NEW s \in Seq(Seq(Int)), NEW B,
           \A k \in 1 .. Len(s) : Run(s[k]),
           \A l \in 1 .. Len(s) : \/ Len(s[l]) > 0 => s[l][1] \in B
                                  \/ \A k \in 1 .. Len(s) : k < l => Below(s[k], s[l])
    PROVE  Echoes(FlattenSeq(s), B)
<1>1. CASE Len(s) = 0
  <2>1. s = <<>>
    BY <1>1
  <2>2. FlattenSeq(s) = <<>>
    BY <1>1, <2>1 DEF FlattenSeq
  <2> QED
    BY <2>2 DEF Echoes
<1>2. CASE Len(s) > 0
  <2> DEFINE m == Len(s)
             Begins(l) == Len(s[l]) > 0 => s[l][1] \in B
             Above(l) == \A k \in 1 .. m : k < l => Below(s[k], s[l])
  <2>1. PICK f : Flattens(s, Int, f)
    BY <1>2, FlattenIs
  <2>2. /\ m \in Nat \ {0} /\ \A i \in 1 .. m : s[i] \in Seq(Int) /\ Run(s[i])
        /\ f \in [1 .. m -> Seq(Int)] /\ f[1] = s[1] /\ \A i \in 2 .. m : f[i] = f[i - 1] \o s[i]
        /\ FlattenSeq(s) = f[m]
        /\ \A l \in 1 .. m : Begins(l) \/ Above(l)
    <3>1. m \in Nat \ {0} /\ \A i \in 1 .. m : s[i] \in Seq(Int)
      BY <1>2
    <3> QED
      BY <2>1, <3>1 DEF Flattens
  <2> HIDE DEF m
  <2> DEFINE K == {n \in Nat : n + 1 <= m => /\ Echoes(f[n + 1], B)
                                             /\ \A l \in n + 2 .. m : Above(l) => Below(f[n + 1], s[l])}
  <2>3. 0 \in K
    <3>1. 1 \in 1 .. m /\ \A l \in 2 .. m : l \in 1 .. m /\ 1 < l
      BY <2>2
    <3>2. \A l \in 2 .. m : Above(l) => Below(f[1], s[l])
      BY <2>2, <3>1
    <3>3. f[1] \in Seq(Int) /\ Run(f[1])
      BY <2>2, <3>1
    <3>4. Echoes(f[1], B)
      <4> DEFINE t == f[1]
      <4>1. t \in Seq(Int) /\ Run(t)
        BY <3>3
      <4> HIDE DEF t
      <4> SUFFICES ASSUME NEW k \in 1 .. Len(t), NEW l \in 1 .. Len(t), k < l, t[k] = t[l] PROVE FALSE
        BY DEF Echoes, t
      <4>2. Len(t) \in Nat /\ \A i \in 1 .. Len(t) : t[i] \in Int
        BY <4>1
      <4>3. 1 \in 1 .. Len(t)
        BY <4>2
      <4>4. t[k] = t[1] + (k - 1) /\ t[l] = t[1] + (l - 1) /\ t[1] \in Int
        BY <4>1, <4>2, <4>3 DEF Run
      <4>5. k \in Int /\ l \in Int
        OBVIOUS
      <4>6. \A a, i, j, x, y \in Int : x = a + (i - 1) /\ y = a + (j - 1) /\ x = y => i = j
        OBVIOUS
      <4>7. k = l
        BY <4>2, <4>4, <4>5, <4>6
      <4> QED
        BY <4>5, <4>7
    <3> HIDE DEF Above
    <3> QED
      BY <3>2, <3>4
  <2>4. ASSUME NEW n \in Nat, n \in K PROVE n + 1 \in K
    <3> SUFFICES ASSUME n + 2 <= m
                 PROVE  /\ Echoes(f[n + 2], B)
                        /\ \A l \in n + 3 .. m : Above(l) => Below(f[n + 2], s[l])
      OBVIOUS
    <3> DEFINE a == f[n + 1]
               b == s[n + 2]
    <3>1. /\ n + 1 \in 1 .. m /\ n + 2 \in 2 .. m /\ (n + 2) - 1 = n + 1 /\ n + 2 \in 1 .. m /\ n + 1 <= m
          /\ n + 2 \in n + 2 .. m /\ \A l \in n + 3 .. m : l \in n + 2 .. m /\ l \in 1 .. m /\ n + 2 < l
      BY <2>2
    <3>2. a \in Seq(Int) /\ b \in Seq(Int) /\ f[n + 2] = a \o b /\ Run(b)
      <4> HIDE DEF Begins, Above
      <4> QED
        BY <2>2, <3>1
    <3>3. Begins(n + 2) \/ Above(n + 2)
      <4> HIDE DEF Begins, Above
      <4> QED
        BY <2>2, <3>1
    <3>4. Echoes(a, B) /\ \A l \in n + 2 .. m : Above(l) => Below(a, s[l])
      <4> HIDE DEF Begins, Above
      <4> QED
        BY <2>4, <3>1
    <3>5. Below(a, b) \/ (Len(b) > 0 => b[1] \in B)
      <4>1. CASE Begins(n + 2)
        BY <4>1
      <4>2. CASE Above(n + 2)
        <5> HIDE DEF Above, Begins
        <5> QED
          BY <3>1, <3>4, <4>2
      <4> QED
        BY <3>3, <4>1, <4>2
    <3>6. \A l \in n + 3 .. m : Above(l) => Below(b, s[l])
      BY <3>1
    <3> HIDE DEF a, b, Above, Begins
    <3>7. Echoes(a \o b, B)
      BY <3>2, <3>4, <3>5, EchoesConcat
    <3>8. \A l \in n + 3 .. m : Above(l) => Below(a \o b, s[l])
      BY <3>1, <3>2, <3>4, <3>6, BelowConcat
    <3> QED
      BY <3>2, <3>7, <3>8
  <2> HIDE DEF K
  <2>5. \A n \in Nat : n \in K
    BY <2>3, <2>4, SetInduction
  <2>6. m - 1 \in Nat /\ (m - 1) + 1 = m /\ m <= m
    BY <2>2
  <2>7. m - 1 \in K
    BY <2>5, <2>6
  <2>8. Echoes(f[m], B)
    BY <2>6, <2>7 DEF K
  <2> QED
    BY <2>2, <2>8
<1>3. Len(s) \in Nat
  OBVIOUS
<1> QED
  BY <1>1, <1>2, <1>3

-----------------------------------------------------------------------------
(* Sorting. *)

\* r is order with x behind its first k numbers, and rightly so.
Inserts(r, order, n, x, k, before) ==
    /\ k \in 0 .. n
    /\ \A j \in 1 .. k : <<x, order[j]>> \notin before
    /\ k < n => <<x, order[k + 1]>> \in before
    /\ r \in [1 .. n + 1 -> Nat]
    /\ \A j \in 1 .. n + 1 : r[j] = IF j <= k THEN order[j] ELSE IF j = k + 1 THEN x ELSE order[j - 1]

LEMMA InsertedIs ==
    ASSUME NEW n \in Nat, NEW order \in [1 .. n -> Nat], NEW x \in Nat, NEW before
    PROVE  \E k : Inserts(Inserted(order, x, before), order, n, x, k, before)
<1> DEFINE m == Len(order)
           k == CHOOSE k \in 0 .. m : /\ \A j \in 1 .. k : <<x, order[j]>> \notin before
                                      /\ k < m => <<x, order[k + 1]>> \in before
           E(j) == CASE j <= k -> order[j] [] j = k + 1 -> x [] j > k + 1 -> order[j - 1]
           r == [j \in 1 .. m + 1 |-> E(j)]
           T == {j \in 1 .. n : <<x, order[j]>> \in before}
<1>1. m = n
  BY LenProperties
<1>2. \E i \in 0 .. m : (\A j \in 1 .. i : <<x, order[j]>> \notin before) /\ (i < m => <<x, order[i + 1]>> \in before)
  <2> HIDE DEF m
  <2>1. CASE T = {}
    <3>1. m \in 0 .. m /\ ~ (m < m)
      BY <1>1
    <3>2. \A j \in 1 .. m : <<x, order[j]>> \notin before
      BY <1>1, <2>1
    <3> QED
      BY <3>1, <3>2
  <2>2. CASE T # {}
    <3>0. T \in SUBSET Nat
      OBVIOUS
    <3>1. PICK i \in T : \A j \in T : i <= j
      <4> HIDE DEF T
      <4> QED
        BY <2>2, <3>0, Smallest
    <3>2. i \in 1 .. n /\ i - 1 \in 0 .. n /\ (i - 1) + 1 = i /\ <<x, order[i]>> \in before
      BY <3>1
    <3>3. \A j \in 1 .. i - 1 : <<x, order[j]>> \notin before
      BY <3>1
    <3> QED
      BY <1>1, <3>2, <3>3
  <2> QED
    BY <2>1, <2>2
<1>3. /\ k \in 0 .. m /\ \A j \in 1 .. k : <<x, order[j]>> \notin before
      /\ k < m => <<x, order[k + 1]>> \in before
  <2> HIDE DEF m
  <2> QED
    BY <1>2
<1>4. Inserted(order, x, before) = r
  BY DEF Inserted
<1> HIDE DEF k, m
<1>5. \A j \in 1 .. n + 1 : E(j) = IF j <= k THEN order[j] ELSE IF j = k + 1 THEN x ELSE order[j - 1]
  BY <1>1, <1>3
<1>6. \A j \in 1 .. n + 1 : E(j) \in Nat
  <2> SUFFICES ASSUME NEW j \in 1 .. n + 1 PROVE E(j) \in Nat
    OBVIOUS
  <2>1. j <= k => j \in 1 .. n
    BY <1>1, <1>3
  <2>2. j > k + 1 => j - 1 \in 1 .. n
    BY <1>1, <1>3
  <2>3. j <= k \/ j = k + 1 \/ j > k + 1
    BY <1>1, <1>3
  <2> HIDE DEF E
  <2> QED
    BY <1>1, <1>3, <1>5, <2>1, <2>2, <2>3
<1> HIDE DEF E
<1>7. r \in [1 .. n + 1 -> Nat] /\ \A j \in 1 .. n + 1 : r[j] = E(j)
  BY <1>1, <1>6
<1> HIDE DEF r
<1>8. Inserts(r, order, n, x, k, before)
  BY <1>1, <1>3, <1>5, <1>7 DEF Inserts
<1> QED
  BY <1>4, <1>8

Permutes(o, n) ==
    /\ o \in [1 .. n -> 1 .. n]
    /\ \A i, j \in 1 .. n : o[i] = o[j] => i = j
    /\ \A x \in 1 .. n : \E i \in 1 .. n : o[i] = x

\* A strict order.
StrictOrder(before) ==
    /\ \A a, b : <<a, b>> \in before => <<b, a>> \notin before
    /\ \A a, b, c : <<a, b>> \in before /\ <<b, c>> \in before => <<a, c>> \in before

InOrder(o, n, before) == \A i, j \in 1 .. n : i < j => <<o[j], o[i]>> \notin before

LEMMA InsertPermutes ==
    ASSUME NEW n \in Nat, NEW o, NEW r, NEW k, NEW before,
           Permutes(o, n), Inserts(r, o, n, n + 1, k, before)
    PROVE  Permutes(r, n + 1)
<1>1. /\ o \in [1 .. n -> 1 .. n] /\ \A i, j \in 1 .. n : o[i] = o[j] => i = j
      /\ \A x \in 1 .. n : \E i \in 1 .. n : o[i] = x
  BY DEF Permutes
<1>2. /\ k \in 0 .. n /\ r \in [1 .. n + 1 -> Nat]
      /\ \A j \in 1 .. n + 1 : r[j] = IF j <= k THEN o[j] ELSE IF j = k + 1 THEN n + 1 ELSE o[j - 1]
  BY DEF Inserts
<1>3. ASSUME NEW j \in 1 .. n + 1
      PROVE  \/ j <= k /\ j \in 1 .. n /\ r[j] = o[j] /\ r[j] \in 1 .. n
             \/ j = k + 1 /\ r[j] = n + 1
             \/ j > k + 1 /\ j - 1 \in 1 .. n /\ r[j] = o[j - 1] /\ r[j] \in 1 .. n
  <2>1. j <= k => j \in 1 .. n
    BY <1>2
  <2>2. j > k + 1 => j - 1 \in 1 .. n
    BY <1>2
  <2>3. j <= k \/ j = k + 1 \/ j > k + 1
    BY <1>2
  <2> QED
    BY <1>1, <1>2, <2>1, <2>2, <2>3
<1>4. r \in [1 .. n + 1 -> 1 .. n + 1]
  <2>1. \A j \in 1 .. n + 1 : r[j] \in 1 .. n + 1
    BY <1>3
  <2> QED
    BY <1>2, <2>1
<1>5. ASSUME NEW i \in 1 .. n + 1, NEW j \in 1 .. n + 1, r[i] = r[j] PROVE i = j
  <2>1. n + 1 \notin 1 .. n
    OBVIOUS
  <2>2. CASE j <= k /\ i <= k
    BY <1>1, <1>2, <1>3, <1>5, <2>2
  <2>3. CASE j > k + 1 /\ i > k + 1
    <3>1. j - 1 = i - 1
      BY <1>1, <1>2, <1>3, <1>5, <2>3
    <3> QED
      BY <3>1
  <2>4. CASE j <= k /\ i > k + 1
    <3>1. j = i - 1
      BY <1>1, <1>2, <1>3, <1>5, <2>4
    <3> QED
      BY <1>2, <2>4, <3>1
  <2>5. CASE i <= k /\ j > k + 1
    <3>1. i = j - 1
      BY <1>1, <1>2, <1>3, <1>5, <2>5
    <3> QED
      BY <1>2, <2>5, <3>1
  <2>6. CASE i = k + 1 \/ j = k + 1
    BY <1>2, <1>3, <1>5, <2>1, <2>6
  <2> QED
    BY <1>2, <2>2, <2>3, <2>4, <2>5, <2>6
<1>6. ASSUME NEW x \in 1 .. n + 1 PROVE \E i \in 1 .. n + 1 : r[i] = x
  <2>1. CASE x = n + 1
    <3>1. k + 1 \in 1 .. n + 1 /\ r[k + 1] = n + 1
      BY <1>2
    <3> QED
      BY <2>1, <3>1
  <2>2. CASE x # n + 1
    <3>1. PICK i \in 1 .. n : o[i] = x
      BY <1>1, <2>2
    <3>2. CASE i <= k
      <4>1. i \in 1 .. n + 1 /\ r[i] = o[i]
        BY <1>2, <3>2
      <4> QED
        BY <3>1, <4>1
    <3>3. CASE i > k
      <4>1. i + 1 \in 1 .. n + 1 /\ r[i + 1] = o[(i + 1) - 1] /\ (i + 1) - 1 = i
        BY <1>2, <3>3
      <4> QED
        BY <3>1, <4>1
    <3> QED
      BY <1>2, <3>2, <3>3
  <2> QED
    BY <2>1, <2>2
<1> QED
  BY <1>4, <1>5, <1>6 DEF Permutes

LEMMA InsertOrdered ==
    ASSUME NEW n \in Nat, NEW o, NEW r, NEW k, NEW x, NEW before,
           StrictOrder(before), InOrder(o, n, before), Inserts(r, o, n, x, k, before)
    PROVE  InOrder(r, n + 1, before)
<1>1. /\ k \in 0 .. n
      /\ \A j \in 1 .. k : <<x, o[j]>> \notin before
      /\ k < n => <<x, o[k + 1]>> \in before
      /\ \A j \in 1 .. n + 1 : r[j] = IF j <= k THEN o[j] ELSE IF j = k + 1 THEN x ELSE o[j - 1]
  BY DEF Inserts
<1> SUFFICES ASSUME NEW i \in 1 .. n + 1, NEW j \in 1 .. n + 1, i < j PROVE <<r[j], r[i]>> \notin before
  BY DEF InOrder
<1>2. CASE i <= k /\ j <= k
  <2>1. i \in 1 .. n /\ j \in 1 .. n /\ r[i] = o[i] /\ r[j] = o[j]
    BY <1>1, <1>2
  <2> QED
    BY <2>1 DEF InOrder
<1>3. CASE i <= k /\ j = k + 1
  <2>1. i \in 1 .. k /\ r[i] = o[i] /\ r[j] = x
    BY <1>1, <1>3
  <2> QED
    BY <1>1, <2>1
<1>4. CASE i <= k /\ j > k + 1
  <2>1. i \in 1 .. n /\ j - 1 \in 1 .. n /\ i < j - 1 /\ r[i] = o[i] /\ r[j] = o[j - 1]
    BY <1>1, <1>4
  <2> QED
    BY <2>1 DEF InOrder
<1>5. CASE i = k + 1
  <2>1. k < n /\ <<x, o[k + 1]>> \in before /\ j - 1 \in 1 .. n /\ k + 1 \in 1 .. n /\ k + 1 <= j - 1
        /\ r[i] = x /\ r[j] = o[j - 1]
    BY <1>1, <1>5
  <2>2. k + 1 = j - 1 \/ <<o[j - 1], o[k + 1]>> \notin before
    BY <2>1 DEF InOrder
  <2> QED
    BY <2>1, <2>2 DEF StrictOrder
<1>6. CASE i > k + 1
  <2>1. i - 1 \in 1 .. n /\ j - 1 \in 1 .. n /\ i - 1 < j - 1 /\ r[i] = o[i - 1] /\ r[j] = o[j - 1]
    BY <1>1, <1>6
  <2> QED
    BY <2>1 DEF InOrder
<1> QED
  BY <1>1, <1>2, <1>3, <1>4, <1>5, <1>6

\* The numbers in the order that they are sorted into, and if the order is a
\* strict one none in front of one that it comes behind.
LEMMA ArrangedIs ==
    ASSUME NEW n \in Nat, NEW before
    PROVE  /\ Permutes(Arranged(n, before), n)
           /\ StrictOrder(before) => InOrder(Arranged(n, before), n, before)
<1> DEFINE g == [p \in Nat \X Seq(Nat) |-> Inserted(p[2], p[1], before)]
           f == CHOOSE f : f = [i \in 0 .. n |-> IF i = 0 THEN <<>> ELSE Inserted(f[i - 1], i, before)]
<1>1. ASSUME NEW x \in Nat, NEW o \in Seq(Nat) PROVE Inserted(o, x, before) \in Seq(Nat)
  <2> DEFINE m == Len(o)
  <2>1. m \in Nat /\ o \in [1 .. m -> Nat]
    BY LenProperties
  <2> HIDE DEF m
  <2>2. PICK k : Inserts(Inserted(o, x, before), o, m, x, k, before)
    BY <2>1, InsertedIs
  <2>3. Inserted(o, x, before) \in [1 .. m + 1 -> Nat] /\ m + 1 \in Nat
    BY <2>1, <2>2 DEF Inserts
  <2> QED
    BY <2>3, SeqDef
<1>2. Stepping(Seq(Nat), g)
  <2>1. ASSUME NEW p \in Nat \X Seq(Nat) PROVE Inserted(p[2], p[1], before) \in Seq(Nat)
    BY <1>1
  <2> QED
    BY <2>1 DEF Stepping
<1>3. \A x \in Nat, o \in Seq(Nat) : g[<<x, o>>] = Inserted(o, x, before)
  OBVIOUS
<1> HIDE DEF g
<1>4. <<>> \in Seq(Nat)
  OBVIOUS
<1>5. PICK h : Recurs(Seq(Nat), <<>>, g, n, h)
  BY <1>2, <1>4, Recursion
<1>6. h \in [0 .. n -> Seq(Nat)] /\ h[0] = <<>> /\ \A i \in 1 .. n : h[i] = g[<<i, h[i - 1]>>]
  BY <1>5 DEF Recurs
<1>7. ASSUME NEW i \in 0 .. n PROVE h[i] = IF i = 0 THEN <<>> ELSE Inserted(h[i - 1], i, before)
  <2>1. CASE i = 0
    BY <1>6, <2>1
  <2>2. CASE i # 0
    <3>1. i \in 1 .. n /\ i - 1 \in 0 .. n /\ i \in Nat
      BY <2>2
    <3>2. h[i - 1] \in Seq(Nat) /\ h[i] = g[<<i, h[i - 1]>>]
      BY <1>6, <3>1
    <3> QED
      BY <1>3, <2>2, <3>1, <3>2
  <2> QED
    BY <2>1, <2>2
<1>8. h = [i \in 0 .. n |-> IF i = 0 THEN <<>> ELSE Inserted(h[i - 1], i, before)]
  <2> DEFINE l == [i \in 0 .. n |-> IF i = 0 THEN <<>> ELSE Inserted(h[i - 1], i, before)]
  <2>1. h = [i \in 0 .. n |-> h[i]] /\ l = [i \in 0 .. n |-> l[i]]
    BY <1>6
  <2>2. \A i \in 0 .. n : h[i] = l[i]
    BY <1>7
  <2> HIDE DEF l
  <2>3. h = l
    BY <2>1, <2>2
  <2> QED
    BY <2>3 DEF l
<1>9. f = [i \in 0 .. n |-> IF i = 0 THEN <<>> ELSE Inserted(f[i - 1], i, before)]
  BY <1>8
<1>10. Arranged(n, before) = f[n]
  BY DEF Arranged
<1> HIDE DEF f
<1>11. \A i \in 0 .. n : f[i] = IF i = 0 THEN <<>> ELSE Inserted(f[i - 1], i, before)
  BY <1>9
<1> DEFINE Good(i) == Permutes(f[i], i) /\ (StrictOrder(before) => InOrder(f[i], i, before))
           K == {i \in Nat : i <= n => Good(i)}
<1>12. 0 \in K
  <2>1. f[0] = <<>>
    BY <1>11
  <2>2. <<>> \in [1 .. 0 -> 1 .. 0]
    OBVIOUS
  <2>3. Good(0)
    BY <2>1, <2>2 DEF Permutes, InOrder
  <2> QED
    BY <2>3
<1>13. ASSUME NEW i \in Nat, i \in K PROVE i + 1 \in K
  <2> SUFFICES ASSUME i + 1 <= n PROVE Good(i + 1)
    OBVIOUS
  <2>1. i + 1 \in 0 .. n /\ i + 1 # 0 /\ (i + 1) - 1 = i /\ i <= n /\ i + 1 \in Nat
    OBVIOUS
  <2>2. f[i + 1] = Inserted(f[i], i + 1, before)
    BY <1>11, <2>1
  <2>3. Good(i)
    BY <1>13, <2>1
  <2>4. f[i] \in [1 .. i -> Nat]
    BY <2>3 DEF Permutes
  <2>5. PICK k : Inserts(f[i + 1], f[i], i, i + 1, k, before)
    BY <2>1, <2>2, <2>4, InsertedIs
  <2>6. Permutes(f[i + 1], i + 1)
    BY <2>3, <2>5, InsertPermutes
  <2>7. StrictOrder(before) => InOrder(f[i + 1], i + 1, before)
    BY <2>3, <2>5, InsertOrdered
  <2> QED
    BY <2>6, <2>7
<1> HIDE DEF K
<1>14. \A i \in Nat : i \in K
  BY <1>12, <1>13, SetInduction
<1>15. Good(n)
  <2>1. n <= n /\ n \in K
    BY <1>14
  <2> QED
    BY <2>1 DEF K
<1> QED
  BY <1>10, <1>15

-----------------------------------------------------------------------------
(* Lists that are put together. *)

LEMMA TwoOf ==
    ASSUME NEW a \in Int, NEW b \in Int
    PROVE  /\ Min({a, b}) = IF a <= b THEN a ELSE b
           /\ Max({a, b}) = IF a >= b THEN a ELSE b
<1>1. \E x \in {a, b} : \A y \in {a, b} : x =< y
  OBVIOUS
<1>2. Min({a, b}) \in {a, b} /\ \A y \in {a, b} : Min({a, b}) =< y
  BY <1>1 DEF Min
<1>3. \E x \in {a, b} : \A y \in {a, b} : x >= y
  OBVIOUS
<1>4. Max({a, b}) \in {a, b} /\ \A y \in {a, b} : Max({a, b}) >= y
  BY <1>3 DEF Max
<1> QED
  BY <1>2, <1>4

\* Where all tells something new, from its n-th element on.
NewIn(all, n, key) == {i \in DOMAIN all : i <= n \/ \A j \in 1 .. i - 1 : key[j] # key[i]}

\* r holds what was there already and an element for each new key; h tells
\* where they were.
ExtendedBy(all, n, key, r, h) ==
    /\ PickedBy(all, NewIn(all, n, key), r, h)
    /\ \A i \in DOMAIN all : \E k \in 1 .. Len(r) : key[h[k]] = key[i]
    /\ \A i \in 1 .. n : \E k \in 1 .. Len(r) : h[k] = i
    /\ (\A i, j \in 1 .. n : key[i] = key[j] => i = j)
          => \A k, l \in 1 .. Len(r) : key[h[k]] = key[h[l]] => k = l

\* What Extended returns, for a key that is a function of the position.
LEMMA ExtendedIs ==
    ASSUME NEW S, NEW s \in Seq(S), NEW t \in Seq(S), NEW key, NEW all, all = s \o t
    PROVE  LET r == Picked(all, NewIn(all, Len(s), key))
           IN  r \in Seq(S) /\ \E h : ExtendedBy(all, Len(s), key, r, h)
<1> DEFINE n == Len(s)
           at == NewIn(all, n, key)
           r == Picked(all, at)
<1>1. all \in Seq(S) /\ n \in Nat /\ DOMAIN all = 1 .. Len(all) /\ Len(all) \in Nat /\ n <= Len(all)
  OBVIOUS
<1>2. r \in Seq(S)
  BY <1>1, PickedIs
<1>3. PICK h : PickedBy(all, at, r, h)
  BY <1>1, PickedIs
<1> HIDE DEF n
<1>4. at \subseteq DOMAIN all
  BY DEF NewIn
<1> HIDE DEF at, r
<1>9. DOMAIN all \cap at = at
  BY <1>4
<1>10. /\ h \in [1 .. Len(r) -> at]
       /\ \A j, k \in 1 .. Len(r) : j < k => h[j] < h[k]
       /\ \A i \in at : \E k \in 1 .. Len(r) : h[k] = i
  BY <1>3, <1>9, Zenon DEF PickedBy
<1>5. /\ Len(r) \in Nat
      /\ \A k \in 1 .. Len(r) : h[k] \in DOMAIN all /\ h[k] \in at
      /\ \A j, k \in 1 .. Len(r) : j < k => h[j] < h[k]
      /\ \A i \in at : \E k \in 1 .. Len(r) : h[k] = i
  BY <1>2, <1>4, <1>10
<1>6. ASSUME NEW i \in DOMAIN all PROVE \E k \in 1 .. Len(r) : key[h[k]] = key[i]
  <2> DEFINE T == {j \in 1 .. i : key[j] = key[i]}
  <2>1. T \in SUBSET Nat /\ i \in T
    BY <1>1
  <2>2. PICK m \in T : \A j \in T : m <= j
    <3> HIDE DEF T
    <3> QED
      BY <2>1, Smallest
  <2>3. m \in 1 .. i /\ key[m] = key[i] /\ m \in DOMAIN all
    BY <1>1, <2>2
  <2>4. \A j \in 1 .. m - 1 : key[j] # key[m]
    BY <1>1, <2>2, <2>3
  <2>5. m \in at
    BY <2>3, <2>4 DEF NewIn, at
  <2> QED
    BY <1>5, <2>3, <2>5
<1>7. ASSUME NEW i \in 1 .. n PROVE \E k \in 1 .. Len(r) : h[k] = i
  <2>1. i \in at
    BY <1>1 DEF NewIn, at
  <2> QED
    BY <1>5, <2>1
<1>8. ASSUME \A i, j \in 1 .. n : key[i] = key[j] => i = j,
             NEW k \in 1 .. Len(r), NEW l \in 1 .. Len(r), key[h[k]] = key[h[l]]
      PROVE  k = l
  <2>1. ASSUME NEW i \in at, NEW j \in at, i < j PROVE key[i] # key[j]
    <3>1. i \in DOMAIN all /\ j \in DOMAIN all /\ (j <= n \/ \A x \in 1 .. j - 1 : key[x] # key[j])
      BY DEF NewIn, at
    <3>2. i \in 1 .. j - 1
      BY <1>1, <2>1, <3>1
    <3>3. CASE j <= n
      BY <1>1, <1>8, <2>1, <3>1, <3>3
    <3>4. CASE \A x \in 1 .. j - 1 : key[x] # key[j]
      BY <3>2, <3>4
    <3> QED
      BY <3>1, <3>3, <3>4
  <2>2. ~ (k < l)
    BY <1>5, <1>8, <2>1
  <2>3. ~ (l < k)
    BY <1>5, <1>8, <2>1
  <2> QED
    BY <1>5, <2>2, <2>3
<1>11. ExtendedBy(all, n, key, r, h)
  BY <1>3, <1>6, <1>7, <1>8 DEF ExtendedBy, at
<1> QED
  BY <1>2, <1>11 DEF n, r, at

LEMMA IsSeq ==
    ASSUME NEW S, NEW n \in Nat, NEW s \in [1 .. n -> S]
    PROVE  s \in Seq(S) /\ Len(s) = n
OBVIOUS

\* A list in the order of SortedBy.
Reorders(t, s, o, before) ==
    /\ o = Arranged(Len(s), before)
    /\ t = [k \in DOMAIN s |-> s[o[k]]]

LEMMA ReorderedIs ==
    ASSUME NEW S, NEW s \in Seq(S), NEW t, NEW o, NEW before, Reorders(t, s, o, before)
    PROVE  /\ t \in Seq(S) /\ Len(t) = Len(s)
           /\ \A k \in 1 .. Len(s) : o[k] \in 1 .. Len(s) /\ t[k] = s[o[k]]
           /\ Permutes(o, Len(s))
           /\ StrictOrder(before) => InOrder(o, Len(s), before)
<1> DEFINE n == Len(s)
<1>1. n \in Nat /\ DOMAIN s = 1 .. n /\ \A i \in 1 .. n : s[i] \in S
  OBVIOUS
<1>2. o = Arranged(n, before) /\ t = [k \in 1 .. n |-> s[o[k]]]
  BY <1>1 DEF Reorders
<1> HIDE DEF n
<1>3. Permutes(o, n) /\ (StrictOrder(before) => InOrder(o, n, before))
  BY <1>1, <1>2, ArrangedIs
<1>4. \A k \in 1 .. n : o[k] \in 1 .. n
  BY <1>3 DEF Permutes
<1>5. t \in [1 .. n -> S] /\ \A k \in 1 .. n : t[k] = s[o[k]]
  BY <1>1, <1>2, <1>4
<1>6. t \in Seq(S) /\ Len(t) = n
  BY <1>1, <1>5, IsSeq
<1> QED
  BY <1>3, <1>4, <1>5, <1>6 DEF n
=============================================================================
