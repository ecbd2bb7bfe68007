------------------------------- MODULE Lists -------------------------------
(***************************************************************************)
(* What the models do with lists, as Python does it: comprehensions with a *)
(* condition, sums and stable sorts.  Conditions and orders are turned     *)
(* into sets, of positions and of pairs of them, and every recursion is    *)
(* over a position, so that what they return can be proved.                *)
(***************************************************************************)
EXTENDS Integers, Sequences

IsList(s) == s \in Seq({s[i] : i \in DOMAIN s})

\* [s[i] for i in range(len(s)) if i in at]
Picked(s, at) ==
    LET kept[i \in 0 .. Len(s)] ==
            IF i = 0 THEN <<>>
            ELSE IF i \in at THEN Append(kept[i - 1], s[i])
            ELSE kept[i - 1]
    IN  kept[Len(s)]

\* Where in s the test holds, and what there is.
Sites(s, Test(_)) == {i \in DOMAIN s : Test(s[i])}
Where(s, Test(_)) == Picked(s, Sites(s, Test))

\* s, and behind it what of t has a key that none before it has.
Extended(s, t, Key(_)) ==
    LET all == s \o t
    IN  Picked(all, {i \in DOMAIN all : i <= Len(s) \/ \A j \in 1 .. i - 1 : Key(all[j]) # Key(all[i])})

\* sum(w)
Total(w) ==
    LET sum[i \in 0 .. Len(w)] == IF i = 0 THEN 0 ELSE sum[i - 1] + w[i]
    IN  sum[Len(w)]

SumOver(s, Size(_)) == Total([i \in DOMAIN s |-> Size(s[i])])

\* x is put in front of the first position that it comes before.
Inserted(order, x, before) ==
    LET n == Len(order)
        k == CHOOSE k \in 0 .. n : /\ \A j \in 1 .. k : <<x, order[j]>> \notin before
                                   /\ k < n => <<x, order[k + 1]>> \in before
    IN  [j \in 1 .. n + 1 |-> CASE j <= k -> order[j] [] j = k + 1 -> x [] j > k + 1 -> order[j - 1]]

\* The numbers up to n, sorted: a pair is in before if its first number has to
\* come before the second one.
Arranged(n, before) ==
    LET order[i \in 0 .. n] == IF i = 0 THEN <<>> ELSE Inserted(order[i - 1], i, before)
    IN  order[n]

\* A stable sort of s.
SortedBy(s, Before(_, _)) ==
    LET order == Arranged(Len(s), {p \in (DOMAIN s) \X (DOMAIN s) : Before(s[p[1]], s[p[2]])})
    IN  [k \in DOMAIN s |-> s[order[k]]]
=============================================================================
