----------------------------- MODULE MCExtractor -----------------------------
(***************************************************************************)
(* Families of small syntax trees for TLC, one for each way in which the   *)
(* constructs of the five languages meet.                                  *)
(***************************************************************************)
EXTENDS ExtractorProps

Plain ==
    [t |-> "plain", parent |-> 0, part |-> "head", hasBody |-> FALSE, name |-> NoName, line |-> 1,
     receiver |-> FALSE, inObject |-> FALSE, kind |-> "alias", mentions |-> <<>>]

Names == <<"root", "f", "g", "h", "i", "j", "k">>

Parents(n) == {ps \in [1 .. n -> 0 .. n - 1] : ps[1] = 0 /\ \A i \in 2 .. n : ps[i] \in 1 .. i - 1}

\* The tree of types ts and parents ps, what is in body being body.
TreeOf(ts, ps, body) ==
    [i \in DOMAIN ts |->
        [Plain EXCEPT !.t = ts[i], !.parent = ps[i], !.name = Names[i], !.line = i,
                      !.part = IF i \in body THEN "body" ELSE "head",
                      !.hasBody = \E j \in body : ps[j] = i]]

Rooted(s) == <<"plain">> \o s

\* Functions, classes and calls in every nesting of four.
Nested ==
    {TreeOf(Rooted(ts), ps, 2 .. 5) :
        ts \in [1 .. 4 -> {"either", "class", "call"}], ps \in Parents(5)}

\* Types, with their bases and members in the head or in the body.
Types ==
    {TreeOf(Rooted(ts), ps, body) :
        ts \in {"class", "interface", "struct", "enum"} \X {"class", "struct", "enum", "base", "contract", "member"}
                 \X {"interface", "base", "contract", "member", "property"},
        ps \in Parents(4), body \in {{4}, {3, 4}}}

\* The statements of JavaScript and Go, bodies and heads.
Statements ==
    {TreeOf(Rooted(ts), ps, {3, 4}) :
        ts \in {"variable", "function", "method", "import", "class"}
                 \X {"variable", "function", "method", "new", "import", "class", "field"}
                 \X {"variable", "function", "new", "call", "field"},
        ps \in Parents(4)}

\* What is written in one line shares its ids when it shares its name.
OneLine ==
    {[i \in DOMAIN tr |-> [tr[i] EXCEPT !.line = 1, !.name = "f"]] :
        tr \in {t \in Nested : t[2].t # "call"}}

\* One name cannot be read, or is none.
Unnamed ==
    {[tr EXCEPT ![i].name = name] :
        tr \in {TreeOf(Rooted(ts), <<0, 1, 2, p>>, {3, 4}) :
                   ts \in {"either", "class", "struct", "enum", "interface", "alias", "import", "variable", "call"}
                            \X {"either", "class", "member", "base", "call"} \X {"member", "call", "base"},
                   p \in {2, 3}},
        i \in {2, 3}, name \in {NoName, Anonymous}}

\* The declarations that are told apart by what they refer to.
Resolved ==
    {[tr EXCEPT ![i].kind = kind, ![i].receiver = recv, ![i].inObject = obj, ![i].mentions = <<"g", "k">>] :
        tr \in {TreeOf(Rooted(ts), ps, {3, 4}) :
                   ts \in {"alias", "method", "function", "import"} \X {"alias", "method", "call"}
                            \X {"struct", "call"},
                   ps \in Parents(4)},
        i \in {2, 3}, kind \in {"alias", "struct", "interface"}, recv \in BOOLEAN, obj \in BOOLEAN}

\* An impl of a type that stands before it, behind it, or nowhere.
Impls ==
    {[TreeOf(<<"plain", s, "impl", t>>, <<0, 1, 1, p>>, {4}) EXCEPT
         ![2].name = n, ![2].hasBody = TRUE, ![3].name = "f", ![3].mentions = m,
         ![4].name = "f", ![4].hasBody = TRUE] :
        s \in {"struct", "enum", "class", "interface"}, t \in {"struct", "call", "either"},
        p \in {1, 3}, n \in {"f", "g"}, m \in {<<>>, <<"trait">>}}

\* Decorated definitions, with a decorated or plain one inside.
Decorated ==
    {[TreeOf(<<"plain", "decorated", "decorator", outer, inner, "decorator", last>>,
             <<0, 1, 2, 2, 4, 5, q>>, {5, 7}) EXCEPT ![3].name = d, ![6].name = e] :
        outer \in {"class", "either"}, inner \in {"decorated", "either", "call"},
        last \in {"either", "class", "call"}, q \in {4, 5},
        d \in {"property", "cached"}, e \in {"property", NoName}}

\* Two decorators on one definition.
Twice ==
    {TreeOf(<<"plain", "class", "decorated", "decorator", "decorator", inner>>, <<0, 1, p, 3, 3, 3>>, {3}) :
        p \in {1, 2}, inner \in {"either", "class"}}

AllTrees ==
    Nested \cup Types \cup Statements \cup OneLine \cup Unnamed \cup Resolved \cup Impls
           \cup Decorated \cup Twice

ASSUME MCExtractorAssumption == OneDefinition
==============================================================================
