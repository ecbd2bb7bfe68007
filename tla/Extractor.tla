------------------------------ MODULE Extractor ------------------------------
(***************************************************************************)
(* TreeSitterExtractor (extraction/extractor.py): the visitor that turns   *)
(* one syntax tree into nodes, containment edges and references.           *)
(*                                                                         *)
(* A position of the tree stands for a syntax node the visitor treats in   *)
(* its own way; t is the class of grammar types it belongs to in its       *)
(* language ("either" is in function_types and in method_types, as in      *)
(* Python and Java; "plain" is in none).  part says whether a child is in  *)
(* the body field of its parent.  The agenda is the call stack of the      *)
(* visitor: what remains of the loops of the active calls, in order.  A    *)
(* declaration with several declarators is several positions.              *)
(***************************************************************************)
EXTENDS Integers, Sequences, FiniteSets

CONSTANTS
    Trees,               \* the syntax trees to visit
    MethodsAreTopLevel,  \* LanguageExtractor.methods_are_top_level
    PropertyDecorator    \* the decorator names LanguageExtractor.is_property accepts

SyntaxType == {"plain", "decorated", "decorator", "function", "either", "method", "class",
               "interface", "struct", "enum", "member", "alias", "property", "field",
               "variable", "import", "call", "new", "impl", "base", "contract"}

Anonymous == "<anonymous>"
NoName == ""

Position ==
    [t : SyntaxType, parent : Nat, part : {"head", "body"}, hasBody : BOOLEAN,
     name : STRING, line : Nat,
     receiver : BOOLEAN,                          \* get_receiver_type finds one
     inObject : BOOLEAN,                          \* the parent is an object literal
     kind : {"alias", "struct", "interface"},     \* resolve_type_alias_kind
     mentions : Seq(STRING)]                      \* imported names, the trait of an impl

\* Position 1 is the root, and a parent comes before its children.  What is in
\* a body is in the body of its parent.
IsTree(tr) ==
    /\ tr \in Seq(Position) \ {<<>>}
    /\ tr[1].t = "plain"
    /\ \A p \in DOMAIN tr : tr[p].parent < p /\ (tr[p].parent = 0 <=> p = 1)
    /\ \A p \in DOMAIN tr : tr[p].part = "body" => p > 1 /\ tr[tr[p].parent].hasBody

ASSUME ExtractorAssumption ==
    /\ \A tr \in Trees : IsTree(tr)
    /\ MethodsAreTopLevel \in BOOLEAN

VARIABLES
    tree,        \* the tree being visited
    agenda,      \* what the active calls have left to do
    node_stack,  \* ids of the enclosing definitions
    nodes,
    edges,       \* containment, as <<source, target>>
    refs,        \* unresolved_refs
    pending,     \* _pending_decorators, as positions
    outcome      \* "visiting", "ok", or "partial" after an exception

vars == <<tree, agenda, node_stack, nodes, edges, refs, pending, outcome>>
output == <<nodes, edges, refs>>

NodeKind == {"file", "function", "method", "property", "class", "interface", "struct", "enum",
             "enum_member", "type_alias", "field", "variable", "import"}
RefKind == {"calls", "instantiates", "imports", "extends", "implements", "decorates"}

ClassLike == {"class", "struct", "interface", "enum"}

\* generate_node_id hashes kind, name and line (and the file).
NodeId(kind, name, line) == <<kind, name, line>>
FileId == NodeId("file", "file", 1)
NodeAt(kind, name, p) == [id |-> NodeId(kind, name, tree[p].line), kind |-> kind, name |-> name, at |-> p]

Frame(do, p) == [do |-> do, at |-> p]
Pop == Frame("pop", 0)
Clear == Frame("clear", 0)

Init ==
    /\ tree \in Trees
    /\ agenda = <<Frame("visit", 1), Pop>>
    /\ node_stack = <<FileId>>
    /\ nodes = <<[id |-> FileId, kind |-> "file", name |-> "file", at |-> 1]>>
    /\ edges = <<>>
    /\ refs = <<>>
    /\ pending = <<>>
    /\ outcome = "visiting"

Top == node_stack[Len(node_stack)]

\* The first node with the id of the enclosing definition decides.
IsInsideClassLike ==
    LET same == {i \in DOMAIN nodes : nodes[i].id = Top}
    IN  \E i \in same : (\A j \in same : i <= j) /\ nodes[i].kind \in ClassLike

\* The children of p, all of them or those in its body.
Children(p) == {i \in DOMAIN tree : tree[i].parent = p}
BodyOf(p) == {i \in Children(p) : tree[i].part = "body"}
BodyOrNode(p) == IF tree[p].hasBody THEN BodyOf(p) ELSE Children(p)
OfType(S, types) == {i \in S : tree[i].t \in types}

\* The positions in S, in source order.
Listed(S) ==
    LET upto[i \in 0 .. Len(tree)] ==
          IF i = 0 THEN <<>> ELSE IF i \in S THEN Append(upto[i - 1], i) ELSE upto[i - 1]
    IN  upto[Len(tree)]

Frames(do, S) == [i \in DOMAIN Listed(S) |-> Frame(do, Listed(S)[i])]

(* Which handler a position gets *)

\* A method outside a class is a function, unless it has a receiver; a
\* function with a receiver is a method.
CallableHandler(p) ==
    LET n == tree[p] IN
    CASE n.receiver -> "method"
      [] n.t = "either" /\ IsInsideClassLike -> "method"
      [] n.t = "method" /\ (IsInsideClassLike \/ MethodsAreTopLevel) -> "method"
      [] n.t = "method" /\ ~(IsInsideClassLike \/ MethodsAreTopLevel) /\ n.inObject -> "dropped"
      [] OTHER -> "function"

VisitHandler(p) ==
    LET t == tree[p].t IN
    CASE t \in {"function", "either", "method"} -> CallableHandler(p)
      [] t \in {"property", "field"} /\ ~IsInsideClassLike -> "plain"
      [] t = "variable" /\ IsInsideClassLike -> "plain"
      [] t \in {"decorator", "base", "contract", "member"} -> "plain"
      [] OTHER -> t

\* In the body of a function only calls and type definitions count.
WalkHandler(p) ==
    IF tree[p].t \in ClassLike \cup {"call", "new"} THEN tree[p].t ELSE "plain"

Handler(f) ==
    CASE f.do = "visit" -> VisitHandler(f.at)
      [] f.do = "walk" -> WalkHandler(f.at)
      [] f.do = "function" -> IF tree[f.at].receiver THEN "method" ELSE "function"
      [] OTHER -> f.do

Handling(handler) == outcome = "visiting" /\ agenda # <<>> /\ Handler(Head(agenda)) = handler
Here == Head(agenda).at

(* Creating nodes and references *)

Ref(from, kind, name, p) == [from |-> from, kind |-> kind, name |-> name, at |-> p]

CreateNode(n) ==
    /\ nodes' = Append(nodes, n)
    /\ edges' = Append(edges, <<Top, n.id>>)

EmitDecoratesRefs(id) ==
    [i \in DOMAIN pending |-> Ref(id, "decorates", tree[pending[i]].name, pending[i])]

\* Mutant: the definition around the type is taken for the type.
BugExtractInheritance(id, p) ==
    LET bases == Listed(OfType(Children(p), {"base", "contract"}))
    IN  [i \in DOMAIN bases |-> Ref(Top, "extends", tree[bases[i]].name, bases[i])]

\* A base is extended, a contract implemented.
ExtractInheritance(id, p) ==
    LET bases == Listed(OfType(Children(p), {"base", "contract"}))
        RelationTo(i) == IF tree[i].t = "base" THEN "extends" ELSE "implements"
    IN  [i \in DOMAIN bases |-> Ref(id, RelationTo(bases[i]), tree[bases[i]].name, bases[i])]

\* Mutant: the scope is not left again.
BugEnter(n, do, children, mentions) ==
    /\ CreateNode(n)
    /\ refs' = refs \o EmitDecoratesRefs(n.id) \o mentions
    /\ node_stack' = Append(node_stack, n.id)
    /\ agenda' = Frames(do, children) \o Tail(agenda)
    /\ UNCHANGED <<tree, pending, outcome>>

\* The definition becomes the innermost one while its children are visited.
Enter(n, do, children, mentions) ==
    /\ CreateNode(n)
    /\ refs' = refs \o EmitDecoratesRefs(n.id) \o mentions
    /\ node_stack' = Append(node_stack, n.id)
    /\ agenda' = Frames(do, children) \o <<Pop>> \o Tail(agenda)
    /\ UNCHANGED <<tree, pending, outcome>>

\* Mutant: a position without a name is taken up again and again.
BugLeave == UNCHANGED vars

\* _create_node returns None, or the handler before it: the children are lost.
Leave ==
    /\ agenda' = Tail(agenda)
    /\ UNCHANGED <<tree, node_stack, nodes, edges, refs, pending, outcome>>

CreateLeaf(n) ==
    /\ CreateNode(n)
    /\ agenda' = Tail(agenda)
    /\ UNCHANGED <<tree, node_stack, refs, pending, outcome>>

(* The handlers *)

VisitPlain ==
    /\ Handling("plain")
    /\ agenda' = Frames(Head(agenda).do, Children(Here)) \o Tail(agenda)
    /\ UNCHANGED <<tree, node_stack, nodes, edges, refs, pending, outcome>>

\* Mutant: the decorators are cleared before the definition is visited.
BugHandleDecorated ==
    /\ Handling("decorated")
    /\ LET all == Children(Here)
           inner == {i \in all : tree[i].t # "decorator"}
       IN  /\ pending' = <<>>
           /\ agenda' = Frames("visit", inner) \o <<Clear>> \o Tail(agenda)
    /\ UNCHANGED <<tree, node_stack, nodes, edges, refs, outcome>>

\* Decorators whose name cannot be read are skipped; none is visited.
HandleDecorated ==
    /\ Handling("decorated")
    /\ LET all == Children(Here)
           inner == {i \in all : tree[i].t # "decorator"}
       IN  /\ pending' = Listed({i \in OfType(all, {"decorator"}) : tree[i].name # NoName})
           /\ agenda' = Frames("visit", inner) \o <<Clear>> \o Tail(agenda)
    /\ UNCHANGED <<tree, node_stack, nodes, edges, refs, outcome>>

ClearPending ==
    /\ Handling("clear")
    /\ pending' = <<>>
    /\ agenda' = Tail(agenda)
    /\ UNCHANGED <<tree, node_stack, nodes, edges, refs, outcome>>

LeaveScope ==
    /\ Handling("pop")
    /\ node_stack' = SubSeq(node_stack, 1, Len(node_stack) - 1)
    /\ agenda' = Tail(agenda)
    /\ UNCHANGED <<tree, nodes, edges, refs, pending, outcome>>

FunctionBody(p) == IF tree[p].hasBody THEN BodyOf(p) ELSE {}

ExtractFunction ==
    /\ Handling("function")
    /\ IF tree[Here].name \in {Anonymous, NoName} THEN Leave
       ELSE Enter(NodeAt("function", tree[Here].name, Here), "walk", FunctionBody(Here), <<>>)

ExtractMethod ==
    /\ Handling("method")
    /\ LET is_prop == \E i \in DOMAIN pending : tree[pending[i]].name \in PropertyDecorator
           kind == IF is_prop THEN "property" ELSE "method"
       IN  IF tree[Here].name = NoName THEN Leave
           ELSE Enter(NodeAt(kind, tree[Here].name, Here), "walk", FunctionBody(Here), <<>>)

DropMethod == Handling("dropped") /\ Leave

ExtractClass ==
    /\ Handling("class")
    /\ LET n == NodeAt("class", tree[Here].name, Here)
       IN  IF tree[Here].name = NoName THEN Leave
           ELSE Enter(n, "visit", BodyOrNode(Here), ExtractInheritance(n.id, Here))

ExtractInterface ==
    /\ Handling("interface")
    /\ LET n == NodeAt("interface", tree[Here].name, Here)
       IN  IF tree[Here].name = NoName THEN Leave
           ELSE Enter(n, "visit", BodyOrNode(Here), ExtractInheritance(n.id, Here))

\* Mutant: a struct without a name is not given up.
BugExtractStruct ==
    /\ Handling("struct")
    /\ LET n == NodeAt("struct", tree[Here].name, Here)
       IN  IF ~tree[Here].hasBody THEN Leave
           ELSE IF tree[Here].name # NoName
                THEN Enter(n, "visit", BodyOf(Here), ExtractInheritance(n.id, Here))
                ELSE /\ refs' = refs \o ExtractInheritance(n.id, Here)
                     /\ agenda' = Tail(agenda)
                     /\ UNCHANGED <<tree, node_stack, nodes, edges, pending, outcome>>

ExtractStruct ==
    /\ Handling("struct")
    /\ LET n == NodeAt("struct", tree[Here].name, Here)
       IN  IF tree[Here].name = NoName \/ ~tree[Here].hasBody THEN Leave
           ELSE Enter(n, "visit", BodyOf(Here), ExtractInheritance(n.id, Here))

ExtractEnum ==
    /\ Handling("enum")
    /\ LET n == NodeAt("enum", tree[Here].name, Here)
       IN  IF tree[Here].name = NoName \/ ~tree[Here].hasBody THEN Leave
           ELSE LET body == Listed(BodyOf(Here))
                    How(i) == IF tree[i].t = "member" THEN "member" ELSE "visit"
                IN  /\ CreateNode(n)
                    /\ refs' = refs \o EmitDecoratesRefs(n.id) \o ExtractInheritance(n.id, Here)
                    /\ node_stack' = Append(node_stack, n.id)
                    /\ agenda' = [i \in DOMAIN body |-> Frame(How(body[i]), body[i])]
                                   \o <<Pop>> \o Tail(agenda)
                    /\ UNCHANGED <<tree, pending, outcome>>

\* Mutant: a kind that the database does not know.
BugExtractEnumMember ==
    /\ Handling("member")
    /\ IF tree[Here].name = NoName THEN Leave
       ELSE CreateLeaf(NodeAt("member", tree[Here].name, Here))

ExtractEnumMember ==
    /\ Handling("member")
    /\ IF tree[Here].name = NoName THEN Leave
       ELSE CreateLeaf(NodeAt("enum_member", tree[Here].name, Here))

ExtractProperty ==
    /\ Handling("property")
    /\ IF tree[Here].name = NoName THEN Leave
       ELSE CreateLeaf(NodeAt("property", tree[Here].name, Here))

ExtractField ==
    /\ Handling("field")
    /\ IF tree[Here].name = NoName THEN Leave
       ELSE CreateLeaf(NodeAt("field", tree[Here].name, Here))

\* A variable whose value is a function is that function (JavaScript); the
\* value of any other is not visited.
ExtractVariable ==
    /\ Handling("variable")
    /\ LET values == OfType(Children(Here), {"function"}) IN
       CASE values # {} ->
              /\ agenda' = Frames("function", values) \o Tail(agenda)
              /\ UNCHANGED <<tree, node_stack, nodes, edges, refs, pending, outcome>>
         [] values = {} /\ tree[Here].name = NoName -> Leave
         [] OTHER -> CreateLeaf(NodeAt("variable", tree[Here].name, Here))

ExtractImport ==
    /\ Handling("import")
    /\ IF tree[Here].name = NoName THEN UNCHANGED <<nodes, edges>>
       ELSE CreateNode(NodeAt("import", tree[Here].name, Here))
    /\ refs' = refs \o [i \in DOMAIN tree[Here].mentions |->
                          Ref(Top, "imports", tree[Here].mentions[i], Here)]
    /\ agenda' = Frames("visit", Children(Here)) \o Tail(agenda)
    /\ UNCHANGED <<tree, node_stack, pending, outcome>>

\* Mutant: the arguments of a call are not walked.
BugMention(kind) ==
    /\ refs' = IF tree[Here].name = NoName THEN refs
               ELSE Append(refs, Ref(Top, kind, tree[Here].name, Here))
    /\ agenda' = Tail(agenda)
    /\ UNCHANGED <<tree, node_stack, nodes, edges, pending, outcome>>

\* A mention belongs to the innermost definition; its arguments are visited next.
Mention(kind) ==
    /\ refs' = IF tree[Here].name = NoName THEN refs
               ELSE Append(refs, Ref(Top, kind, tree[Here].name, Here))
    /\ agenda' = Frames(Head(agenda).do, Children(Here)) \o Tail(agenda)
    /\ UNCHANGED <<tree, node_stack, nodes, edges, pending, outcome>>

ExtractCall == Handling("call") /\ Mention("calls")

ExtractInstantiation == Handling("new") /\ Mention("instantiates")

\* An alias without a name leaves its children to the visitor; so does an
\* alias that names neither a struct nor an interface (Go).
ExtractTypeAlias ==
    /\ Handling("alias")
    /\ LET n == tree[Here]
           Named(kind) == n.name # Anonymous /\ n.kind = kind
       IN
       \/ /\ Named("struct") /\ n.name # NoName
          /\ CreateNode(NodeAt("struct", n.name, Here))
          /\ node_stack' = Append(node_stack, NodeAt("struct", n.name, Here).id)
          /\ agenda' = Frames("visit", BodyOrNode(Here)) \o <<Pop>> \o Tail(agenda)
          /\ UNCHANGED <<tree, refs, pending, outcome>>
       \/ Named("interface") /\ n.name # NoName /\ CreateLeaf(NodeAt("interface", n.name, Here))
       \/ (Named("struct") \/ Named("interface")) /\ n.name = NoName /\ Leave
       \/ /\ ~Named("struct") /\ ~Named("interface")
          /\ IF n.name \in {Anonymous, NoName} THEN UNCHANGED <<nodes, edges>>
             ELSE CreateNode(NodeAt("type_alias", n.name, Here))
          /\ agenda' = Frames("visit", Children(Here)) \o Tail(agenda)
          /\ UNCHANGED <<tree, node_stack, refs, pending, outcome>>

\* The type an impl is for is looked up among the nodes visited so far.
FindNodeByName(name) ==
    {i \in DOMAIN nodes : nodes[i].name = name /\ nodes[i].kind \in {"struct", "enum", "class"}}

\* Without "for" an impl mentions no trait.
ExtractImpl ==
    /\ Handling("impl")
    /\ LET named == FindNodeByName(tree[Here].name)
           first == CHOOSE i \in named : \A j \in named : i <= j
       IN  refs' = IF named = {} \/ tree[Here].mentions = <<>> THEN refs
                   ELSE Append(refs, Ref(nodes[first].id, "implements", tree[Here].mentions[1], Here))
    /\ agenda' = Frames("visit", Children(Here)) \o Tail(agenda)
    /\ UNCHANGED <<tree, node_stack, nodes, edges, pending, outcome>>

\* Any call may raise, a deep tree by exhausting the stack: what has been
\* extracted so far is returned with an error.
Raise ==
    /\ outcome = "visiting"
    /\ agenda # <<>>
    /\ outcome' = "partial"
    /\ agenda' = <<>>
    /\ UNCHANGED <<tree, node_stack, nodes, edges, refs, pending>>

Finish ==
    /\ outcome = "visiting"
    /\ agenda = <<>>
    /\ outcome' = "ok"
    /\ UNCHANGED <<tree, agenda, node_stack, nodes, edges, refs, pending>>

Visit ==
    \/ VisitPlain \/ HandleDecorated \/ ClearPending \/ LeaveScope
    \/ ExtractFunction \/ ExtractMethod \/ DropMethod
    \/ ExtractClass \/ ExtractInterface \/ ExtractStruct \/ ExtractEnum \/ ExtractEnumMember
    \/ ExtractProperty \/ ExtractField \/ ExtractVariable
    \/ ExtractImport \/ ExtractCall \/ ExtractInstantiation
    \/ ExtractTypeAlias \/ ExtractImpl
    \/ Finish

Next == Visit \/ Raise

Spec == Init /\ [][Next]_vars

FairSpec == Spec /\ WF_vars(Visit)
==============================================================================
