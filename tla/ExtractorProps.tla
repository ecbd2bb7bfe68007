--------------------------- MODULE ExtractorProps ---------------------------
(***************************************************************************)
(* What one run of TreeSitterExtractor promises about the nodes, edges and *)
(* references it returns, stated over the tree instead of the visitor.     *)
(***************************************************************************)
EXTENDS Extractor

\* The rows are of the kinds the tables know, and the stack holds node ids
\* (NodeKind and EdgeKind in types.py).
TypeOK ==
    /\ IsTree(tree)
    /\ \A i \in DOMAIN agenda :
          /\ agenda[i].do \in {"visit", "walk", "function", "member", "pop", "clear"}
          /\ agenda[i].at \in DOMAIN tree \cup {0}
    /\ \A i \in DOMAIN node_stack : \E j \in DOMAIN nodes : nodes[j].id = node_stack[i]
    /\ \A i \in DOMAIN nodes : nodes[i].kind \in NodeKind /\ nodes[i].at \in DOMAIN tree
    /\ \A i \in DOMAIN refs : refs[i].kind \in RefKind /\ refs[i].at \in DOMAIN tree
    /\ \A i \in DOMAIN pending : tree[pending[i]].t = "decorator"
    /\ outcome \in {"visiting", "ok", "partial"}

ScopeKind == {"file", "function", "method", "property", "class", "interface", "struct", "enum"}

\* The stored definition a position stands in.
Scope ==
    LET above[p \in DOMAIN tree] ==
          LET q == tree[p].parent
              here == {i \in DOMAIN nodes : nodes[i].at = q /\ nodes[i].kind \in ScopeKind}
          IN  IF q = 0 THEN FileId
              ELSE IF here # {} THEN nodes[CHOOSE i \in here : TRUE].id
              ELSE above[q]
    IN  above

\* Containment follows the nesting of the definitions in the source: every
\* node but the file has one edge, from the definition it stands in, also
\* when a handler gave up on a definition without a name, or raised
\* (_create_node, the pushes and pops of node_stack).
Nesting ==
    /\ Len(edges) + 1 = Len(nodes)
    /\ \A i \in DOMAIN edges : edges[i] = <<Scope[nodes[i + 1].at], nodes[i + 1].id>>

\* Every mention belongs to the definition it stands in, inheritance to the
\* type that declares it, and an impl to a type of the name it gives
\* (_extract_call, _extract_inheritance, _find_node_by_name).
ReferencesOwned ==
    \A i \in DOMAIN refs :
       LET r == refs[i]
           p == tree[r.at].parent
       IN  CASE r.kind \in {"calls", "instantiates", "imports"} -> r.from = Scope[r.at]
             [] tree[r.at].t \in {"base", "contract"} ->
                   \E j \in DOMAIN nodes : nodes[j].at = p /\ nodes[j].id = r.from /\ nodes[j].kind \in ClassLike
             [] tree[r.at].t = "impl" ->
                   \E j \in DOMAIN nodes : nodes[j].name = tree[r.at].name /\ nodes[j].id = r.from
             [] OTHER -> r.kind = "decorates"

\* What is returned, also after an exception, is a whole: edges and references
\* hang on returned nodes, as the foreign keys of the tables ask for.
SelfContained ==
    LET ids == {nodes[i].id : i \in DOMAIN nodes}
    IN  /\ \A i \in DOMAIN edges : edges[i][1] \in ids /\ edges[i][2] \in ids
        /\ \A i \in DOMAIN refs : refs[i].from \in ids

Callable == {"function", "method", "property"}

\* The positions in the body of p, without what stands in a type there.
Under(p) ==
    LET in[q \in DOMAIN tree] ==
          \/ tree[q].parent = p /\ tree[q].part = "body"
          \/ tree[q].parent > p /\ in[tree[q].parent] /\ tree[tree[q].parent].t \notin ClassLike
    IN  {q \in DOMAIN tree : in[q]}

\* Every call in the body of a stored function or method, at any depth, in an
\* argument, a lambda or a nested function, gives exactly one reference, and
\* the function is its caller (_walk_for_calls).
BodyCallsFound ==
    outcome = "ok" =>
       \A i \in DOMAIN nodes :
          nodes[i].kind \in Callable /\ tree[nodes[i].at].t \in {"function", "either", "method"} =>
             \A q \in Under(nodes[i].at) :
                tree[q].t = "call" /\ tree[q].name # NoName =>
                   \E k \in DOMAIN refs :
                      /\ refs[k] = Ref(nodes[i].id, "calls", tree[q].name, q)
                      /\ \A l \in DOMAIN refs : refs[l].at = q => l = k

\* What is decorated is one definition, a function or a type: only Python names
\* a decorated_definition type, and there the grammar says so.
OneDefinition ==
    \A tr \in Trees : \A p, q \in DOMAIN tr :
       /\ tr[p].parent > 0
       /\ tr[p].parent = tr[q].parent
       /\ tr[tr[p].parent].t = "decorated"
       /\ tr[p].t # "decorator" /\ tr[q].t # "decorator"
       => p = q /\ tr[p].t \notin {"alias", "property"}

\* A definition with decorators keeps all of them whose name can be read
\* (_handle_decorated_definition, _emit_decorates_refs).
DecoratorsKept ==
    outcome = "ok" =>
       \A i \in DOMAIN nodes : \A d \in DOMAIN tree :
          /\ nodes[i].kind \in Callable \cup ClassLike
          /\ tree[nodes[i].at].parent > 0
          /\ tree[tree[nodes[i].at].parent].t = "decorated"
          /\ \E j \in DOMAIN nodes : nodes[j].id = Scope[nodes[i].at] /\ nodes[j].kind \notin Callable
          /\ tree[d].parent = tree[nodes[i].at].parent
          /\ tree[d].t = "decorator" /\ tree[d].name # NoName
          => \E k \in DOMAIN refs : refs[k] = Ref(nodes[i].id, "decorates", tree[d].name, d)

\* The walk visits the tree once: it ends, with the stack empty and no
\* decorator left over unless it raised (extract).
WalkEnds ==
    <>[](\/ outcome = "partial"
         \/ outcome = "ok" /\ node_stack = <<>> /\ pending = <<>> /\ agenda = <<>>)

\* A decorator belongs to the definition it is written on: the comment on
\* _pending_decorators says "decorators on the current decorated_definition".
DecoratorsOwn ==
    \A i \in DOMAIN refs : refs[i].kind = "decorates" =>
       \E j \in DOMAIN nodes :
          /\ nodes[j].id = refs[i].from
          /\ tree[nodes[j].at].parent = tree[refs[i].at].parent
==============================================================================
