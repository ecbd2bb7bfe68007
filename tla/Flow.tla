-------------------------------- MODULE Flow --------------------------------
(***************************************************************************)
(* find_flow_chain (explore/flow.py): from each named symbol a search in   *)
(* breadth along calls, which passes at most MaxBridge symbols in a row    *)
(* that are not named; the deepest named symbol found gives a chain, and   *)
(* the longest chain is the spine of the answer.                           *)
(***************************************************************************)
EXTENDS Integers, Sequences, FiniteSets, SequencesExt

CONSTANTS
    MaxDepth,     \* max_depth
    MaxBridge,    \* max_bridge
    ParentLimit   \* symbols after which a search is given up

ASSUME FlowAssumption == {MaxDepth, MaxBridge, ParentLimit} \subseteq Nat

VARIABLES
    calls,    \* the calls among the symbols, as <<caller, callee>>
    named,    \* the symbols the query names
    seeds,    \* those no search has started from yet
    seed,     \* the one the search runs from, or ""
    parent,   \* the symbols found, each with the one it was found from
    queue,
    deep,     \* deep_id and deep_depth
    best      \* best_chain

flowVars == <<calls, named, seeds, seed, parent, queue, deep, best>>

NoSeed == ""
NotDeep == [id |-> NoSeed, depth |-> 0]

FlowInit ==
    /\ seeds = IF Cardinality(named) >= 2 THEN named ELSE {}
    /\ seed = NoSeed
    /\ parent = <<>>
    /\ queue = <<>>
    /\ deep = NotDeep
    /\ best = <<>>

Entry(id, depth, streak) == [id |-> id, depth |-> depth, streak |-> streak]

StartTrace ==
    /\ seed = NoSeed
    /\ \E s \in seeds :
          /\ seed' = s
          /\ seeds' = seeds \ {s}
          /\ parent' = [n \in {s} |-> s]
          /\ queue' = <<Entry(s, 0, 0)>>
    /\ deep' = NotDeep
    /\ UNCHANGED <<calls, named, best>>

\* Mutants: no symbol is counted; a named symbol does not begin a new row.
BugStreakStays(item, callee) == item.streak
BugStreakGrows(item, callee) == item.streak + 1

Streak(item, callee) == IF callee \in named THEN 0 ELSE item.streak + 1

Callees(item) ==
    {c \in {e[2] : e \in {e \in calls : e[1] = item.id}} \ DOMAIN parent : Streak(item, c) <= MaxBridge}

\* The symbols found, with some more that were found from id.
Grown(tree, found, id) ==
    [n \in DOMAIN tree \cup found |-> IF n \in DOMAIN tree THEN tree[n] ELSE id]

\* One turn of the loop over the queue.  The database gives callees in any order.
Trace ==
    /\ queue # <<>>
    /\ LET item == Head(queue)
           tooMany == Cardinality(DOMAIN parent) > ParentLimit
           found == IF tooMany \/ item.depth >= MaxDepth - 1 THEN {} ELSE Callees(item)
       IN  /\ deep' = IF ~tooMany /\ item.id \in named \ {seed} /\ item.depth > deep.depth
                      THEN [id |-> item.id, depth |-> item.depth] ELSE deep
           /\ parent' = Grown(parent, found, item.id)
           /\ \E order \in SetToSeqs(found) :
                 queue' = IF tooMany THEN <<>>
                          ELSE Tail(queue) \o [i \in DOMAIN order |->
                                  Entry(order[i], item.depth + 1, Streak(item, order[i]))]
    /\ UNCHANGED <<calls, named, seeds, seed, best>>

Chain(id) ==
    LET up[n \in DOMAIN parent] == IF n = seed THEN <<n>> ELSE Append(up[parent[n]], n)
    IN  up[id]

EndTrace ==
    /\ seed # NoSeed
    /\ queue = <<>>
    /\ best' = IF deep # NotDeep /\ Len(Chain(deep.id)) > Len(best) THEN Chain(deep.id) ELSE best
    /\ seed' = NoSeed
    /\ UNCHANGED <<calls, named, seeds, parent, queue, deep>>

FlowStep == StartTrace \/ Trace \/ EndTrace
FlowEnded == seeds = {} /\ seed = NoSeed

\* The spine has at least three symbols.
Spine == IF Len(best) >= 3 THEN best ELSE <<>>
==============================================================================
