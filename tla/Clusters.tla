------------------------------ MODULE Clusters ------------------------------
(***************************************************************************)
(* What of a large file is shown: its symbols merged into clusters of      *)
(* nearby lines (explore/clustering.py), or its skeleton, where some       *)
(* callables keep their body and the others one line                       *)
(* (explore/skeletonize.py).  A text is the sequence of the numbers of its *)
(* lines; every line of code is Width characters long.                     *)
(***************************************************************************)
EXTENDS FiniteSets, SequencesExt, Lists

CONSTANTS
    Width,           \* characters of a line, with its number
    Estimate,        \* _CHARS_PER_LINE_ESTIMATE
    Gap,             \* ExploreOutputBudget.gap_threshold
    Padding,         \* context_padding of extract_source_with_line_numbers
    PerFile,         \* ExploreOutputBudget.max_chars_per_file
    EdgeImportance,  \* _EDGE_RANGE_IMPORTANCE
    MaxSignatures,   \* _MAX_SIGNATURES
    Dense            \* _DENSITY_FALLBACK_THRESHOLD

ASSUME ClustersAssumption ==
    /\ {Width, Estimate, PerFile, MaxSignatures, Dense} \subseteq Nat \ {0}
    /\ {Gap, Padding, EdgeImportance} \subseteq Nat
    /\ 2 * Padding <= Gap

\* _CALLABLE_BODY_KINDS are callables, _ENVELOPE_KINDS containers.
SymbolKind == {"callable", "container", "other", "import"}

Rows(x) == x.last - x.first + 1

(* Clusters *)

IsEnvelope(n, lines) == n.kind = "container" /\ 2 * Rows(n) > lines

Inside(n, env) == n.first >= env.first /\ n.last <= env.last

\* The importance of an envelope that is left out goes to what is inside it.
Redistributed(n, kept, envelopes, score) ==
    LET PerChild(env) == IF ~Inside(n, env) THEN 0
                         ELSE score[env.id] \div Cardinality(Sites(kept, LAMBDA m : Inside(m, env)))
    IN  score[n.id] + SumOver(envelopes, PerChild)

Stretch(first, last, importance, symbols) ==
    [first |-> first, last |-> last, importance |-> importance, symbols |-> symbols]

\* The lines of calls and uses in the file, each target once per line.
EdgeRanges(kept, edges) ==
    LET Counts(e) == e.line > 0 /\ e.kind # "contains" /\ \E i \in DOMAIN kept : kept[i].id = e.source
        counted == Where(edges, Counts)
        once == {i \in DOMAIN counted :
                   \A j \in 1 .. i - 1 : counted[j].line # counted[i].line \/ counted[j].target # counted[i].target}
        uses == Picked(counted, once)
    IN  [k \in DOMAIN uses |-> Stretch(uses[k].line, uses[k].line, EdgeImportance, <<>>)]

Cluster(ranges, last, envelopes) ==
    LET first == ranges[1].first
        around == {i \in DOMAIN envelopes : envelopes[i].first <= first /\ first <= envelopes[i].last}
    IN  [first |-> IF around = {} THEN first ELSE Min({envelopes[i].first : i \in around}),
         last |-> last,
         symbols |-> FlattenSeq([k \in DOMAIN ranges |-> ranges[k].symbols]),
         importance |-> SumOver(ranges, LAMBDA r : r.importance),
         peak |-> Max({ranges[k].importance : k \in DOMAIN ranges})]

\* Mutant: a distance of Gap lines separates already.
BugNear(r, last) == r.first < last + Gap

Near(r, last) == r.first <= last + Gap

\* Ranges no more than Gap lines apart are one cluster.
Merge(ranges, envelopes) ==
    LET Add(acc, r) ==
          IF Near(r, acc.last)
          THEN [acc EXCEPT !.open = Append(@, r), !.last = Max({@, r.last})]
          ELSE [done |-> Append(acc.done, Cluster(acc.open, acc.last, envelopes)),
                open |-> <<r>>, last |-> r.last]
        merged[i \in 1 .. Len(ranges)] ==
          IF i = 1 THEN [done |-> <<>>, open |-> <<ranges[1]>>, last |-> ranges[1].last]
          ELSE Add(merged[i - 1], ranges[i])
        all == merged[Len(ranges)]
    IN  Append(all.done, Cluster(all.open, all.last, envelopes))

\* Without anything but envelopes, each of them is a cluster.
ClusterNodesInFile(nodes, score, lines, edges) ==
    LET envelopes == Where(nodes, LAMBDA n : IsEnvelope(n, lines))
        kept == Where(nodes, LAMBDA n : ~IsEnvelope(n, lines))
        stretches == [i \in DOMAIN kept |->
                        Stretch(kept[i].first, kept[i].last,
                                Redistributed(kept[i], kept, envelopes, score), <<kept[i]>>)]
        Earlier(r, s) == r.first < s.first \/ (r.first = s.first /\ r.last < s.last)
        sorted == SortedBy(envelopes, LAMBDA m, n : m.first < n.first)
    IN  CASE nodes = <<>> -> <<>>
          [] nodes # <<>> /\ kept = <<>> ->
                [i \in DOMAIN sorted |->
                   Cluster(<<Stretch(sorted[i].first, sorted[i].last, score[sorted[i].id], <<sorted[i]>>)>>,
                           sorted[i].last, <<>>)]
          [] OTHER -> Merge(SortedBy(stretches \o EdgeRanges(kept, edges), Earlier), envelopes)

Ranked(clusters) ==
    LET Before(c, d) ==
          LET density == c.importance * Rows(d) - d.importance * Rows(c) IN
          \/ c.peak > d.peak
          \/ c.peak = d.peak /\ density > 0
          \/ c.peak = d.peak /\ density = 0 /\ c.importance > d.importance
          \/ c.peak = d.peak /\ density = 0 /\ c.importance = d.importance /\ Rows(c) < Rows(d)
    IN  SortedBy(clusters, Before)

\* As many of the first as fit, and always one.
SelectClustersWithinBudget(ranked, budget) ==
    LET Fits(k) == Estimate * SumOver(SubSeq(ranked, 1, k), Rows) <= budget
    IN  SubSeq(ranked, 1, Max({1} \cup {k \in DOMAIN ranked : Fits(k)}))

LinesFrom(first, last) == [i \in 1 .. last - first + 1 |-> first + i - 1]

\* extract_source_with_line_numbers
Excerpt(clusters, lines) ==
    LET sorted == SortedBy(clusters, LAMBDA c, d : c.first < d.first)
        Slice(c) == LinesFrom(Max({1, c.first - Padding}), Min({lines, c.last + Padding}))
    IN  FlattenSeq([k \in DOMAIN sorted |-> Slice(sorted[k])])

(* Skeletons *)

\* A body that begins behind the end of the file is one empty line.
Body(n, lines) == IF n.first > lines THEN <<n.first>> ELSE LinesFrom(n.first, Min({n.last, lines}))

BodyChars(n, lines) == Width * Max({0, Min({n.last, lines}) - n.first + 1})

\* Two callables that matter and do not fit, or a file dense with callables.
ShouldSkeletonize(nodes, path, unique, entry, lines) ==
    LET high == path \cup unique \cup entry
        callables == Where(nodes, LAMBDA n : n.kind = "callable")
        priority == Where(callables, LAMBDA n : n.id \in high)
    IN  /\ high = {} \/ SumOver(priority, LAMBDA n : BodyChars(n, lines)) > PerFile
        /\ IF \E i \in DOMAIN nodes : nodes[i].id \in path
           THEN \E i \in DOMAIN priority : priority[i].id \notin path
           ELSE Len(priority) >= 2 \/ Len(callables) >= Dense

\* _BODY_CAP_MULTIPLIER is 1.5.
BodyCap == (3 * PerFile) \div 2

Priority(n, path, unique, entry) ==
    CASE n.kind # "callable" -> 99
      [] n.kind = "callable" /\ n.id \in path -> 0
      [] n.kind = "callable" /\ n.id \in unique \ path -> 1
      [] n.kind = "callable" /\ n.id \in entry \ (unique \cup path) -> 2
      [] OTHER -> 99

\* Mutant: what does not fit is taken all the same when it is a seed.
BugTakes(taken, n, lines) == taken.chars < BodyCap

Takes(taken, n, lines) == taken.chars + BodyChars(n, lines) <= BodyCap \/ taken.ids = {}

\* The callables that keep their bodies: by priority, what still fits.
BodiesKept(nodes, path, unique, entry, lines) ==
    LET Prio(n) == Priority(n, path, unique, entry)
        Take(taken, n) ==
          IF Prio(n) < 99 /\ Takes(taken, n, lines)
          THEN [ids |-> taken.ids \cup {n.id}, chars |-> taken.chars + BodyChars(n, lines)] ELSE taken
        order == SortedBy(nodes, LAMBDA m, n : Prio(m) < Prio(n))
        kept[i \in 0 .. Len(order)] == IF i = 0 THEN [ids |-> {}, chars |-> 0] ELSE Take(kept[i - 1], order[i])
    IN  kept[Len(order)].ids

\* Line 0 says how many signatures are left out.
RenderSkeletonized(nodes, bodies, lines) ==
    LET callables == Where(nodes, LAMBDA n : n.kind = "callable")
        Show(acc, n) ==
          CASE acc.stop \/ n.first <= acc.covered -> acc
            [] ~acc.stop /\ n.first > acc.covered /\ n.id \in bodies ->
                 [acc EXCEPT !.text = @ \o Body(n, lines), !.covered = n.last]
            [] ~acc.stop /\ n.first > acc.covered /\ n.id \notin bodies /\ acc.signatures >= MaxSignatures ->
                 [acc EXCEPT !.stop = TRUE,
                             !.text = @ \o (IF \E i \in DOMAIN callables : callables[i].first > n.first
                                                                        /\ callables[i].id \notin bodies
                                            THEN <<0>> ELSE <<>>)]
            [] OTHER ->
                 IF n.first > lines THEN acc
                 ELSE [acc EXCEPT !.text = Append(@, n.first), !.signatures = @ + 1]
        order == SortedBy(callables, LAMBDA m, n : m.first < n.first)
        shown[i \in 0 .. Len(order)] ==
          IF i = 0 THEN [text |-> <<>>, covered |-> 0, signatures |-> 0, stop |-> FALSE]
          ELSE Show(shown[i - 1], order[i])
    IN  shown[Len(order)].text
==============================================================================
