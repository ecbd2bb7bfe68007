---------------------------- MODULE ExploreProps ----------------------------
(***************************************************************************)
(* What an answer of explore() is worth: a call chain that exists, no file *)
(* lost, no file that was asked for left out while there is room for it,   *)
(* within its budgets but for what the code does not count.                *)
(***************************************************************************)
EXTENDS Explore

\* The call chain is a path of calls between named symbols, without a detour
\* through two symbols in a row that are not named (MaxBridge of them), and
\* no symbol occurs twice (find_flow_chain).
FlowSound ==
    best # <<>> =>
       /\ Len(best) <= MaxDepth
       /\ best[1] \in named /\ best[Len(best)] \in named
       /\ \A i \in 1 .. Len(best) - 1 : <<best[i], best[i + 1]>> \in calls
       /\ \A i, j \in DOMAIN best : best[i] = best[j] => i = j
       /\ \A i \in 1 .. Len(best) - MaxBridge : \E j \in i .. i + MaxBridge : best[j] \in named

\* No search is given up because of the symbols it has found.
FewSymbols ==
    \A p \in Projects :
       Cardinality(p.named \cup {p.edges[i].target : i \in DOMAIN p.edges}) <= ParentLimit

\* When a named symbol calls a second and that a third, which the first does
\* not call itself, a spine is found, in whatever order symbols and calls come.
FlowFound ==
    phase # "flow" /\ MaxDepth >= 3 =>
       \A a, b, c \in named :
          a # c /\ <<a, b>> \in calls /\ <<b, c>> \in calls /\ <<a, c>> \notin calls => Spine # <<>>

\* No selected file is lost: as long as there is room for the source at all,
\* the answer shows each of them, names it, or counts it among those it says
\* there are more, also after the files changed and the answer was cut; only a
\* file that was cut off and has a blank in its path is none of these (explore,
\* _add_remaining, format_remaining_files).
FilesAccounted ==
    LET missing == {selected[i] : i \in DOMAIN selected} \ (answer.shown \cup answer.named)
        unmatched == (Blank \cap FilesOf(AllSections)) \ answer.shown
    IN  answer.how \in {"whole", "source_cut"} =>
           /\ answer.shown \cap answer.named = {}
           /\ Cardinality(missing \ unmatched) = answer.more

\* What the graph says of the file is about lines that the file has.
InFile(f) ==
    /\ \A j \in DOMAIN NodesIn(f) : NodesIn(f)[j].last <= disk[f]
    /\ \A j \in DOMAIN EdgesFrom(f) : EdgesFrom(f)[j].line <= disk[f]

\* How much of the source an answer that is cut has room for.
Room == IF SourceRoom > MinSource THEN SourceRoom ELSE HardCeiling - Truncated - StructureSize

\* A selected file with a named symbol or an entry point is in the answer, how-
\* ever little of the budget is left for it, unless it changed since it was
\* indexed, or the answer is beyond its ceiling and no section behind the file's
\* begins within the room that is left: the last section that does is cut too.
NecessaryShown ==
    phase = "done" =>
       \A i \in DOMAIN selected :
          LET f == selected[i]
          IN  IsNecessary(f) /\ f \notin Edited /\ InFile(f) =>
                 \E k \in AllSections :
                    /\ sections[k].file = f
                    /\ \/ f \in answer.shown
                       \/ OutputSize > HardCeiling /\ \A j \in AllSections : j > k => Start(j) >= Room

\* Where files that are not necessary end in the text, before it is cut: within
\* nine tenths of the budget and what total_chars does not know of, the call
\* chain, which is put in front of the source when all is done, and the newline
\* before each section.
OptionalWithinBudget ==
    \A i \in AllSections :
       ~IsNecessary(sections[i].file) =>
          10 * (StructureSize + Start(i + 1)) <= 9 * MaxOutput + 10 * (FlowLine * Len(Spine) + i)

\* The note that an answer was cut is shorter than any answer may be: so it is
\* in the budgets of from_file_count.
RoomForNote == Truncated <= HardCeiling

\* The answer exceeds its ceiling only when its source was cut, and by no more
\* than the list of what is not shown is longer than was reckoned before the
\* files that were cut off joined it: _REMAINING_PER_ENTRY for each entry.
OutputBounded ==
    LET list == remaining \o CutFiles({i \in AllSections : sections[i].file \notin answer.shown})
        reckoned == IF remaining = <<>> THEN 0 ELSE ListHeading + ItemEstimate * Len(remaining)
    IN  \/ answer.size <= HardCeiling
        \/ answer.how = "source_cut" /\ answer.size <= HardCeiling + ListSize(list) - reckoned

\* The fewest lines with which a file was read.
ReadLines(f) == project.lines[f] \div (IF f \in Edited THEN 2 ELSE 1)

\* In the clusters of a file a line is only shown again in a stretch that begins
\* with an envelope, a container of more than half of the file: a cluster in it
\* is extended to its first line.  Without envelopes no line is shown twice.
LinesOnce ==
    \A i \in AllSections :
       LET s == sections[i]
           nodes == NodesIn(s.file)
           Begins(p) == \E j \in DOMAIN nodes : /\ IsEnvelope(nodes[j], ReadLines(s.file))
                                               /\ s.text[p] = Max({1, nodes[j].first - Padding})
       IN  s.how = "clusters" =>
              \A k, l \in DOMAIN s.text :
                 k < l /\ s.text[k] = s.text[l] =>
                    \E p \in k + 1 .. l : Begins(p) /\ \A q \in p .. l : s.text[q] = s.text[p] + (q - p)

\* The callables that begin behind the end of a file.
Behind(nodes, lines) ==
    {nodes[i].id : i \in Sites(nodes, LAMBDA n : n.kind = "callable" /\ n.first > lines)}

\* How long a callable is that may keep its body: one of the call chain, one
\* with a rare name that was asked for, or an entry point.
Longest(nodes) ==
    LET matter == Sites(nodes, LAMBDA n : Priority(n, Path, ComputeUniqueNamed, EntryIds) < 99)
    IN  Max({0} \cup {Rows(nodes[j]) : j \in matter})

\* A skeleton has one body of any size, or bodies of one and a half times the
\* budget of a file, a bounded number of signatures, and one empty line for
\* each body that is behind the end of the file, which costs nothing.
SkeletonBounded ==
    \A i \in AllSections :
       LET s == sections[i]
           nodes == NodesIn(s.file)
           lines == MaxSignatures + 1 + Cardinality(Behind(nodes, ReadLines(s.file)))
       IN  s.how = "skeleton" => Width * Len(s.text) <= Max({BodyCap, Width * Longest(nodes)}) + Width * lines
=============================================================================
