------------------------------ MODULE Explore ------------------------------
(***************************************************************************)
(* ExploreEngine.explore (explore/engine.py) from the subgraph it is given *)
(* to the answer: files are scored and selected, each is read and shown    *)
(* whole, as a skeleton or in clusters while the budget lasts, and the     *)
(* answer is cut to its ceiling.                                           *)
(*                                                                         *)
(* A text counts by its length: a section is a heading and its lines, the  *)
(* newline and the mark it begins with count as one character.  The        *)
(* random walk with restart is real arithmetic: the score it gives a file  *)
(* is an input, in percent.                                                *)
(***************************************************************************)
EXTENDS Clusters, Flow

CONSTANTS
    Projects,       \* what the queries find
    TestFiles,      \* the files is_test_file knows
    Blank,          \* the files whose path contains a blank
    MaxOutput,      \* ExploreOutputBudget.max_output_chars
    MaxFiles,       \* ExploreOutputBudget.default_max_files
    WholeLines,     \* _WHOLE_FILE_MAX_LINES
    Unique,         \* _UNIQUE_NAME_THRESHOLD
    Reserve,        \* what clusters leave of the budget
    Ceiling,        \* the absolute limit of the answer, and for the source at least MinSource
    MinSource,
    Preface,          \* length of: everything before the source
    Notice,         \*   the note that begins the source
    Heading,        \*   the heading of a section
    SectionNote,    \*   the note that a section was trimmed
    FlowLine,       \*   a symbol of the call chain
    ListHeading,    \*   the heading of the list of what is not shown
    Item(_),        \*   what it says of a file: its path and up to five of its symbols,
    ItemEstimate,   \*   _REMAINING_PER_ENTRY, what the ceiling reckons with for that
    MoreItem,       \*   and the line that counts what it does not name
    ListMax,        \* how many files it names
    Signal,         \*   the completeness signal and the budget note
    Truncated,      \*   the note that the answer was cut
    MaxEdits        \* bound: how often the files change meanwhile

ASSUME ExploreAssumption ==
    /\ {MaxOutput, MaxFiles, WholeLines, Unique, Reserve, Ceiling, MinSource, Preface, Notice, Heading, SectionNote,
        FlowLine, ListHeading, ItemEstimate, MoreItem, ListMax, Signal, Truncated, MaxEdits} \subseteq Nat
    /\ Truncated < Ceiling
    /\ \A p \in Projects : \A f \in DOMAIN p.lines : Item(f) \in Nat
    /\ \A p \in Projects :
          /\ IsList(p.nodes) /\ \A i, j \in DOMAIN p.nodes : p.nodes[i].id = p.nodes[j].id => i = j
          /\ \A i \in DOMAIN p.nodes : p.nodes[i].first \in Nat \ {0} /\ p.nodes[i].last \in Nat
                                       /\ p.nodes[i].first <= p.nodes[i].last
          /\ IsList(p.edges) /\ \A i \in DOMAIN p.edges : p.edges[i].line \in Nat
          /\ p.lines \in [DOMAIN p.lines -> Nat]
          /\ IsFiniteSet(DOMAIN p.edges) /\ IsFiniteSet(DOMAIN p.lines) /\ IsFiniteSet(p.named)
          /\ NoSeed \notin p.named

VARIABLES
    project,    \* one of Projects
    disk,       \* the number of lines of each file, 0 if it cannot be read
    phase,      \* "flow", "files", "render" or "done"
    todo,       \* what is left of selected_files
    content,    \* lines of the file when it was first read
    sections,   \* the source sections
    remaining,  \* remaining_files
    total,      \* total_chars
    trimmed,    \* any_trimmed
    selected,   \* selected_files
    answer

exploreVars == <<project, disk, phase, todo, content, sections, remaining, total, trimmed, selected, answer>>
vars == <<exploreVars, flowVars>>

\* What it shows, what it only names, and how many files more it says there are.
NoAnswer == [how |-> "none", size |-> 0, shown |-> {}, named |-> {}, more |-> 0]

Nodes == project.nodes
Ids(Test(_)) == {Nodes[i].id : i \in {i \in DOMAIN Nodes : Test(Nodes[i])}}
NodesIn(f) == Where(Nodes, LAMBDA n : n.file = f)
EdgesFrom(f) == Where(project.edges, LAMBDA e : e.source \in Ids(LAMBDA n : n.file = f))

EntryIds == project.roots \cup project.named
IsNecessary(f) == \E i \in DOMAIN NodesIn(f) : NodesIn(f)[i].id \in EntryIds

\* Names that few definitions share.
ComputeUniqueNamed ==
    {id \in project.named : \E i \in DOMAIN Nodes :
        /\ Nodes[i].id = id
        /\ Cardinality(Sites(Nodes, LAMBDA n : n.name = Nodes[i].name)) <= Unique}

Init ==
    /\ project \in Projects
    /\ disk = project.lines
    /\ phase = "flow"
    /\ todo = <<>>
    /\ content = 0
    /\ sections = <<>>
    /\ remaining = <<>>
    /\ total = 0
    /\ trimmed = FALSE
    /\ selected = <<>>
    /\ answer = NoAnswer
    /\ calls = {<<project.edges[i].source, project.edges[i].target>> :
                   i \in Sites(project.edges, LAMBDA e : e.kind = "calls")}
    /\ named = project.named
    /\ FlowInit

(* Scoring and selecting files *)

ConnectedToEntry ==
    LET Ends(e) == (IF e.source \in EntryIds THEN {e.target} ELSE {})
                   \cup (IF e.target \in EntryIds THEN {e.source} ELSE {})
    IN  UNION {Ends(project.edges[i]) : i \in DOMAIN project.edges}

ScoreFile(f) ==
    LET Boost(n) ==
          CASE n.kind = "import" -> 0
            [] n.kind # "import" /\ n.id \in project.named -> 50
            [] n.kind # "import" /\ n.id \in project.roots \ project.named -> 10
            [] n.kind # "import" /\ n.id \in ConnectedToEntry \ EntryIds -> 3
            [] OTHER -> 1
    IN  SumOver(NodesIn(f), Boost)

Scored == {f \in DOMAIN project.lines : ScoreFile(f) > 0}

\* The walk counts ten times as much as the other signals.
Combined(f) == project.rwr[f] + 10 * ScoreFile(f)

\* Files under 6 % of the best are dropped, unless they hold an entry.
Relevant ==
    LET top == Max({project.rwr[f] : f \in Scored})
        gated == {f \in Scored : 100 * project.rwr[f] >= 6 * top \/ IsNecessary(f)}
    IN  IF top > 0 /\ Cardinality(gated) >= 2 THEN gated ELSE Scored

NamedFile(f) == \E i \in DOMAIN NodesIn(f) : NodesIn(f)[i].id \in project.named
Low(f) == f \in TestFiles /\ ~project.testQuery

\* Named files first, then others before tests, then by score.
RanksBefore(f, g) ==
    \/ NamedFile(f) /\ ~NamedFile(g)
    \/ (NamedFile(f) <=> NamedFile(g)) /\ ~Low(f) /\ Low(g)
    \/ (NamedFile(f) <=> NamedFile(g)) /\ (Low(f) <=> Low(g)) /\ Combined(f) > Combined(g)

Found == Nodes # <<>> /\ Scored # {} /\ MaxFiles > 0

\* Equal files come in any order: their scores are kept in a dict filled from a set.
SelectFiles ==
    /\ phase = "flow" /\ FlowEnded /\ Found
    /\ \E order \in SetToSeqs(Relevant) :
          /\ \A i, j \in DOMAIN order : RanksBefore(order[i], order[j]) => i < j
          /\ selected' = SubSeq(order, 1, Min({MaxFiles, Len(order)}))
    /\ todo' = selected'
    /\ total' = Preface + Notice
    /\ phase' = "files"
    /\ UNCHANGED <<project, disk, content, sections, remaining, trimmed, answer, flowVars>>

FindNothing ==
    /\ phase = "flow" /\ FlowEnded /\ ~Found
    /\ answer' = [NoAnswer EXCEPT !.how = "nothing"]
    /\ phase' = "done"
    /\ UNCHANGED <<project, disk, todo, content, sections, remaining, total, trimmed, selected, flowVars>>

(* Showing a file *)

Current == todo[1]

\* _add_remaining
LeaveOut(forSize) ==
    /\ remaining' = Append(remaining, Current)
    /\ trimmed' = (trimmed \/ forSize)
    /\ todo' = Tail(todo)
    /\ phase' = "files"
    /\ content' = 0
    /\ UNCHANGED <<project, disk, sections, total, selected, answer, flowVars>>

SectionSize(text) == Heading + Width * Len(text)

\* Mutant: necessary files are refused as well.
BugRefused(text) == 10 * (total + SectionSize(text)) > 9 * MaxOutput

Refused(text) == ~IsNecessary(Current) /\ 10 * (total + SectionSize(text)) > 9 * MaxOutput

SectionCap == (3 * PerFile) \div 2

Oversize(size) == IsNecessary(Current) /\ size > SectionCap

\* _cap_necessary_section: its note is never cut.
CapNecessarySection(size) == IF Oversize(size) THEN Max({SectionCap, SectionNote}) ELSE size

\* Mutant: the section is not counted.
BugAccount(size) == total

\* The newline that joins a section to what is before it is not counted.
Account(size) == total + size

AddSection(how, text, size, partly) ==
    /\ sections' = Append(sections, [file |-> Current, how |-> how, text |-> text, size |-> size])
    /\ total' = Account(size)
    /\ trimmed' = (trimmed \/ partly)
    /\ todo' = Tail(todo)
    /\ phase' = "files"
    /\ content' = 0
    /\ UNCHANGED <<project, disk, remaining, selected, answer, flowVars>>

\* A section for whole files and clusters: optional ones may be refused.
Show(how, text, partly) ==
    LET size == CapNecessarySection(SectionSize(text))
    IN  IF Refused(text) THEN LeaveOut(TRUE)
        ELSE AddSection(how, text, size, partly \/ Oversize(SectionSize(text)))

ReadFile ==
    /\ phase = "files" /\ todo # <<>>
    /\ IF disk[Current] = 0 THEN LeaveOut(FALSE)
       ELSE /\ content' = disk[Current]
            /\ phase' = "render"
            /\ UNCHANGED <<project, disk, todo, sections, remaining, total, trimmed, selected, answer, flowVars>>

FitsWhole == content <= WholeLines /\ content * Width <= 3 * PerFile

\* The file is read a second time.
ShowWhole ==
    /\ phase = "render" /\ FitsWhole
    /\ IF disk[Current] = 0 THEN LeaveOut(FALSE)
       ELSE Show("whole", LinesFrom(1, disk[Current]), FALSE)

Path == {Spine[i] : i \in DOMAIN Spine}

Skeleton ==
    RenderSkeletonized(NodesIn(Current),
        BodiesKept(NodesIn(Current), Path, ComputeUniqueNamed, EntryIds, content), content)

GodFile == ShouldSkeletonize(NodesIn(Current), Path, ComputeUniqueNamed, EntryIds, content)

\* A skeleton is not cut to the cap of a section, and does not count as trimmed.
ShowSkeleton ==
    /\ phase = "render" /\ ~FitsWhole /\ GodFile
    /\ IF Skeleton = <<>> \/ Refused(Skeleton) THEN LeaveOut(TRUE)
       ELSE AddSection("skeleton", Skeleton, SectionSize(Skeleton), FALSE)

ClustersHere == ClusterNodesInFile(NodesIn(Current), project.importance, content, EdgesFrom(Current))
Chosen ==
    SelectClustersWithinBudget(Ranked(ClustersHere),
                               Min({PerFile, Max({0, MaxOutput - total - Reserve})}))
Oversized == Len(Chosen) = 1 /\ Rows(Chosen[1]) * Estimate > 2 * PerFile

Fallback == Oversized /\ Skeleton # <<>> /\ ~Refused(Skeleton)

\* The only cluster is far too large: better a skeleton.
ShowOversized ==
    /\ phase = "render" /\ ~FitsWhole /\ ~GodFile /\ Fallback
    /\ AddSection("skeleton", Skeleton, SectionSize(Skeleton), FALSE)

\* The clusters are cut out of what the file is now.
ShowClusters ==
    /\ phase = "render" /\ ~FitsWhole /\ ~GodFile /\ ~Fallback
    /\ LET text == Excerpt(Chosen, disk[Current])
       IN  IF disk[Current] = 0 \/ (text = <<>> /\ Len(Chosen) = 1) THEN LeaveOut(FALSE)
           ELSE Show("clusters", text, Len(Chosen) < Len(ClustersHere))

(* The answer *)

\* format_remaining_files names the first files of the list and counts the rest.
Named(list) == {list[i] : i \in {i \in DOMAIN list : i <= ListMax}}
More(list) == Cardinality({i \in DOMAIN list : i > ListMax})
ListSize(list) ==
    IF list = <<>> THEN 0
    ELSE ListHeading + SumOver(Picked(list, {i \in DOMAIN list : i <= ListMax}), Item)
         + (IF More(list) = 0 THEN 0 ELSE MoreItem)

\* Mutant: nothing is kept for the list.
BugListReserve(n) == 0

ListReserve(n) == IF n = 0 THEN 0 ELSE ListHeading + ItemEstimate * n

\* Where the i-th section begins in the source, with the newline before it.
Start(i) == Notice + SumOver(SubSeq(sections, 1, i - 1), LAMBDA s : s.size + 1)
SourceSize == Start(Len(sections) + 1)
StructureSize == Preface + FlowLine * Len(Spine)
OutputSize == StructureSize + SourceSize + ListSize(remaining) + Signal
HardCeiling == Min({(3 * MaxOutput) \div 2, Ceiling})

FilesOf(is) == {sections[i].file : i \in is}
AllSections == DOMAIN sections

Answer(how, size, shown, list) ==
    [how |-> how, size |-> size, shown |-> FilesOf(shown), named |-> Named(list), more |-> More(list)]

Whole == Answer("whole", OutputSize, AllSections, remaining)

\* Mutant: what is cut off is not listed.
BugCutFiles(cut) == <<>>

\* The headings that are cut off are searched for a path without a blank.
CutFiles(cut) ==
    LET found == Picked(sections, {i \in cut : sections[i].file \notin Blank})
    IN  [k \in DOMAIN found |-> found[k].file]

\* source_ceiling
SourceRoom == HardCeiling - StructureSize - Truncated - ListReserve(Len(remaining))

\* The source is cut at the last section that begins late enough.
CutSource(room) ==
    LET begun == {i \in AllSections : Start(i) < room}
        last == IF begun = {} THEN 0 ELSE Start(Max(begun))
        boundary == IF 10 * last > 3 * room THEN last ELSE room
        cut == {i \in AllSections : Start(i) >= boundary}
        list == remaining \o CutFiles(cut)
    IN  Answer("source_cut", StructureSize + boundary + ListSize(list) + Truncated, AllSections \ cut, list)

\* Without room for the source everything is cut alike.
CutAnywhere ==
    LET room == HardCeiling - Truncated
        begun == {i \in AllSections : StructureSize + Start(i) < room}
        last == IF begun = {} THEN 0 ELSE StructureSize + Start(Max(begun))
        boundary == IF 2 * last > room THEN last ELSE room
    IN  Answer("cut", boundary + Truncated, {i \in AllSections : StructureSize + Start(i) < boundary}, <<>>)

Finish ==
    /\ phase = "files" /\ todo = <<>>
    /\ answer' = CASE OutputSize <= HardCeiling -> Whole
                    [] OutputSize > HardCeiling /\ SourceRoom > MinSource -> CutSource(SourceRoom)
                    [] OTHER -> CutAnywhere
    /\ phase' = "done"
    /\ UNCHANGED <<project, disk, todo, content, sections, remaining, total, trimmed, selected, flowVars>>

TraceFlow == phase = "flow" /\ FlowStep /\ UNCHANGED exploreVars

\* The files change while they are read.
Edited == {f \in DOMAIN disk : disk[f] # project.lines[f]}
EditFile ==
    /\ phase \in {"files", "render"} /\ todo # <<>>
    /\ Cardinality(Edited) < MaxEdits
    /\ \E n \in {0, project.lines[Current] \div 2} : disk' = [disk EXCEPT ![Current] = n]
    /\ UNCHANGED <<project, phase, todo, content, sections, remaining, total, trimmed, selected, answer, flowVars>>

Next ==
    \/ TraceFlow \/ SelectFiles \/ FindNothing
    \/ ReadFile \/ ShowWhole \/ ShowSkeleton \/ ShowOversized \/ ShowClusters
    \/ Finish \/ EditFile

Spec == Init /\ [][Next]_vars
==============================================================================
