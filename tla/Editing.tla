------------------------------ MODULE Editing ------------------------------
(***************************************************************************)
(* A file under the hands of one task.  Of the coder: a model's answers    *)
(* become a new content, gates look at it, and what passes is written over *)
(* what earlier attempts left (CoderAgent, stepExecution).  Or of a value  *)
(* addition, which puts the plan of the knowledge service in               *)
(* (applyVariantPlan).                                                     *)
(***************************************************************************)
EXTENDS VariantApply

CONSTANTS
    Heads,          \* contents the file may have in HEAD, <<>> if it is not there
    Wholes,         \* contents a model may write
    Blocks,         \* sequences of blocks it may answer with
    Snippets,
    Plans,          \* sets of changes the knowledge service may plan
    Method,         \* tokens that declare a method
    WholeFileLimit, \* lines of a file that is rewritten as a whole
    Attempts        \* 3

ASSUME EditAssumption ==
    /\ Heads \cup Wholes \cup Snippets \subseteq File
    /\ Blocks \subseteq Seq(Block)
    /\ \A plan \in Plans : IsFiniteSet(plan) /\ plan \subseteq VariantChange
    /\ {WholeFileLimit, Attempts} \subseteq Nat \ {0}

VARIABLES
    head, kind,     \* the file in HEAD, and its language
    hand,           \* whose hands
    disk,
    attempt, tries, \* attempts of the execution, tries left in this one
    last            \* how the content on disk came about

vars == <<head, kind, hand, disk, attempt, tries, last>>

\* An attempt tries a file twice.
Tries == 2

Change == [by : {"nobody", "create", "blocks", "whole", "placement", "plan"}, blocks : Seq(Block),
           plan : Plans \cup {{}}, inserted : SUBSET VariantChange, from : File, to : File]

By(who, from, to) ==
    [by |-> who, blocks |-> <<>>, plan |-> {}, inserted |-> {}, from |-> from, to |-> to]
Untouched(ls) == By("nobody", ls, ls)

TypeOK ==
    /\ head \in File /\ disk \in File /\ kind \in {"go", "other"}
    /\ hand \in {"coder", "plan"}
    /\ attempt \in 1..Attempts /\ tries \in 0..Tries
    /\ last \in Change

Init ==
    /\ head \in Heads /\ kind \in {"go", "other"}
    /\ hand \in {"coder", "plan"}
    /\ disk = head
    /\ attempt = 1 /\ tries = Tries
    /\ last = Untouched(head)
-----------------------------------------------------------------------------
(* Gates.                                                                  *)

DeclsOf(ls) == {LineDecl(ls[i]) : i \in DOMAIN ls} \ {NoName}
DeclLines(ls, n) == {i \in DOMAIN ls : LineDecl(ls[i]) = n}
IsFunction(l) == ~Blank(l) /\ l.tokens[1] \notin Method

\* Names the patterns find: functions, not methods.
ExportedNames(ls) == {LineDecl(ls[i]) : i \in {j \in DOMAIN ls : IsFunction(ls[j])}} \ {NoName}

NewExports(before, after) == ExportedNames(after) \ ExportedNames(before)
LostExports(before, after) == ExportedNames(before) \ ExportedNames(after)

\* A Go file must parse; a file of blank lines only is none.
CheckOtherSyntax(ls) == Trimmed(ls) # <<>> /\ (kind # "go" => Parses(ls))
CheckSyntax(ls) == Trimmed(ls) # <<>> /\ (kind = "go" => Parses(ls))

\* Declared twice outside all braces.
AtTop(ls, i) == Depth(ls, i - 1) <= 0
DuplicateDecls(ls) ==
    {n \in ExportedNames(ls) :
        Cardinality({i \in DeclLines(ls, n) : AtTop(ls, i) /\ IsFunction(ls[i])}) > 1}

\* What was there is what HEAD has, or the disk if HEAD does not have the file.
Baseline == IF head # <<>> THEN head ELSE disk

Passes(ls) == LostExports(Baseline, ls) = {} /\ CheckSyntax(ls) /\ DuplicateDecls(ls) = {}
-----------------------------------------------------------------------------
(* One call of the coder.                                                  *)

Write(by, blocks, ls) ==
    /\ disk' = ls
    /\ last' = [By(by, disk, ls) EXCEPT !.blocks = blocks]
    /\ tries' = 0

Refuse == tries' = tries - 1 /\ UNCHANGED <<disk, last>>

Save(by, blocks, ls) == IF Passes(ls) THEN Write(by, blocks, ls) ELSE Refuse

Big == Len(disk) > WholeFileLimit

Step == hand = "coder" /\ tries > 0 /\ UNCHANGED <<head, kind, hand, attempt>>

\* An answer without blocks, or with blocks that do not fit, fails.
EditByBlocks ==
    /\ Step /\ Big /\ disk # <<>>
    /\ \E blocks \in Blocks : \E r \in {ApplyEditBlocks(disk, blocks)} :
        IF r.ok THEN Save("blocks", blocks, r.out) ELSE Refuse

\* A whole file from a model that was shown the whole file, not much shorter.
LooksWhole(ls) == 5 * Len(ls) >= 4 * Len(disk)
WholeInstead ==
    /\ Step /\ Big /\ disk # <<>>
    /\ \E ls \in Wholes : LooksWhole(ls) /\ Save("whole", <<>>, ls)

\* A line number, then the code for it.
SpliceSnippet(ls, n, mode, snippet) ==
    LET body == Reindent(snippet, ls[n].indent)
        before == IF mode = "after" THEN n ELSE n - 1
        after  == IF mode = "before" THEN n ELSE n + 1
    IN SubSeq(ls, 1, before) \o body \o SubSeq(ls, after, Len(ls))
EditByPlacement ==
    /\ Step /\ Big /\ disk # <<>>
    /\ \E n \in DOMAIN disk, mode \in {"before", "after", "replace"}, snippet \in Snippets :
        Save("placement", <<>>, SpliceSnippet(disk, n, mode, snippet))

RewriteWholeFile ==
    /\ Step /\ ~Big /\ disk # <<>>
    /\ \E ls \in Wholes : Save("whole", <<>>, ls)

\* A new file has no names to lose; nobody looks for duplicates in it.
CreateFile ==
    /\ Step /\ disk = <<>>
    /\ \E ls \in Wholes : IF CheckSyntax(ls) THEN Write("create", <<>>, ls) ELSE Refuse

\* The plan is made anew; the file stays as it is.
NextAttempt ==
    /\ hand = "coder" /\ tries < Tries /\ attempt < Attempts
    /\ attempt' = attempt + 1 /\ tries' = Tries
    /\ last' = Untouched(disk)
    /\ UNCHANGED <<head, kind, hand, disk>>

\* A plan that fails in one place leaves the file as it was.
ApplyPlan ==
    /\ hand = "plan" /\ disk # <<>> /\ tries > 0
    /\ tries' = 0
    /\ \E plan \in Plans : \E r \in ApplyVariantPlan(disk, plan, kind) :
        IF ~r.ok THEN UNCHANGED <<disk, last>>
        ELSE /\ disk' = r.lines
             /\ last' = [By("plan", disk, r.lines) EXCEPT !.plan = plan, !.inserted = r.inserted]
    /\ UNCHANGED <<head, kind, hand, attempt>>

Next ==
    \/ EditByBlocks \/ WholeInstead \/ EditByPlacement \/ RewriteWholeFile \/ CreateFile
    \/ NextAttempt
    \/ ApplyPlan

Spec == Init /\ [][Next]_vars
-----------------------------------------------------------------------------
(* Properties.                                                             *)

\* However many attempts write over each other, no function HEAD exports is lost.
HeadNamesStay == hand = "coder" => ExportedNames(head) \subseteq ExportedNames(disk)

\* What lies on disk parses, if what HEAD has does; and a plan that goes in leaves as
\* many braces open as it found, also in a language without a parser.
SavedParses ==
    /\ kind = "go" /\ Parses(head) => Parses(disk)
    /\ hand = "plan" => Braces(disk) = Braces(head)

\* What the two properties of plans rest on: changes without an anchor come with a copy
\* that is not behind.
Located(plan, ls) ==
    \/ \A c \in plan : c.anchor # <<>>
    \/ \A c \in plan : c.anchorLine \in AnchorAt(ls, c)

\* Put into its own result once more, a plan inserts nothing.
PlanIsIdempotent ==
    last.by = "plan" /\ Located(last.plan, last.from) =>
        \A r \in ApplyVariantPlan(disk, last.plan, kind) : r.ok => r.lines = disk

\* The file a plan leaves is the file it found with every inserted block at the place
\* its anchor has in that file: nothing but the lines a block replaces is lost, and no
\* block has moved because of another one.
PlacedByTheFileFound ==
    last.by = "plan" /\ Located(last.plan, last.from) =>
        LET from == last.from
            place(c) == PlaceOf(from, c)
            gone(i) == \E c \in last.inserted : place(c).at < i /\ i <= place(c).at + place(c).drop
            kept(i) == IF i = 0 \/ gone(i) THEN <<>> ELSE <<from[i]>>
            behind(i, q) == FlattenSeq([j \in DOMAIN q |-> IF place(q[j]).at = i THEN q[j].block ELSE <<>>])
            written(q) == FlattenSeq([k \in 1..Len(from) + 1 |-> kept(k - 1) \o behind(k - 1, q)])
        IN /\ \A c \in last.inserted : \E i \in AnchorAt(from, c) : c.anchor \in {<<>>, from[i].tokens}
           /\ \E q \in SetToSeqs(last.inserted) : last.to = written(q)

\* A plan that could be located is in the file it leaves at the places its anchors have,
\* and finds itself there when it is put in again.
PlanIsInItsPlace == PlacedByTheFileFound /\ PlanIsIdempotent

\* Documented, not kept.  internal/orchestrator/variant_apply.go:90-94: only a place
\* that breaks the file is left out.  The same block for two places is put in once: at
\* the second it is taken for present.
EveryPlaceGetsIt ==
    last.by = "plan" =>
        \A c \in last.plan : c \in last.inserted
            \/ BlockPresent(last.from, c.block)
            \/ \E r \in ApplyVariantPlan(last.from, {c}, kind) : r.inserted = {}

\* Places of n lines, none of which overlaps another.
Apart(S) == \A p, q \in S : p = q \/ p[1] + p[2] <= q[1] \/ q[1] + q[2] <= p[1]
Inside(S, i) == \E p \in S : p[1] <= i /\ i < p[1] + p[2]
Moved(S, i, len) ==
    i + FoldSet(LAMBDA p, d : d + len - p[2], 0, {p \in S : p[1] < i})

\* to is from with the pieces at S replaced and everything else as it was.
ReplacedAt(S, from, to, repl) ==
    /\ Len(to) = Moved(S, Len(from) + 1, Len(repl)) - 1
    /\ \A i \in DOMAIN from : ~Inside(S, i) => to[Moved(S, i, Len(repl))] = from[i]
    /\ \A p \in S : \A j \in DOMAIN repl :
        FoldText(to[Moved(S, p[1], Len(repl)) + j - 1].tokens) = FoldText(repl[j].tokens)

SameText(from, p, search) == FoldText(Text(At(from, p[1], p[2]))) = FoldText(Text(search))
AlikeEnds(from, p, search) ==
    LET want == Trimmed(search) IN
    /\ p[2] = Len(want) /\ p[2] >= 2
    /\ SimRatio(FoldText(want[1].tokens), FoldText(from[p[1]].tokens)) >= 80
    /\ SimRatio(FoldText(want[Len(want)].tokens), FoldText(from[p[1] + p[2] - 1].tokens)) >= 80

AllPlaces(ls) == {p \in (DOMAIN ls) \X (1..Len(ls)) : p[1] + p[2] - 1 <= Len(ls)}

\* A search that can follow itself by half, like two equal lines, is replaced once too
\* often in three of them.
OverlapsItself(search) ==
    LET want == Trimmed(search) IN
    \E k \in 1..Len(want) - 1 :
        FoldText(Text(SubSeq(want, 1, k))) = FoldText(Text(SubSeq(want, Len(want) - k + 1, Len(want))))

\* A single block changes the pieces that say what its search says, several only if
\* the search is long enough to know them by; or one piece that resembles it; or it
\* adds a declaration that was not there.  No other line of the file changes.
PlacesAreSure ==
    last.by = "blocks" /\ Len(last.blocks) = 1 /\ ~OverlapsItself(last.blocks[1].search) =>
        LET b == last.blocks[1]
            same == {p \in AllPlaces(last.from) : SameText(last.from, p, b.search)}
        IN \/ \E S \in SUBSET same \ {{}} :
                /\ Apart(S) /\ ReplacedAt(S, last.from, last.to, b.replace)
                /\ Cardinality(S) > 1 => IsSubstantial(b.search)
           \/ \E p \in AllPlaces(last.from) :
                /\ AlikeEnds(last.from, p, b.search)
                /\ ReplacedAt({p}, last.from, last.to, b.replace)
           \/ /\ DeclaredName(b.replace) \notin DeclsOf(last.from) \cup {NoName}
              /\ \E i \in 0..Len(last.from) :
                    /\ SubSeq(last.to, 1, i) = SubSeq(last.from, 1, i)
                    /\ SubSeq(last.to, i + 2 + Len(b.replace), Len(last.to))
                         = SubSeq(last.from, i + 1, Len(last.from))
                    /\ Parses(last.from) => Depth(last.from, i) = 0

\* If the search says word for word what several pieces say, all are changed: none
\* is left behind.
NoCopyLeft ==
    last.by = "blocks" /\ Len(last.blocks) = 1 =>
        LET b == last.blocks[1]
            copies(ls) == {i \in Starts(ls, Len(b.search)) : At(ls, i, Len(b.search)) = b.search}
        IN /\ copies(last.from) # {} /\ ~b.escaped
           /\ ToSet(Text(b.replace)) \cap ToSet(Text(b.search)) = {}
           => copies(last.to) = {}

\* A block changes the places its search names: no other one, and none of them not.
BlockHitsItsPlaces == TypeOK /\ PlacesAreSure /\ NoCopyLeft

\* Documented, not kept.  internal/agent/edit_blocks.go:87-92: a block sent twice is
\* passed over the second time.  What it put in can still be like what it searches for,
\* and a looser rung takes it.
SecondIsPassedOver ==
    last.by = "blocks" /\ Len(last.blocks) = 1 =>
        LET b == last.blocks[1]
            twice == ApplyEditBlocks(last.from, <<b, b>>)
        IN FindFolded(b.replace, b.search) = {} /\ IsSubstantial(b.replace) /\ ~b.escaped
            => twice.ok /\ twice.out = last.to
=============================================================================
