---------------------------- MODULE VariantApply ----------------------------
(***************************************************************************)
(* How a plan of the knowledge service, made on a copy that may be older,  *)
(* is put into a file (variant_apply.go): bottom up, each change at its    *)
(* anchor, twice never, and none that breaks the syntax.                   *)
(***************************************************************************)
EXTENDS EditLadder

\* The block goes in behind line after, or in place of it and the replace - 1 lines
\* below it.  Line anchorLine of the copy read as the anchor; no tokens, no anchor.
VariantChange == [after : Nat, replace : Nat, block : File, anchor : Seq(Token), anchorLine : Nat]

\* Indentation does not count, nor do blank lines around.
FlattenBlock(ls) ==
    LET told == {i \in DOMAIN ls : ~Blank(ls[i])}
        first == CHOOSE i \in told : \A j \in told : i <= j
        last == CHOOSE i \in told : \A j \in told : j <= i
    IN IF told = {} THEN <<>> ELSE [k \in 1..last - first + 1 |-> ls[first + k - 1].tokens]

\* Anywhere in the file.
NoBlock(ls, block) == FlattenBlock(block) = <<>>
BlockPresent(ls, block) ==
    \/ FlattenBlock(block) = <<>>
    \/ \E i \in Starts(ls, Len(block)) : FlattenBlock(At(ls, i, Len(block))) = FlattenBlock(block)

\* Where the anchor is now: where it was, or else at the only line that reads so.
AnchorAt(ls, c) ==
    LET same == {i \in DOMAIN ls : ls[i].tokens = c.anchor} IN
    IF c.anchor = <<>> \/ c.anchorLine = 0 \/ c.anchorLine \in same THEN {c.anchorLine}
    ELSE IfOne(same)

\* How many lines stay in front of the block, and how many go.
PlaceOf(ls, c) ==
    LET shift == (CHOOSE i \in AnchorAt(ls, c) : TRUE) - c.anchorLine
        at    == c.after + shift - IF c.replace > 0 THEN 1 ELSE 0
    IN [at |-> at, drop |-> IF at + c.replace > Len(ls) THEN 0 ELSE c.replace]

Put1(ls, place, block) ==
    SubSeq(ls, 1, place.at) \o block \o SubSeq(ls, place.at + place.drop + 1, Len(ls))

\* What Go's parser takes: braces in pairs and no function inside a function.
Parses(ls) ==
    /\ Braces(ls) = 0 /\ \A i \in DOMAIN ls : Depth(ls, i) >= 0
    /\ \A i \in DOMAIN ls : LineDecl(ls[i]) # NoName => Depth(ls, i - 1) = 0

\* A language with no parser is judged by its braces alone.
FileParses(ls, lang) == lang = "go" => Parses(ls)

\* Judged against the content so far: braces stay in balance and what parsed parses.
BreaksSyntax(before, after, lang, parsedBefore) ==
    \/ Braces(after) # Braces(before)
    \/ parsedBefore /\ ~FileParses(after, lang)

Result(lines, inserted, refused) == [ok |-> TRUE, lines |-> lines, inserted |-> inserted, refused |-> refused]

\* A change whose anchor or place is not there fails the whole repository.
ApplyChange(s, c, lang, parsedBefore) ==
    LET place == PlaceOf(s.lines, c)
        next  == Put1(s.lines, place, c.block)
    IN IF \/ ~s.ok \/ AnchorAt(s.lines, c) = {} \/ place.at \notin 0..Len(s.lines)
       THEN [s EXCEPT !.ok = FALSE]
       ELSE IF BlockPresent(s.lines, c.block) THEN s
       ELSE IF BreaksSyntax(s.lines, next, lang, parsedBefore)
            THEN Result(s.lines, s.inserted, s.refused \cup {c})
       ELSE Result(next, s.inserted \cup {c}, s.refused)

\* The last change first; the order of changes at one line is not fixed.
Sorted(q) == \A i, j \in DOMAIN q : i < j => q[i].after >= q[j].after
ApplyVariantPlan(ls, changes, lang) ==
    {FoldLeft(LAMBDA s, c : ApplyChange(s, c, lang, FileParses(ls, lang)), Result(ls, {}, {}), q) :
        q \in {p \in SetToSeqs(changes) : Sorted(p)}}
=============================================================================
