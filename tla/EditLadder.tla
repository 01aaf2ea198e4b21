---------------------------- MODULE EditLadder ----------------------------
(***************************************************************************)
(* Where a search-and-replace block of the coder goes (edit_blocks.go and  *)
(* the rungs below it): word for word, by lines without their indentation, *)
(* with punctuation folded, with escapes spelt out, by resemblance, with   *)
(* line breaks ignored, and at last beside a sibling.                      *)
(*                                                                         *)
(* A line is its indentation and its tokens, none on a blank line.         *)
(***************************************************************************)
EXTENDS Integers, Sequences, FiniteSets, SequencesExt

CONSTANTS
    Token,
    Fold,           \* a token with its punctuation in one form
    Sim,            \* how alike two tokens are, in percent
    Chars,          \* length of a token
    Delta,          \* braces it opens less braces it closes
    Opens,          \* tokens with an opening brace
    Decl, NoName,   \* the name a token declares
    Words,          \* identifiers in it
    Enough,         \* 20 characters say where a piece of code is
    AnchorWindow    \* lines compared with a new declaration

ASSUME LadderAssumption ==
    /\ Fold \in [Token -> Token] /\ \A t \in Token : Fold[Fold[t]] = Fold[t]
    /\ Sim \in [Token \X Token -> 0..100]
    /\ Chars \in [Token -> Nat \ {0}] /\ Delta \in [Token -> -1..1] /\ Opens \subseteq Token
    /\ DOMAIN Decl = Token /\ DOMAIN Words = Token
    /\ Enough \in Nat /\ AnchorWindow \in Nat \ {0}

Line == [indent : Nat, tokens : Seq(Token)]
File == Seq(Line)

\* The search and what replaces it; an escaped one came as one line with \n in it.
Block == [search : File, replace : File, escaped : BOOLEAN]

Blank(l) == l.tokens = <<>>
Trimmed(ls) == SelectSeq(ls, LAMBDA l : ~Blank(l))
Text(ls) == FlattenSeq([i \in DOMAIN ls |-> ls[i].tokens])
FoldText(ts) == [i \in DOMAIN ts |-> Fold[ts[i]]]
IsSubstantial(ls) == FoldSeq(LAMBDA t, n : n + Chars[t], 0, Text(ls)) >= Enough
At(ls, i, n) == SubSeq(ls, i, i + n - 1)
Starts(ls, n) == 1..Len(ls) - n + 1

\* A place is where a piece begins and how many lines it has.
Place == Nat \X Nat
Places(at, n) == {<<i, n>> : i \in at}
-----------------------------------------------------------------------------
(* Word for word.                                                          *)

\* The first line may be indented further than the search says.
AlignedAt(src, want, i) ==
    LET got == At(src, i, Len(want)) IN
    /\ Tail(got) = Tail(want)
    /\ got[1].tokens = want[1].tokens /\ got[1].indent >= want[1].indent
Aligned(src, want) == {i \in Starts(src, Len(want)) : AlignedAt(src, want, i)}

\* Of overlapping pieces the first is replaced; what is left of the first line's
\* indentation stays in front.
ReplaceAligned(src, want, repl, all) ==
    LET put(i) == [repl EXCEPT ![1].indent = @ + src[i].indent - want[1].indent]
        step(s, i) ==
            IF i < s.next THEN s
            ELSE IF i \in Aligned(src, want) /\ (all \/ s.n = 0)
                 THEN [out |-> s.out \o put(i), next |-> i + Len(want), n |-> s.n + 1]
                 ELSE [s EXCEPT !.out = Append(@, src[i])]
    IN FoldLeft(step, [out |-> <<>>, next |-> 1, n |-> 0], [i \in DOMAIN src |-> i]).out
-----------------------------------------------------------------------------
(* Line by line.                                                           *)

FindTrimmed(src, want) ==
    {i \in Starts(src, Len(want)) : \A j \in DOMAIN want : src[i + j - 1].tokens = want[j].tokens}
FindFolded(src, want) ==
    {i \in Starts(src, Len(want)) :
        \A j \in DOMAIN want : FoldText(src[i + j - 1].tokens) = FoldText(want[j].tokens)}

SimRatio(a, b) ==
    IF a = <<>> \/ Len(a) # Len(b) THEN IF a = b THEN 100 ELSE 0
    ELSE LET lowest(n, i) == IF Sim[a[i], b[i]] < n THEN Sim[a[i], b[i]] ELSE n
         IN FoldLeft(lowest, 100, [i \in DOMAIN a |-> i])

\* First and last line as they are, the middle more alike the more candidates.
BlockAnchorAt(src, want) ==
    LET n == Len(want)
        cand == {i \in Starts(src, n) :
                    /\ FoldText(src[i].tokens) = FoldText(want[1].tokens)
                    /\ FoldText(src[i + n - 1].tokens) = FoldText(want[n].tokens)}
        threshold == IF Cardinality(cand) = 1 THEN 50 ELSE 70
        middle(ls, i) == FoldText(Text(At(ls, i + 1, n - 2)))
    IN IF n < 2 THEN {}
       ELSE {i \in cand : n = 2 \/ SimRatio(middle(src, i), middle(want, 1)) >= threshold}

ContextAwareAt(src, want) ==
    IF Len(want) < 2 THEN {}
    ELSE {i \in Starts(src, Len(want)) :
            \A j \in DOMAIN want : SimRatio(want[j].tokens, src[i + j - 1].tokens) >= 80}

\* A search that is all one line with \n in it matches no line of the source.
WantLines(blk) == IF blk.escaped THEN <<>> ELSE Trimmed(blk.search)

IfOne(at) == IF Cardinality(at) = 1 THEN at ELSE {}

\* The first rung that finds something.
Found(how, at, n) == [how |-> how, places |-> Places(at, n)]
Loosely(src, blk) ==
    LET want == WantLines(blk)
        un   == Trimmed(blk.search)
        seen == ~blk.escaped
        rungs == <<
            Found("trimmed", IF seen THEN FindTrimmed(src, want) ELSE {}, Len(want)),
            Found("folded", IF seen THEN FindFolded(src, want) ELSE {}, Len(want)),
            Found("folded", IF blk.escaped THEN FindFolded(src, un) ELSE {}, Len(un)),
            Found("approx", IF seen THEN IfOne(BlockAnchorAt(src, want)) ELSE {}, Len(want)),
            Found("approx", IF seen THEN IfOne(ContextAwareAt(src, want)) ELSE {}, Len(want))>>
        hits == SelectSeq(rungs, LAMBDA r : r.places # {})
    IN IF hits = <<>> THEN Found("none", {}, 0) ELSE Head(hits)

\* Line breaks ignored: the shortest run of lines from i whose text is the search.
FlatSpan(src, want, i) ==
    {n \in 1..Len(src) - i + 1 : Text(At(src, i, n)) = want /\ Text(At(src, i, n - 1)) # want}

\* A later piece begins behind the one before.
Flattened(src, blk) ==
    LET want == Text(blk.search)
        step(s, i) == IF i < s.next \/ FlatSpan(src, want, i) = {} THEN s
                      ELSE LET n == CHOOSE m \in FlatSpan(src, want, i) : TRUE
                           IN [places |-> s.places \cup {<<i, n>>}, next |-> i + n]
    IN IF blk.escaped THEN {}
       ELSE FoldLeft(step, [places |-> {}, next |-> 1], [i \in DOMAIN src |-> i]).places
-----------------------------------------------------------------------------
(* Putting the replacement in.                                             *)

BaseIndent(ls) ==
    LET t == Trimmed(ls) IN
    IF t = <<>> THEN 0 ELSE CHOOSE b \in {t[i].indent : i \in DOMAIN t} :
                                \A i \in DOMAIN t : b <= t[i].indent

Reindent(ls, indent) ==
    [i \in DOMAIN ls |->
        [ls[i] EXCEPT !.indent = IF Blank(ls[i]) THEN 0 ELSE indent + @ - BaseIndent(ls)]]

\* A line of the replacement that differs from one of the source only in its
\* punctuation gets the source's.
RestorePunct(span, repl) ==
    LET same(l) == {i \in DOMAIN span : ~Blank(span[i]) /\ FoldText(span[i].tokens) = FoldText(l.tokens)}
        last(s) == CHOOSE i \in s : \A j \in s : j <= i
    IN [i \in DOMAIN repl |->
            IF same(repl[i]) = {} THEN repl[i]
            ELSE [repl[i] EXCEPT !.tokens = span[last(same(repl[i]))].tokens]]

\* From the last place to the first, so that the others keep their numbers.
Splice(src, place, repl) ==
    SubSeq(src, 1, place[1] - 1) \o Reindent(repl, src[place[1]].indent)
        \o SubSeq(src, place[1] + place[2], Len(src))
SpliceFromFront(src, places, repl) ==
    FoldLeft(LAMBDA out, p : Splice(out, p, repl), src,
             SetToSortSeq(places, LAMBDA p, q : p[1] < q[1]))
SpliceAll(src, places, repl) ==
    FoldLeft(LAMBDA out, p : Splice(out, p, repl), src,
             SetToSortSeq(places, LAMBDA p, q : p[1] > q[1]))
-----------------------------------------------------------------------------
(* A new declaration beside a sibling.                                     *)

Braces(ls) == FoldSeq(LAMBDA t, n : n + Delta[t], 0, Text(ls))
Depth(ls, i) == Braces(SubSeq(ls, 1, i))
LineDecl(l) == IF Blank(l) THEN NoName ELSE Decl[l.tokens[1]]

\* What a whole declaration declares.
DeclaredName(ls) ==
    LET t == Trimmed(ls) IN IF t = <<>> \/ Braces(ls) # 0 THEN NoName ELSE LineDecl(t[1])

Idents(ls) == UNION {Words[Text(ls)[i]] : i \in DOMAIN Text(ls)}

\* The window with most words in common, the shortest, then the first, of them.
Windows(src) == {w \in (DOMAIN src) \X (1..AnchorWindow) : w[1] + w[2] - 1 <= Len(src)}
Overlap(src, w, ids) == Cardinality(Idents(At(src, w[1], w[2])) \cap ids)
BestSibling(src, ids) ==
    CHOOSE w \in Windows(src) :
        \A v \in Windows(src) :
            \/ Overlap(src, w, ids) > Overlap(src, v, ids)
            \/ /\ Overlap(src, w, ids) = Overlap(src, v, ids)
               /\ w[2] < v[2] \/ (w[2] = v[2] /\ w[1] <= v[1])

\* The line that closes the block the sibling is in, or else the sibling itself.
DeclEnd(src, w) ==
    LET inside == Depth(src, w[1] - 1) > 0
        opened(i) == \E t \in ToSet(Text(SubSeq(src, w[1], i))) : t \in Opens
        closed(i) ==
            IF inside THEN Depth(src, i) <= 0
            ELSE \/ opened(i) /\ Depth(src, i) <= Depth(src, w[1] - 1)
                 \/ ~opened(i) /\ i >= w[1] + w[2] - 1
        ends == {i \in w[1]..Len(src) : closed(i)}
    IN IF ends # {} THEN CHOOSE i \in ends : \A j \in ends : i <= j
       ELSE IF inside THEN Len(src) ELSE w[1] + w[2] - 1

BesideSibling(src, blk) ==
    LET ids == Idents(blk.search) \cup Idents(blk.replace)
        w   == BestSibling(src, ids)
        end == DeclEnd(src, w)
        offset == src[w[1]].indent
        body == [i \in DOMAIN blk.replace |-> [blk.replace[i] EXCEPT !.indent =
                    IF offset = 0 THEN @
                    ELSE offset + (IF @ > blk.replace[1].indent THEN @ - blk.replace[1].indent ELSE 0)]]
    IN IF \/ DeclaredName(blk.replace) = NoName
          \/ \E i \in DOMAIN src : LineDecl(src[i]) = DeclaredName(blk.replace)
          \/ src = <<>> \/ Overlap(src, w, ids) < 2
       THEN <<>>
       ELSE SubSeq(src, 1, end) \o <<[indent |-> 0, tokens |-> <<>>]>> \o body
                \o SubSeq(src, end + 1, Len(src))
-----------------------------------------------------------------------------
(* All blocks of an answer.                                                *)

Put(how, out) == [how |-> how, out |-> out]
Ambiguous(places, blk) == Cardinality(places) > 1 /\ ~IsSubstantial(blk.search)

ReplaceFlattened(src, blk) ==
    LET places == Flattened(src, blk) IN
    IF places = {}
    THEN IF BesideSibling(src, blk) # <<>> THEN Put("appended", BesideSibling(src, blk))
         ELSE Put("not found", src)
    ELSE IF Ambiguous(places, blk) THEN Put("ambiguous", src)
    ELSE Put("flattened", SpliceAll(src, places, blk.replace))

\* With what the rungs have found.
PutLoosely(src, blk, f) ==
    LET first == CHOOSE p \in f.places : \A q \in f.places : p[1] <= q[1]
        repl == IF f.how = "trimmed" THEN blk.replace
                ELSE RestorePunct(At(src, first[1], first[2]), blk.replace)
    IN IF f.places = {} THEN ReplaceFlattened(src, blk)
       ELSE IF Ambiguous(f.places, blk) THEN Put("ambiguous", src)
       ELSE Put(f.how, SpliceAll(src, f.places, repl))
ReplaceLoosely(src, blk) == PutLoosely(src, blk, Loosely(src, blk))

ApplyBlock(src, blk) ==
    LET n == IF blk.escaped THEN 0 ELSE Cardinality(Aligned(src, blk.search)) IN
    IF n = 0 THEN ReplaceLoosely(src, blk)
    ELSE IF n > 1 /\ ~IsSubstantial(blk.search) THEN Put("ambiguous", src)
    ELSE Put("exact", ReplaceAligned(src, blk.search, blk.replace, n > 1))

\* A block that is not found is passed over if an earlier one was applied and its
\* replacement is there already.
AlreadyThere(src, repl) == IsSubstantial(repl) /\ FindFolded(src, Trimmed(repl)) # {}

AfterPut(s, blk, put) ==
    IF ~s.ok THEN s
    ELSE IF put.how = "ambiguous" THEN [s EXCEPT !.ok = FALSE]
    ELSE IF put.how = "not found"
         THEN [s EXCEPT !.ok = s.applied > 0 /\ AlreadyThere(s.out, blk.replace)]
         ELSE [ok |-> TRUE, out |-> put.out, applied |-> s.applied + 1]

ApplyNext(s, blk) == AfterPut(s, blk, ApplyBlock(s.out, blk))

ApplyEditBlocks(original, blocks) ==
    LET s == FoldLeft(ApplyNext, [ok |-> blocks # <<>>, out |-> original, applied |-> 0], blocks)
    IN [s EXCEPT !.ok = @ /\ s.out # original]
=============================================================================
