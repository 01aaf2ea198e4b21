--------------------------- MODULE Editing_proofs ---------------------------
(***************************************************************************)
(* Theorems about a file under the hands of a task, for any contents, any  *)
(* answers of models, any plans and any number of attempts.                *)
(***************************************************************************)
EXTENDS Editing, FiniteSetTheorems, WellFoundedInduction, TLAPS

-----------------------------------------------------------------------------
(* Numbers, finite sets, and folds over them.                              *)

\* The least number of a set.
LEMMA LeastNumber ==
    ASSUME NEW S \in SUBSET Nat, S # {}
    PROVE  \E m \in S : \A n \in S : m <= n
<1> DEFINE Less == {p \in Nat \X Nat : p[1] < p[2]}
<1>1. IsWellFoundedOn(Less, Nat)
  BY NatLessThanWellFounded DEF OpToRel
<1>2. \A m, n \in Nat : <<n, m>> \notin Less => m <= n
  OBVIOUS
<1> HIDE DEF Less
<1>3. PICK m \in S : \A n \in S : <<n, m>> \notin Less
  BY <1>1, WFMin
<1> QED
  BY <1>2, <1>3

\* What holds of 0 and of each number after one it holds of, holds of all up to n.
LEMMA NumbersUpTo ==
    ASSUME NEW n \in Nat, NEW H, 0 \in H, \A k \in 1..n : k - 1 \in H => k \in H
    PROVE  0..n \subseteq H
<1> DEFINE Off == {k \in 0..n : k \notin H}
<1> SUFFICES ASSUME Off # {} PROVE FALSE
  OBVIOUS
<1>1. Off \in SUBSET Nat
  OBVIOUS
<1>2. PICK m \in Off : \A k \in Off : m <= k
  BY <1>1, LeastNumber
<1>3. m \in 1..n /\ m - 1 \in 0..n /\ ~ m <= m - 1
  BY <1>2
<1>4. m - 1 \in H
  BY <1>2, <1>3
<1> QED
  BY <1>2, <1>3, <1>4

\* What holds of the empty set and of each set where it holds without one of its elements,
\* holds of every part of a finite set.
LEMMA PartsOf ==
    ASSUME NEW D, IsFiniteSet(D), NEW H, {} \in H,
           \A s \in SUBSET D : s # {} /\ (\A x \in s : s \ {x} \in H) => s \in H
    PROVE  SUBSET D \subseteq H
<1> DEFINE Size == {k \in Nat : \A s \in SUBSET D : Cardinality(s) = k => s \in H}
<1>1. ASSUME NEW s \in SUBSET D
      PROVE  /\ Cardinality(s) \in Nat /\ Cardinality(s) <= Cardinality(D)
             /\ Cardinality(s) = 0 <=> s = {}
             /\ \A x \in s : Cardinality(s \ {x}) = Cardinality(s) - 1
  <2>1. IsFiniteSet(s) /\ Cardinality(s) <= Cardinality(D)
    BY FS_Subset
  <2> QED
    BY <2>1, FS_CardinalityType, FS_EmptySet, FS_RemoveElement
<1>2. 0 \in Size
  BY <1>1
<1>3. ASSUME NEW k \in 1..Cardinality(D), k - 1 \in Size PROVE k \in Size
  <2> SUFFICES ASSUME NEW s \in SUBSET D, Cardinality(s) = k PROVE s \in H
    BY <1>1
  <2>1. s # {}
    BY <1>1
  <2>2. \A x \in s : s \ {x} \in SUBSET D /\ Cardinality(s \ {x}) = k - 1
    BY <1>1
  <2>3. \A x \in s : s \ {x} \in H
    BY <1>3, <2>2
  <2> QED
    BY <2>1, <2>3
<1>4. Cardinality(D) \in Nat
  BY FS_CardinalityType
<1> HIDE DEF Size
<1>5. 0..Cardinality(D) \subseteq Size
  BY <1>2, <1>3, <1>4, NumbersUpTo
<1> SUFFICES ASSUME NEW s \in SUBSET D PROVE s \in H
  OBVIOUS
<1>6. Cardinality(s) \in 0..Cardinality(D)
  BY <1>1, <1>4
<1>7. Cardinality(s) \in Size
  BY <1>5, <1>6
<1> QED
  BY <1>7 DEF Size

\* f folds W over the parts of D, pick by pick, from base.
Folds(f, D, base, pick, W) ==
    f = [s \in SUBSET D |-> IF s = {} THEN base ELSE W[<<pick[s], f[s \ {pick[s]}]>>]]

\* A fold over a finite set is a function.
LEMMA FoldStands ==
    ASSUME NEW D, IsFiniteSet(D), NEW T, NEW base \in T, NEW W \in [D \X T -> T],
           NEW pick, \A s \in SUBSET D : s # {} => pick[s] \in s
    PROVE  \E f \in [SUBSET D -> T] : Folds(f, D, base, pick, W)
<1> DEFINE Small(n) == {s \in SUBSET D : Cardinality(s) <= n}
           FoldsOn(S) == \E f \in [S -> T] :
               f = [s \in S |-> IF s = {} THEN base ELSE W[<<pick[s], f[s \ {pick[s]}]>>]]
           UpTo(n) == FoldsOn(Small(n))
           H == {n \in Nat : UpTo(n)}
<1>1. Cardinality(D) \in Nat
  BY FS_CardinalityType
<1>2. ASSUME NEW s \in SUBSET D
      PROVE  /\ Cardinality(s) \in Nat /\ Cardinality(s) <= Cardinality(D)
             /\ Cardinality(s) = 0 <=> s = {}
             /\ s # {} => pick[s] \in D /\ Cardinality(s \ {pick[s]}) = Cardinality(s) - 1
  <2>1. IsFiniteSet(s) /\ Cardinality(s) <= Cardinality(D)
    BY FS_Subset
  <2> QED
    BY <2>1, FS_CardinalityType, FS_EmptySet, FS_RemoveElement
<1>3. UpTo(0)
  <2>1. ASSUME NEW s \in Small(0) PROVE s = {}
    <3>1. s \in SUBSET D /\ Cardinality(s) <= 0
      OBVIOUS
    <3>2. Cardinality(s) \in Nat
      BY <1>2, <3>1
    <3>3. Cardinality(s) = 0
      BY <3>1, <3>2
    <3> QED
      BY <1>2, <3>1, <3>3
  <2> DEFINE f == [s \in Small(0) |-> base]
  <2>2. f \in [Small(0) -> T]
    OBVIOUS
  <2>3. \A s \in Small(0) : base = IF s = {} THEN base ELSE W[<<pick[s], f[s \ {pick[s]}]>>]
    BY <2>1
  <2> DEFINE again(g) == [s \in Small(0) |-> IF s = {} THEN base ELSE W[<<pick[s], g[s \ {pick[s]}]>>]]
  <2>4. f = again(f)
    BY <2>3, Zenon
  <2> QED
    BY <2>2, <2>4
<1>4. ASSUME NEW m \in 1..Cardinality(D), UpTo(m - 1) PROVE UpTo(m)
  <2>1. PICK f \in [Small(m - 1) -> T] :
           f = [s \in Small(m - 1) |-> IF s = {} THEN base ELSE W[<<pick[s], f[s \ {pick[s]}]>>]]
    BY <1>4
  <2> DEFINE g == [s \in Small(m) |-> IF s = {} THEN base ELSE W[<<pick[s], f[s \ {pick[s]}]>>]]
  <2>2. ASSUME NEW s \in Small(m), s # {}
        PROVE  /\ s \ {pick[s]} \in Small(m - 1) /\ s \ {pick[s]} \in Small(m)
               /\ pick[s] \in D /\ s \in SUBSET D
    BY <1>1, <1>2, <1>4, <2>2
  <2>3. g \in [Small(m) -> T]
    <3> SUFFICES ASSUME NEW s \in Small(m) PROVE g[s] \in T
      OBVIOUS
    <3>1. CASE s = {}
      BY <3>1
    <3>2. CASE s # {}
      <4> HIDE DEF Small
      <4>1. f[s \ {pick[s]}] \in T /\ pick[s] \in D
        BY <2>2, <3>2
      <4>2. W[<<pick[s], f[s \ {pick[s]}]>>] \in T
        BY <4>1
      <4> QED
        BY <3>2, <4>2
    <3> QED
      BY <3>1, <3>2
  <2>4. \A s \in Small(m - 1) : s \in Small(m) /\ g[s] = f[s]
    <3>1. ASSUME NEW s \in Small(m - 1) PROVE s \in Small(m)
      <4>1. s \in SUBSET D /\ Cardinality(s) <= m - 1
        OBVIOUS
      <4>2. Cardinality(s) \in Nat
        BY <1>2, <4>1
      <4> QED
        BY <1>1, <4>1, <4>2
    <3> HIDE DEF Small
    <3> QED
      BY <2>1, <3>1
  <2>5. g = [s \in Small(m) |-> IF s = {} THEN base ELSE W[<<pick[s], g[s \ {pick[s]}]>>]]
    <3>1. ASSUME NEW s \in Small(m), s # {} PROVE g[s \ {pick[s]}] = f[s \ {pick[s]}]
      BY <2>2, <2>4, <3>1
    <3> HIDE DEF Small
    <3>2. \A s \in Small(m) :
            (IF s = {} THEN base ELSE W[<<pick[s], f[s \ {pick[s]}]>>])
            = IF s = {} THEN base ELSE W[<<pick[s], g[s \ {pick[s]}]>>]
      BY <3>1
    <3>3. g = [s \in Small(m) |-> IF s = {} THEN base ELSE W[<<pick[s], f[s \ {pick[s]}]>>]]
      OBVIOUS
    <3> HIDE DEF g
    <3> QED
      BY <3>2, <3>3, Zenon
  <2> QED
    BY <2>3, <2>5
<1>5. UpTo(Cardinality(D))
  <2> HIDE DEF UpTo
  <2>1. 0 \in H /\ \A k \in 1..Cardinality(D) : k - 1 \in H => k \in H
    BY <1>1, <1>3, <1>4
  <2> HIDE DEF H
  <2>2. Cardinality(D) \in H
    BY <1>1, <2>1, NumbersUpTo
  <2> QED
    BY <2>2 DEF H
<1>6. Small(Cardinality(D)) = SUBSET D
  BY <1>2
<1>7. FoldsOn(SUBSET D)
  <2> HIDE DEF FoldsOn, Small
  <2> QED
    BY <1>5, <1>6
<1> QED
  BY <1>7 DEF Folds

\* The greatest place of a set of places.
LEMMA GreatestPlace ==
    ASSUME NEW n \in Nat, NEW S \in SUBSET (1..n), S # {}
    PROVE  \E m \in S : \A k \in S : k <= m
<1> DEFINE D == {n - k : k \in S}
<1>1. D \in SUBSET Nat /\ D # {}
  <2>1. \A k \in S : n - k \in Nat
    OBVIOUS
  <2> QED
    BY <2>1
<1>2. PICK d \in D : \A e \in D : d <= e
  BY <1>1, LeastNumber
<1>3. PICK m \in S : d = n - m
  OBVIOUS
<1>4. \A k \in S : n - m <= n - k
  BY <1>2, <1>3
<1> QED
  BY <1>4

\* The greatest of the first k places is the last of them.
LEMMA LastOfFirst ==
    ASSUME NEW k \in Nat, k # 0
    PROVE  1..k # {} /\ Max(1..k) = k /\ (1..k) \ {k} = 1..(k - 1)
<1>1. k \in 1..k /\ \A y \in 1..k : k >= y
  OBVIOUS
<1>2. \A x \in 1..k : (\A y \in 1..k : x >= y) => x = k
  OBVIOUS
<1>3. Max(1..k) \in 1..k /\ \A y \in 1..k : Max(1..k) >= y
  BY <1>1 DEF Max
<1> QED
  BY <1>1, <1>2, <1>3

-----------------------------------------------------------------------------
(* The coder keeps the names of HEAD.                                      *)

\* A file that is empty has no names.
LEMMA NoNames == ExportedNames(<<>>) = {}
BY DEF ExportedNames

\* What passes the gates has the names of HEAD and parses (LostExports, CheckSyntax).
LEMMA PassesGates ==
    ASSUME NEW ls, Passes(ls)
    PROVE  /\ head # <<>> => ExportedNames(head) \subseteq ExportedNames(ls)
           /\ kind = "go" => Parses(ls)
<1>1. ExportedNames(Baseline) \ ExportedNames(ls) = {} /\ CheckSyntax(ls)
  BY DEF Passes, LostExports
<1>2. head # <<>> => Baseline = head
  BY DEF Baseline
<1> QED
  BY <1>1, <1>2 DEF CheckSyntax

\* Of a call of the coder the file comes out as it was, or as a content that passed.
Coded ==
    /\ hand = "coder" /\ UNCHANGED <<head, kind, hand>>
    /\ \/ UNCHANGED disk
       \/ Passes(disk')
       \/ disk = <<>> /\ CheckSyntax(disk')

LEMMA SaveCodes ==
    ASSUME Step, NEW by, NEW blocks, NEW ls, Save(by, blocks, ls) \/ Refuse
    PROVE  Coded
BY DEF Step, Save, Write, Refuse, Coded

LEMMA CoderCodes ==
    ASSUME EditByBlocks \/ WholeInstead \/ EditByPlacement \/ RewriteWholeFile \/ CreateFile \/ NextAttempt
    PROVE  Coded
<1>1. CASE EditByBlocks
  <2>1. PICK blocks \in Blocks : \E r \in {ApplyEditBlocks(disk, blocks)} :
           IF r.ok THEN Save("blocks", blocks, r.out) ELSE Refuse
    BY <1>1 DEF EditByBlocks
  <2> QED
    BY <1>1, <2>1, SaveCodes DEF EditByBlocks
<1>2. CASE WholeInstead
  BY <1>2, SaveCodes DEF WholeInstead
<1>3. CASE EditByPlacement
  BY <1>3, SaveCodes DEF EditByPlacement
<1>4. CASE RewriteWholeFile
  BY <1>4, SaveCodes DEF RewriteWholeFile
<1>5. CASE CreateFile
  BY <1>5 DEF CreateFile, Step, Write, Refuse, Coded
<1>6. CASE NextAttempt
  BY <1>6 DEF NextAttempt, Coded
<1> QED
  BY <1>1, <1>2, <1>3, <1>4, <1>5, <1>6

\* However often models write over what models wrote, no function that HEAD exports is
\* lost, for any contents and any answers (lost_exports.go: ExportedNames of HEAD).
THEOREM NamesStay == Spec => []HeadNamesStay
<1>1. Init => HeadNamesStay
  BY DEF Init, HeadNamesStay
<1>2. HeadNamesStay /\ [Next]_vars => HeadNamesStay'
  <2> SUFFICES ASSUME HeadNamesStay, [Next]_vars PROVE HeadNamesStay'
    OBVIOUS
  <2>1. CASE Coded
    <3>1. head' = head /\ hand' = hand /\ ExportedNames(head) \subseteq ExportedNames(disk)
      BY <2>1 DEF Coded, HeadNamesStay
    <3>2. CASE UNCHANGED disk
      BY <3>1, <3>2 DEF HeadNamesStay
    <3>3. CASE Passes(disk')
      BY <3>1, <3>3, NoNames, PassesGates DEF HeadNamesStay
    <3>4. CASE disk = <<>>
      BY <3>1, <3>4, NoNames DEF HeadNamesStay
    <3> QED
      BY <2>1, <3>2, <3>3, <3>4 DEF Coded
  <2>2. CASE ApplyPlan
    BY <2>2 DEF ApplyPlan, HeadNamesStay
  <2>3. CASE UNCHANGED vars
    BY <2>3 DEF vars, HeadNamesStay
  <2> QED
    BY <2>1, <2>2, <2>3, CoderCodes DEF Next
<1> QED
  BY <1>1, <1>2, PTL DEF Spec

-----------------------------------------------------------------------------
(* A plan keeps the syntax.                                                *)

\* What stands of a file ls with some of the changes in it.
Standing(ls, changes, lang) ==
    {s \in [ok : BOOLEAN, lines : File, inserted : SUBSET changes, refused : SUBSET changes] :
        /\ Braces(s.lines) = Braces(ls)
        /\ FileParses(ls, lang) => FileParses(s.lines, lang)
        /\ s.inserted = {} => s.lines = ls}

LEMMA IsStanding ==
    ASSUME NEW ls, NEW changes, NEW lang, NEW ok \in BOOLEAN, NEW lines \in File,
           NEW inserted \in SUBSET changes, NEW refused \in SUBSET changes,
           Braces(lines) = Braces(ls), FileParses(ls, lang) => FileParses(lines, lang),
           inserted = {} => lines = ls
    PROVE  [ok |-> ok, lines |-> lines, inserted |-> inserted, refused |-> refused] \in Standing(ls, changes, lang)
BY DEF Standing

\* A piece in place of lines of a file gives a file.
LEMMA PutTyped ==
    ASSUME NEW ls \in File, NEW block \in File, NEW at \in 0..Len(ls), NEW drop \in Nat, at + drop <= Len(ls)
    PROVE  Put1(ls, [at |-> at, drop |-> drop], block) \in File
<1>1. SubSeq(ls, 1, at) \in Seq(Line) /\ SubSeq(ls, at + drop + 1, Len(ls)) \in Seq(Line)
  BY DEF File
<1> QED
  BY <1>1 DEF Put1, File

LEMMA ChangeStands ==
    ASSUME NEW ls \in File, NEW changes \in SUBSET VariantChange, NEW lang,
           NEW s \in Standing(ls, changes, lang), NEW c \in changes
    PROVE  ApplyChange(s, c, lang, FileParses(ls, lang)) \in Standing(ls, changes, lang)
<1> DEFINE place == PlaceOf(s.lines, c)
           next == Put1(s.lines, place, c.block)
           new == ApplyChange(s, c, lang, FileParses(ls, lang))
<1> SUFFICES new \in Standing(ls, changes, lang)
  OBVIOUS
<1>1. /\ s.lines \in File /\ c.block \in File /\ c.replace \in Nat
      /\ s.inserted \in SUBSET changes /\ s.refused \in SUBSET changes /\ s.ok \in BOOLEAN
      /\ Braces(s.lines) = Braces(ls)
      /\ FileParses(ls, lang) => FileParses(s.lines, lang)
      /\ s.inserted = {} => s.lines = ls
  BY DEF Standing, VariantChange
<1>2. ASSUME place.at \in 0..Len(s.lines) PROVE next \in File
  <2>1. place = [at |-> place.at, drop |-> place.drop]
        /\ place.drop = IF place.at + c.replace > Len(s.lines) THEN 0 ELSE c.replace
    BY DEF PlaceOf
  <2> DEFINE at == place.at
             drop == place.drop
  <2>2. Len(s.lines) \in Nat
    BY <1>1 DEF File
  <2>3. drop \in Nat /\ at + drop <= Len(s.lines)
    BY <1>1, <1>2, <2>1, <2>2
  <2>4. next = Put1(s.lines, [at |-> at, drop |-> drop], c.block)
    BY <2>1
  <2> HIDE DEF at, drop, next, place
  <2> QED
    BY <1>1, <1>2, <2>3, <2>4, PutTyped DEF at
<1> HIDE DEF place, next
<1>3. CASE new = [s EXCEPT !.ok = FALSE]
  BY <1>1, <1>3 DEF Standing
<1>4. CASE new = s
  BY <1>4
<1>5. CASE new = Result(s.lines, s.inserted, s.refused \cup {c})
  BY <1>1, <1>5 DEF Standing, Result
<1>6. CASE /\ new = Result(next, s.inserted \cup {c}, s.refused)
           /\ place.at \in 0..Len(s.lines) /\ ~BreaksSyntax(s.lines, next, lang, FileParses(ls, lang))
  <2>1. /\ next \in File /\ Braces(next) = Braces(s.lines)
        /\ FileParses(ls, lang) => FileParses(next, lang)
    BY <1>1, <1>2, <1>6 DEF BreaksSyntax
  <2>2. s.inserted \cup {c} \in SUBSET changes /\ s.inserted \cup {c} # {}
    BY <1>1
  <2>3. [ok |-> TRUE, lines |-> next, inserted |-> s.inserted \cup {c}, refused |-> s.refused]
        \in Standing(ls, changes, lang)
    BY <1>1, <2>1, <2>2, IsStanding
  <2> QED
    BY <1>6, <2>3 DEF Result
<1> DEFINE lost == ~s.ok \/ AnchorAt(s.lines, c) = {} \/ place.at \notin 0..Len(s.lines)
           broken == BreaksSyntax(s.lines, next, lang, FileParses(ls, lang))
<1>7. new = IF lost THEN [s EXCEPT !.ok = FALSE]
            ELSE IF BlockPresent(s.lines, c.block) THEN s
            ELSE IF broken THEN Result(s.lines, s.inserted, s.refused \cup {c})
            ELSE Result(next, s.inserted \cup {c}, s.refused)
  BY Zenon DEF ApplyChange, place, next
<1>8. ~lost => place.at \in 0..Len(s.lines)
  OBVIOUS
<1> HIDE DEF lost, new
<1>9. CASE lost
  BY <1>3, <1>7, <1>9
<1>10. CASE ~lost /\ broken
  <2> HIDE DEF broken
  <2> QED
    BY <1>4, <1>5, <1>7, <1>10
<1>11. CASE ~lost /\ ~broken
  <2>1. ~BreaksSyntax(s.lines, next, lang, FileParses(ls, lang))
    BY <1>11
  <2> HIDE DEF broken
  <2> QED
    BY <1>4, <1>6, <1>7, <1>8, <1>11, <2>1
<1> QED
  BY <1>9, <1>10, <1>11 DEF new

\* Whatever the order in which the changes of a plan go in, the file that comes out has
\* as many open braces as before, parses if it did, and is the one that went in if no
\* change got into it (applyVariantPlan, insertBreaksSyntax).
LEMMA PlanStands ==
    ASSUME NEW ls \in File, NEW plan, IsFiniteSet(plan), plan \subseteq VariantChange, NEW lang,
           NEW r \in ApplyVariantPlan(ls, plan, lang)
    PROVE  r \in Standing(ls, plan, lang)
<1> DEFINE m == Cardinality(plan)
           D == 1..m
           T == Standing(ls, plan, lang)
           base == Result(ls, {}, {})
           add(s, c) == ApplyChange(s, c, lang, FileParses(ls, lang))
<1>1. PICK q \in SetToSeqs(plan) : r = FoldLeft(LAMBDA s, c : ApplyChange(s, c, lang, FileParses(ls, lang)), base, q)
  BY DEF ApplyVariantPlan
<1> DEFINE Eq(f) == f = [s \in SUBSET DOMAIN q |-> IF s = {} THEN base
                           ELSE ApplyChange(f[s \ {Max(s)}], q[Max(s)], lang, FileParses(ls, lang))]
           it == CHOOSE f : Eq(f)
<1>2. r = it[DOMAIN q]
  BY <1>1 DEF FoldLeft, MapThenFoldSet
<1>3. q \in [1..m -> plan] /\ DOMAIN q = 1..m
  BY DEF SetToSeqs
<1>4. m \in Nat /\ IsFiniteSet(D)
  <2>1. m \in Nat
    BY FS_CardinalityType
  <2> HIDE DEF m
  <2>2. IsFiniteSet(1..m)
    BY <2>1, FS_Interval
  <2> QED
    BY <2>1, <2>2
<1> HIDE DEF m
<1>5. base \in T
  <2>1. base = [ok |-> TRUE, lines |-> ls, inserted |-> {}, refused |-> {}]
    BY DEF Result
  <2> QED
    BY <2>1, IsStanding
<1>6. \A s \in T, c \in plan : add(s, c) \in T
  BY ChangeStands
<1> HIDE DEF T, base, add
<1>7. \E f : Eq(f)
  <2> DEFINE pick == [s \in SUBSET D |-> Max(s)]
             W == [p \in D \X T |-> add(p[2], q[p[1]])]
  <2>1. \A s \in SUBSET D : s # {} => pick[s] \in s
    <3> SUFFICES ASSUME NEW s \in SUBSET D, s # {} PROVE Max(s) \in s
      OBVIOUS
    <3>1. PICK x \in s : \A y \in s : y <= x
      BY <1>4, GreatestPlace
    <3>2. \A y \in s : x >= y
      BY <1>4, <3>1
    <3> QED
      BY <3>2 DEF Max
  <2>2. \A s \in SUBSET D : pick[s] = Max(s)
    OBVIOUS
  <2>3. W \in [D \X T -> T] /\ \A i \in D, v \in T : W[<<i, v>>] = add(v, q[i])
    <3>1. \A p \in D \X T : p[2] \in T /\ q[p[1]] \in plan
      BY <1>3
    <3> QED
      BY <1>6, <3>1
  <2> HIDE DEF pick, W, D
  <2>4. PICK f \in [SUBSET D -> T] : Folds(f, D, base, pick, W)
    BY <1>4, <1>5, <2>1, <2>3, FoldStands
  <2>5. ASSUME NEW s \in SUBSET D, s # {}
        PROVE  W[<<pick[s], f[s \ {pick[s]}]>>] = add(f[s \ {Max(s)}], q[Max(s)])
    <3>1. pick[s] \in D /\ s \ {pick[s]} \in SUBSET D
      BY <2>1, <2>5
    <3>2. f[s \ {pick[s]}] \in T
      BY <3>1
    <3> QED
      BY <2>2, <2>3, <3>1, <3>2
  <2>6. \A s \in SUBSET D :
           (IF s = {} THEN base ELSE W[<<pick[s], f[s \ {pick[s]}]>>])
           = IF s = {} THEN base ELSE add(f[s \ {Max(s)}], q[Max(s)])
    BY <2>5
  <2>7. f = [s \in SUBSET D |-> IF s = {} THEN base ELSE add(f[s \ {Max(s)}], q[Max(s)])]
    BY <2>4, <2>6, Zenon DEF Folds
  <2>8. DOMAIN q = D
    BY <1>3 DEF D
  <2>9. Eq(f)
    BY <2>7, <2>8, Zenon DEF add
  <2> QED
    BY <2>9
<1>8. \A s \in SUBSET D : it[s] = IF s = {} THEN base ELSE add(it[s \ {Max(s)}], q[Max(s)])
  <2>1. Eq(it)
    BY <1>7
  <2> HIDE DEF it
  <2>2. \A s \in SUBSET DOMAIN q : it[s] = IF s = {} THEN base
                   ELSE ApplyChange(it[s \ {Max(s)}], q[Max(s)], lang, FileParses(ls, lang))
    BY <2>1, Zenon
  <2> QED
    BY <1>3, <2>2 DEF add
<1> HIDE DEF it, Eq
<1> DEFINE H == {k \in 0..m : it[1..k] \in T}
<1>9. 0 \in H
  <2>1. 1..0 = {} /\ {} \in SUBSET D
    OBVIOUS
  <2>2. it[{}] = base
    BY <1>8, <2>1
  <2>3. it[1..0] \in T
    BY <1>5, <2>1, <2>2
  <2> QED
    BY <1>4, <2>3
<1>10. ASSUME NEW k \in 1..m, k - 1 \in H PROVE k \in H
  <2>1. k \in Nat /\ k # 0 /\ k \in 0..m
    BY <1>4
  <2>2. 1..k # {} /\ Max(1..k) = k /\ (1..k) \ {k} = 1..(k - 1)
    BY <2>1, LastOfFirst
  <2>3. 1..k \in SUBSET D
    BY <1>4
  <2>4. it[1..k] = add(it[1..(k - 1)], q[k])
    BY <1>8, <2>2, <2>3
  <2>5. it[1..(k - 1)] \in T /\ q[k] \in plan
    BY <1>3, <1>10
  <2>6. it[1..k] \in T
    BY <1>6, <2>4, <2>5
  <2> QED
    BY <2>1, <2>6
<1>11. 0..m \subseteq H
  <2> HIDE DEF H
  <2> QED
    BY <1>4, <1>9, <1>10, NumbersUpTo
<1>12. m \in H
  <2> HIDE DEF H
  <2> QED
    BY <1>4, <1>11
<1> QED
  BY <1>2, <1>3, <1>12 DEF T

\* Under a plan the file was never broken.
PlanHolds ==
    hand = "plan" =>
        /\ head \in File /\ disk \in File /\ Braces(disk) = Braces(head)
        /\ FileParses(head, kind) => FileParses(disk, kind)

\* A call of the coder parses what it writes, and a plan goes in by changes that keep
\* the syntax.
EditInv == SavedParses /\ PlanHolds

LEMMA PlanKept ==
    ASSUME EditInv, ApplyPlan
    PROVE  EditInv'
<1>1. /\ hand = "plan" /\ UNCHANGED <<head, kind, hand>>
      /\ head \in File /\ disk \in File /\ Braces(disk) = Braces(head)
      /\ FileParses(head, kind) => FileParses(disk, kind)
  BY DEF ApplyPlan, EditInv, PlanHolds
<1>2. /\ disk' \in File /\ Braces(disk') = Braces(head)
      /\ FileParses(head, kind) => FileParses(disk', kind)
  <2>1. PICK plan \in Plans : \E r \in ApplyVariantPlan(disk, plan, kind) :
           IF ~r.ok THEN UNCHANGED <<disk, last>> ELSE disk' = r.lines
    BY DEF ApplyPlan
  <2>2. PICK r \in ApplyVariantPlan(disk, plan, kind) : UNCHANGED disk \/ disk' = r.lines
    BY <2>1
  <2>3. IsFiniteSet(plan) /\ plan \subseteq VariantChange
    BY EditAssumption
  <2>4. r \in Standing(disk, plan, kind)
    BY <1>1, <2>2, <2>3, PlanStands
  <2>5. /\ r.lines \in File /\ Braces(r.lines) = Braces(disk)
        /\ FileParses(disk, kind) => FileParses(r.lines, kind)
    BY <2>4 DEF Standing
  <2> QED
    BY <1>1, <2>2, <2>5
<1>3. PlanHolds'
  BY <1>1, <1>2 DEF PlanHolds, FileParses
<1>4. SavedParses'
  BY <1>1, <1>2 DEF SavedParses, FileParses
<1> QED
  BY <1>3, <1>4 DEF EditInv

LEMMA CodedKept ==
    ASSUME EditInv, Coded
    PROVE  EditInv'
<1>1. hand = "coder" /\ UNCHANGED <<head, kind, hand>> /\ SavedParses
  BY DEF Coded, EditInv
<1>2. kind = "go" => disk' = disk \/ Parses(disk')
  <2>1. Passes(disk') \/ CheckSyntax(disk') => (kind = "go" => Parses(disk'))
    BY PassesGates DEF CheckSyntax
  <2> QED
    BY <2>1 DEF Coded
<1>3. PlanHolds'
  BY <1>1 DEF PlanHolds
<1>4. SavedParses'
  BY <1>1, <1>2 DEF SavedParses
<1> QED
  BY <1>3, <1>4 DEF EditInv

\* A file that parses in HEAD parses on disk, whichever way of editing wrote it last,
\* and a plan leaves as many braces open as it found, for any contents, answers and
\* plans, also of copies that are older (parse_gate.go, insertBreaksSyntax).
THEOREM StillParses == Spec => []SavedParses
<1>1. Init => EditInv
  <2> SUFFICES ASSUME Init PROVE EditInv
    OBVIOUS
  <2>1. disk = head /\ head \in File
    BY EditAssumption DEF Init
  <2> QED
    BY <2>1 DEF EditInv, SavedParses, PlanHolds
<1>2. EditInv /\ [Next]_vars => EditInv'
  <2> SUFFICES ASSUME EditInv, [Next]_vars PROVE EditInv'
    OBVIOUS
  <2>1. CASE Coded
    BY <2>1, CodedKept
  <2>2. CASE ApplyPlan
    BY <2>2, PlanKept
  <2>3. CASE UNCHANGED vars
    <3>1. UNCHANGED <<head, kind, hand, disk>>
      BY <2>3 DEF vars
    <3> QED
      BY <3>1 DEF EditInv, SavedParses, PlanHolds, FileParses
  <2> QED
    BY <2>1, <2>2, <2>3, CoderCodes DEF Next
<1>3. EditInv => SavedParses
  BY DEF EditInv
<1> QED
  BY <1>1, <1>2, <1>3, PTL DEF Spec
=============================================================================
