--------------------------- MODULE HealLoop_proofs ---------------------------
(***************************************************************************)
(* Theorems about HealLoop, for any files and versions, any outputs a      *)
(* build can print, any caps, and whatever coder and healer write.         *)
(***************************************************************************)
EXTENDS HealLoop, TLAPS

\* The counters of healProgress as functions of what was built: rounds counts the
\* rounds, seen holds their outputs.
CountStands == rounds = Len(log) /\ seen = {log[k].out : k \in 1..Len(log)}

\* The lowest number so far was first printed `stalled` rounds ago, and every round since
\* the first was paid for.
LowFound ==
    /\ log = <<>> => stalled = 0
    /\ log # <<>> =>
        /\ stalled < Len(log) /\ best = Errors(Len(log) - stalled)
        /\ \A i \in 1..Len(log) : best <= Errors(i)
        /\ \A i \in 1..(Len(log) - stalled - 1) : best < Errors(i)
        /\ rounds <= 1 + StallRounds * (Errors(1) - best) + stalled

\* That holds as long as the loop goes on, which is not for ever.
LowStands ==
    place \in {"build", "healing"} => rounds < MaxRounds /\ stalled < StallRounds /\ LowFound

\* Where the loop goes on, the last output is a new one.
NewStands ==
    place = "healing" => \A j \in 1..(Len(log) - 1) : log[j].out # log[Len(log)].out

\* The best round is one of the log, and none of those with a diff is better.
RoundStands ==
    /\ \A k \in 1..Len(log) : log[k].tree # Unchanged => roundErrs \in 1..Errors(k)
    /\ roundErrs # 0 =>
        \E j \in 1..Len(log) : log[j].tree = roundDiff /\ Errors(j) = roundErrs

\* What stands in the files when the loop stops is what the last round built.
LastStands == place = "stopped" => log # <<>> /\ log[Len(log)].tree = work

\* Nothing is staged in the first attempt.
IndexStands == attempt = 1 /\ place # "over" => index = Unchanged

HealInv ==
    /\ TypeOK /\ CountStands /\ LowStands /\ NewStands /\ RoundStands /\ LastStands /\ IndexStands
    /\ StopsWhenItShould /\ RoundsAreBounded

-----------------------------------------------------------------------------
(* git, and the log.                                                       *)

\* The tree of HEAD is a tree.
LEMMA UnchangedIsTree == Unchanged \in Tree
BY DEF Unchanged, Tree, Version

\* Whatever git leaves is a tree.
LEMMA GitTypes ==
    ASSUME NEW i \in [File -> Version \cup {Unmerged}], NEW w \in Tree, NEW d \in Tree
    PROVE  /\ Checkout(i, w) \in Tree
           /\ Merge(d, i) \in [File -> Version \cup {Unmerged}]
           /\ MergeFiles(d, i, w) \in Tree
<1>1. Checkout(i, w) \in Tree
  <2>1. CASE \E f \in File : i[f] = Unmerged
    BY <2>1 DEF Checkout
  <2>2. CASE ~ \E f \in File : i[f] = Unmerged
    BY <2>2 DEF Checkout, Tree
  <2> QED
    BY <2>1, <2>2
<1>2. Merge(d, i) \in [File -> Version \cup {Unmerged}]
  BY DEF Merge, Tree
<1>3. MergeFiles(d, i, w) \in Tree
  BY DEF MergeFiles, Tree, Version
<1> QED
  BY <1>1, <1>2, <1>3

\* Over an index that is HEAD's, a diff applies and leaves the tree it was taken from.
LEMMA CleanMerge ==
    ASSUME NEW d \in Tree
    PROVE  /\ Checkout(Unchanged, d) = Unchanged
           /\ Applicable(d, Unchanged, Unchanged)
           /\ ~Conflicts(d, Unchanged)
           /\ MergeFiles(d, Unchanged, Unchanged) = d
<1>1. Base # Unmerged
  BY HealAssumption DEF Version
<1>2. \A f \in File : Unchanged[f] = Base
  BY DEF Unchanged
<1>3. Checkout(Unchanged, d) = Unchanged
  BY <1>1, <1>2 DEF Checkout
<1>4. Applicable(d, Unchanged, Unchanged) /\ ~Conflicts(d, Unchanged)
  BY <1>2 DEF Applicable, Conflicts, Touched
<1>5. MergeFiles(d, Unchanged, Unchanged) = [f \in File |-> d[f]]
  BY <1>2 DEF MergeFiles, Touched
<1>6. d = [f \in File |-> d[f]]
  BY DEF Tree
<1> QED
  BY <1>3, <1>4, <1>5, <1>6

\* One more round in the log.
LEMMA OneMoreRound ==
    ASSUME log \in Seq(Round), NEW r \in Round, log' = Append(log, r)
    PROVE  /\ log' \in Seq(Round) /\ log' # <<>>
           /\ Len(log) \in Nat /\ Len(log') = Len(log) + 1
           /\ \A k \in 1..Len(log) : log'[k] = log[k]
           /\ log'[Len(log) + 1] = r
OBVIOUS

\* Every round printed something.
LEMMA ErrorsPositive ==
    ASSUME log \in Seq(Round), NEW k \in 1..Len(log)
    PROVE  log[k] \in Round /\ Errors(k) \in Nat \ {0}
<1>1. log[k] \in Round
  OBVIOUS
<1> QED
  BY <1>1, HealAssumption DEF Round, Errors


-----------------------------------------------------------------------------
(* The steps outside a round.                                              *)

\* A step that leaves the loop, or goes on in it, without a round.
LEMMA NoRound ==
    ASSUME HealInv, UNCHANGED <<progressVars, roundVars, log>>, TypeOK', IndexStands',
           place' \in {"begin", "coding", "over"} \/ (place = "healing" /\ place' = "build")
    PROVE  HealInv'
<1>1. UNCHANGED <<rounds, best, stalled, seen, roundErrs, roundDiff, log>>
  BY DEF progressVars, roundVars
<1>2. CountStands' /\ RoundStands' /\ RoundsAreBounded'
  BY <1>1 DEF HealInv, CountStands, RoundStands, RoundsAreBounded, Errors
<1>3. LowStands'
  BY <1>1 DEF HealInv, LowStands, LowFound, Errors
<1>4. NewStands' /\ LastStands' /\ StopsWhenItShould'
  BY DEF NewStands, LastStands, StopsWhenItShould
<1> QED
  BY <1>2, <1>3, <1>4 DEF HealInv

\* After the last attempt nothing follows.
LEMMA NextAttemptTyped ==
    ASSUME HealInv, NextAttempt
    PROVE  attempt' \in 1..Attempts /\ place' \in {"begin", "over"} /\ (attempt' = 1 => place' = "over")
BY HealAssumption DEF NextAttempt, HealInv, TypeOK

\* The tree an attempt leaves, and what of it is remembered.
LEMMA LeaveKept ==
    ASSUME HealInv, NEW i \in [File -> Version \cup {Unmerged}], NEW w \in Tree, NEW n \in Nat,
           Leave(i, w, n)
    PROVE  HealInv'
<1>1. /\ UNCHANGED <<progressVars, roundVars, log>> /\ NextAttempt
      /\ index' = i /\ work' = Checkout(i, w) /\ RememberIfBest(n, w)
  BY DEF Leave
<1>2. attempt' \in 1..Attempts /\ place' \in {"begin", "over"} /\ (attempt' = 1 => place' = "over")
  BY <1>1, NextAttemptTyped
<1>3. TypeOK'
  <2>1. work' \in Tree
    BY <1>1, GitTypes
  <2>2. bestErrs' \in Nat /\ bestDiff' \in Tree
    BY <1>1 DEF RememberIfBest, bestVars, HealInv, TypeOK
  <2>3. UNCHANGED <<rounds, best, stalled, seen, roundErrs, roundDiff, log>>
    BY <1>1 DEF progressVars, roundVars
  <2> QED
    BY <1>1, <1>2, <2>1, <2>2, <2>3 DEF HealInv, TypeOK
<1> QED
  BY <1>1, <1>2, <1>3, NoRound DEF IndexStands

\* Between the attempts, the coder, the healer, and what follows the loop.
LEMMA OutsideKept ==
    ASSUME HealInv, Begin \/ Code \/ BuildPasses \/ Heal \/ HealerGivesUp
    PROVE  HealInv'
<1>1. CASE Begin
  <2>1. /\ place' = "coding" /\ {index', work'} \subseteq Tree \cup {index, work}
        /\ attempt = 1 => index' = index
        /\ index' \in [File -> Version \cup {Unmerged}] /\ work' \in Tree
    BY <1>1 DEF Begin, treeVars, HealInv, TypeOK, Tree
  <2>2. TypeOK'
    BY <1>1, <2>1 DEF Begin, progressVars, roundVars, bestVars, HealInv, TypeOK
  <2>3. IndexStands'
    BY <1>1, <2>1 DEF Begin, HealInv, IndexStands
  <2> QED
    BY <1>1, <2>1, <2>2, <2>3, NoRound DEF Begin
<1>2. CASE Code
  <2>1. /\ place = "coding" /\ place' = "build" /\ work' \in Tree /\ log' = <<>>
        /\ rounds' = 0 /\ best' = 0 /\ stalled' = 0 /\ seen' = {}
        /\ roundErrs' = 0 /\ roundDiff' = Unchanged
        /\ UNCHANGED <<attempt, index, bestErrs, bestDiff>>
    BY <1>2 DEF Code, bestVars
  <2>2. TypeOK'
    BY <2>1, UnchangedIsTree, HealAssumption DEF HealInv, TypeOK
  <2>3. CountStands' /\ RoundStands' /\ RoundsAreBounded' /\ NewStands' /\ LastStands'
    BY <2>1 DEF CountStands, RoundStands, RoundsAreBounded, NewStands, LastStands
  <2>4. LowStands' /\ IndexStands' /\ StopsWhenItShould'
    BY <2>1, HealAssumption DEF LowStands, LowFound, HealInv, IndexStands, StopsWhenItShould
  <2> QED
    BY <2>2, <2>3, <2>4 DEF HealInv
<1>3. CASE BuildPasses
  <2>1. attempt' \in 1..Attempts /\ place' \in {"begin", "over"} /\ (attempt' = 1 => place' = "over")
    BY <1>3, NextAttemptTyped DEF BuildPasses
  <2>2. TypeOK'
    BY <1>3, <2>1 DEF BuildPasses, treeVars, progressVars, roundVars, bestVars, HealInv, TypeOK
  <2> QED
    BY <1>3, <2>1, <2>2, NoRound DEF BuildPasses, IndexStands
<1>4. CASE Heal
  <2>1. TypeOK' /\ IndexStands'
    BY <1>4 DEF Heal, progressVars, roundVars, bestVars, HealInv, TypeOK, IndexStands
  <2> QED
    BY <1>4, <2>1, NoRound DEF Heal
<1>5. CASE HealerGivesUp
  <2>1. attempt' \in 1..Attempts /\ place' \in {"begin", "over"} /\ (attempt' = 1 => place' = "over")
    BY <1>5, NextAttemptTyped DEF HealerGivesUp
  <2>2. Checkout(index, work) \in Tree
    BY GitTypes, UnchangedIsTree DEF HealInv, TypeOK
  <2>3. TypeOK'
    BY <1>5, <2>1, <2>2 DEF HealerGivesUp, progressVars, roundVars, bestVars, HealInv, TypeOK
  <2> QED
    BY <1>5, <2>1, <2>3, NoRound DEF HealerGivesUp, IndexStands
<1> QED
  BY <1>1, <1>2, <1>3, <1>4, <1>5

\* The tree of the best round, or of the last one, is left and remembered.
LEMMA AfterLoopKept ==
    ASSUME HealInv, PutBackRound \/ KeepLastRound
    PROVE  HealInv'
<1>1. lastErrs \in Nat
  <2>1. log \in Seq(Round) /\ log # <<>>
    BY DEF HealInv, TypeOK, LastStands, PutBackRound, KeepLastRound
  <2>2. Len(log) \in 1..Len(log)
    BY <2>1
  <2> QED
    BY <2>1, <2>2, ErrorsPositive DEF lastErrs, Errors
<1>2. /\ index \in [File -> Version \cup {Unmerged}] /\ work \in Tree /\ roundDiff \in Tree
      /\ roundErrs \in Nat
  BY DEF HealInv, TypeOK
<1>3. CASE PutBackRound
  <2> DEFINE w == Checkout(index, work)
  <2>1. w \in Tree
    BY <1>2, GitTypes
  <2>2. CASE Applicable(roundDiff, index, w)
    <3>1. /\ Merge(roundDiff, index) \in [File -> Version \cup {Unmerged}]
          /\ MergeFiles(roundDiff, index, w) \in Tree
      BY <1>2, <2>1, GitTypes
    <3>2. \E n \in Nat : Leave(Merge(roundDiff, index), MergeFiles(roundDiff, index, w), n)
      BY <1>1, <1>2, <1>3, <2>2 DEF PutBackRound
    <3> QED
      BY <3>1, <3>2, LeaveKept
  <2>3. CASE ~Applicable(roundDiff, index, w)
    BY <1>1, <1>2, <1>3, <2>1, <2>3, LeaveKept DEF PutBackRound
  <2> QED
    BY <2>2, <2>3
<1>4. CASE KeepLastRound
  BY <1>1, <1>2, <1>4, LeaveKept DEF KeepLastRound
<1> QED
  BY <1>3, <1>4

-----------------------------------------------------------------------------
(* One round.                                                              *)

\* A step down pays for all the chances it takes with it.
LEMMA StepDown ==
    ASSUME NEW s \in Nat, NEW a \in Int, NEW b \in Int, a < b
    PROVE  s * a + s <= s * b
<1> DEFINE d == b - a - 1
<1>1. d \in Nat /\ b = a + 1 + d
  OBVIOUS
<1>2. s * b = s * a + s + s * d
  BY <1>1
<1>3. s * d \in Nat
  BY <1>1
<1>4. s * a \in Int /\ s * b \in Int
  OBVIOUS
<1> HIDE DEF d
<1> QED
  BY <1>2, <1>3, <1>4

\* The counters after one more round whose output is new.
LEMMA LowStep ==
    ASSUME HealInv, NEW e \in Outputs, BuildFails(e), e \notin seen
    PROVE  /\ LowFound'
           /\ best' \in Nat /\ stalled' \in Nat
<1> DEFINE n == NumErrors(e)
           L == Len(log)
           Was(k) == NumErrors(log[k].out)
           Is(k) == NumErrors(log'[k].out)
<1>1. /\ place = "build" /\ log \in Seq(Round) /\ work \in Tree /\ log' = Append(log, [tree |-> work, out |-> e])
      /\ rounds = L /\ rounds' = L + 1 /\ best \in Nat /\ stalled \in Nat
      /\ stalled < StallRounds /\ LowFound
  BY DEF BuildFails, ProgressStep, Step, HealInv, TypeOK, CountStands, LowStands
<1>2. /\ best' = IF rounds = 0 \/ n < best THEN n ELSE best
      /\ stalled' = IF rounds = 0 THEN stalled ELSE IF n < best THEN 0 ELSE stalled + 1
  BY DEF BuildFails, ProgressStep, Step
<1>3. /\ log' # <<>> /\ L \in Nat /\ Len(log') = L + 1
      /\ \A k \in 1..L : log'[k] = log[k]
      /\ log'[L + 1] = [tree |-> work, out |-> e]
  BY <1>1, OneMoreRound DEF Round
<1>4. n \in Nat /\ StallRounds \in Nat
  BY HealAssumption
<1>5. /\ \A k \in 1..L : Is(k) = Was(k) /\ Was(k) \in Nat
      /\ Is(L + 1) = n
  BY <1>1, <1>3, ErrorsPositive DEF Errors
<1>6. log = <<>> <=> L = 0
  BY <1>1
<1>7. /\ log = <<>> => stalled = 0
      /\ log # <<>> =>
          /\ stalled < L /\ best = Was(L - stalled)
          /\ \A i \in 1..L : best <= Was(i)
          /\ \A i \in 1..(L - stalled - 1) : best < Was(i)
          /\ L <= 1 + StallRounds * (Was(1) - best) + stalled
  BY <1>1 DEF LowFound, Errors
<1> DEFINE After ==
        /\ stalled' < Len(log') /\ best' = Is(Len(log') - stalled')
        /\ \A i \in 1..Len(log') : best' <= Is(i)
        /\ \A i \in 1..(Len(log') - stalled' - 1) : best' < Is(i)
        /\ rounds' <= 1 + StallRounds * (Is(1) - best') + stalled'
<1>8. ASSUME After PROVE LowFound'
  BY <1>3, <1>8 DEF LowFound, Errors
<1> HIDE DEF n, L, Was, Is
<1>9. ASSUME log = <<>> PROVE After
  <2>1. L = 0 /\ best' = n /\ stalled' = 0 /\ rounds' = 1 /\ Is(1) = n
    BY <1>1, <1>2, <1>5, <1>6, <1>7, <1>9
  <2>2. StallRounds * (n - n) = 0
    BY <1>4
  <2>3. After
    BY <1>3, <1>4, <2>1, <2>2
  <2> QED
    BY <2>3
<1>10. ASSUME log # <<>> PROVE After
  <2>1. /\ L > 0 /\ stalled < L /\ best = Was(L - stalled)
        /\ \A i \in 1..L : best <= Was(i)
        /\ \A i \in 1..(L - stalled - 1) : best < Was(i)
        /\ L <= 1 + StallRounds * (Was(1) - best) + stalled
    BY <1>3, <1>6, <1>7, <1>10
  <2>2. Is(1) = Was(1) /\ Was(1) \in Nat
    BY <1>3, <1>5, <2>1
  <2>3. CASE n < best
    <3>1. best' = n /\ stalled' = 0
      BY <1>1, <1>2, <1>3, <2>1, <2>3
    <3>2. StallRounds * (Was(1) - best) + StallRounds <= StallRounds * (Was(1) - n)
      <4>1. Was(1) - best \in Int /\ Was(1) - n \in Int /\ Was(1) - best < Was(1) - n
        BY <1>1, <1>4, <2>2, <2>3
      <4> QED
        BY <1>4, <4>1, StepDown
    <3>3. StallRounds * (Was(1) - best) \in Int /\ StallRounds * (Was(1) - n) \in Int
      BY <1>1, <1>4, <2>2
    <3>4. rounds' <= 1 + StallRounds * (Is(1) - best') + stalled'
      <4>1. PICK x, y \in Int : x = StallRounds * (Was(1) - best) /\ y = StallRounds * (Was(1) - n)
        BY <3>3
      <4>2. rounds' = L + 1 /\ L <= 1 + x + stalled /\ stalled \in Nat /\ stalled <= StallRounds - 1
        BY <1>1, <1>3, <1>4, <2>1, <4>1
      <4>3. x + StallRounds <= y
        BY <3>2, <4>1
      <4>4. rounds' <= 1 + y
        BY <1>3, <1>4, <4>1, <4>2, <4>3
      <4>5. StallRounds * (Is(1) - best') = y
        BY <2>2, <3>1, <4>1
      <4> QED
        BY <3>1, <4>1, <4>4, <4>5
    <3>5. \A i \in 1..L : n < Is(i)
      BY <1>1, <1>3, <1>4, <1>5, <2>1, <2>3
    <3>6. After
      BY <1>3, <1>4, <1>5, <3>1, <3>4, <3>5
    <3> QED
      BY <3>6
  <2>4. CASE ~(n < best)
    <3>1. best' = best /\ stalled' = stalled + 1 /\ best <= n
      BY <1>1, <1>2, <1>3, <1>4, <2>1, <2>4
    <3>2. StallRounds * (Was(1) - best) \in Int
      BY <1>1, <1>4, <2>2
    <3>3. rounds' <= 1 + StallRounds * (Is(1) - best') + stalled'
      <4>1. PICK x \in Int : x = StallRounds * (Was(1) - best)
        BY <3>2
      <4>2. rounds' = L + 1 /\ L <= 1 + x + stalled /\ stalled \in Nat
        BY <1>1, <2>1, <4>1
      <4>3. StallRounds * (Is(1) - best') = x
        BY <2>2, <3>1, <4>1
      <4> QED
        BY <1>3, <3>1, <4>1, <4>2, <4>3
    <3>4. L + 1 - stalled' = L - stalled /\ L - stalled \in 1..L
      BY <1>1, <1>3, <2>1, <3>1
    <3>5. best' = Is(L + 1 - stalled')
      BY <1>5, <2>1, <3>1, <3>4
    <3>6. \A i \in 1..(L + 1) : best' <= Is(i)
      BY <1>3, <1>5, <2>1, <3>1
    <3>7. \A i \in 1..(L + 1 - stalled' - 1) : best' < Is(i)
      BY <1>1, <1>3, <1>5, <2>1, <3>1, <3>4
    <3> QED
      BY <1>1, <1>3, <2>1, <3>1, <3>3, <3>5, <3>6, <3>7
  <2> QED
    BY <2>3, <2>4
<1>11. After
  BY <1>9, <1>10
<1> QED
  BY <1>1, <1>2, <1>4, <1>8, <1>11

\* The counters after a round whose output is a new one.
CountersFit ==
    /\ log \in Seq(Round) /\ log # <<>> /\ rounds = Len(log) /\ stalled \in Nat /\ LowFound
    /\ \A j \in 1..(Len(log) - 1) : log[j].out # log[Len(log)].out

\* There the counters say what the history says.
LEMMA CountersDecide == CountersFit => (ShouldStop <=> rounds >= MaxRounds \/ stalled >= StallRounds)
<1> SUFFICES ASSUME CountersFit PROVE ShouldStop <=> rounds >= MaxRounds \/ stalled >= StallRounds
  OBVIOUS
<1> USE DEF CountersFit
<1> DEFINE L == Len(log)
           p == L - stalled
<1>1. /\ L \in Nat \ {0} /\ stalled < L /\ p \in 1..L
      /\ \A k \in 1..L : Errors(k) \in Nat
  BY ErrorsPositive DEF LowFound
<1>2. /\ best = Errors(p)
      /\ \A i \in 1..L : best <= Errors(i)
      /\ \A i \in 1..(p - 1) : best < Errors(i)
  BY DEF LowFound
<1>3. StallRounds \in Nat \ {0} /\ MaxRounds \in Nat \ {0}
  BY HealAssumption
<1>4. ASSUME stalled < StallRounds
      PROVE  ~ \A j \in (L - StallRounds + 1)..L : \E i \in 1..(j - 1) : Errors(i) <= Errors(j)
  <2>1. p \in (L - StallRounds + 1)..L
    BY <1>1, <1>3, <1>4
  <2>2. ASSUME NEW i \in 1..(p - 1) PROVE ~(Errors(i) <= Errors(p))
    <3>1. i \in 1..L /\ Errors(i) \in Nat /\ Errors(p) \in Nat
      BY <1>1
    <3> QED
      BY <1>2, <3>1
  <2> QED
    BY <2>1, <2>2
<1>5. ASSUME stalled >= StallRounds
      PROVE  /\ L > StallRounds
             /\ \A j \in (L - StallRounds + 1)..L : \E i \in 1..(j - 1) : Errors(i) <= Errors(j)
  <2>1. \A j \in (L - StallRounds + 1)..L : j \in 1..L /\ p \in 1..(j - 1)
    BY <1>1, <1>3, <1>5
  <2>2. \A j \in 1..L : Errors(p) <= Errors(j)
    BY <1>2
  <2> QED
    BY <1>1, <1>3, <1>5, <2>1, <2>2
<1> QED
  BY <1>1, <1>3, <1>4, <1>5 DEF ShouldStop

\* A build that fails.
LEMMA RoundKept ==
    ASSUME HealInv, NEW e \in Outputs, BuildFails(e)
    PROVE  HealInv'
<1> DEFINE n == NumErrors(e)
           L == Len(log)
           r == [tree |-> work, out |-> e]
<1>1. /\ place = "build" /\ log \in Seq(Round) /\ work \in Tree /\ log' = Append(log, r)
      /\ rounds = L /\ seen = {log[k].out : k \in 1..L} /\ rounds' = L + 1
      /\ best \in Nat /\ stalled \in Nat /\ seen \subseteq Outputs
      /\ rounds < MaxRounds /\ stalled < StallRounds /\ LowFound
      /\ UNCHANGED <<attempt, index, work, bestErrs, bestDiff>>
  BY DEF BuildFails, ProgressStep, Step, HealInv, TypeOK, CountStands, LowStands, treeVars, bestVars
<1>2. /\ log' \in Seq(Round) /\ log' # <<>> /\ L \in Nat /\ Len(log') = L + 1
      /\ \A k \in 1..L : log'[k] = log[k]
      /\ log'[L + 1] = r
  BY <1>1, OneMoreRound DEF Round
<1>3. n \in Nat \ {0} /\ StallRounds \in Nat \ {0} /\ MaxRounds \in Nat \ {0}
  BY HealAssumption
<1>4. /\ e \in seen => place' = "stopped" /\ UNCHANGED <<best, stalled, seen>>
      /\ e \notin seen => /\ seen' = seen \cup {e}
                          /\ place' = IF Stops THEN "stopped" ELSE "healing"
  BY DEF BuildFails, ProgressStep, Step
<1>5. /\ work # Unchanged /\ (roundErrs = 0 \/ n < roundErrs) => roundErrs' = n /\ roundDiff' = work
      /\ ~(work # Unchanged /\ (roundErrs = 0 \/ n < roundErrs)) => UNCHANGED <<roundErrs, roundDiff>>
  BY DEF BuildFails, RoundBest, roundVars
<1>6. /\ best' \in Nat /\ stalled' \in Nat
      /\ e \notin seen => LowFound'
  BY <1>1, <1>4, LowStep
<1>7. \A k \in 1..L : Errors(k) \in Nat \ {0}
  BY <1>1, ErrorsPositive
<1>8. TypeOK'
  <2>1. roundErrs' \in Nat /\ roundDiff' \in Tree
    BY <1>1, <1>3, <1>5 DEF HealInv, TypeOK
  <2>2. place' \in {"stopped", "healing"} /\ seen' \subseteq Outputs
    BY <1>1, <1>4
  <2>3. rounds' \in 0..MaxRounds
    BY <1>1, <1>2, <1>3
  <2> QED
    BY <1>1, <1>2, <1>6, <2>1, <2>2, <2>3 DEF HealInv, TypeOK
<1>9. CountStands'
  <2>1. {log'[k].out : k \in 1..Len(log')} = {log[k].out : k \in 1..L} \cup {e}
    BY <1>2
  <2>2. e \in seen => seen \cup {e} = seen
    OBVIOUS
  <2> QED
    BY <1>1, <1>2, <1>4, <2>1, <2>2 DEF CountStands
<1>10. IndexStands' /\ LastStands'
  BY <1>1, <1>2 DEF HealInv, IndexStands, LastStands
<1>11. RoundStands'
  <2>1. /\ \A k \in 1..L : NumErrors(log'[k].out) = Errors(k) /\ log'[k].tree = log[k].tree
        /\ NumErrors(log'[L + 1].out) = n /\ log'[L + 1].tree = work
    BY <1>2 DEF Errors
  <2>2. /\ \A k \in 1..L : log[k].tree # Unchanged => roundErrs \in 1..Errors(k)
        /\ roundErrs # 0 => \E j \in 1..L : log[j].tree = roundDiff /\ Errors(j) = roundErrs
        /\ roundErrs \in Nat
    BY DEF HealInv, RoundStands, TypeOK
  <2> HIDE DEF n, L, r
  <2>3. CASE work # Unchanged /\ (roundErrs = 0 \/ n < roundErrs)
    <3>1. \A k \in 1..L : log[k].tree # Unchanged => n \in 1..Errors(k)
      BY <1>3, <1>7, <2>2, <2>3
    <3>2. \A k \in 1..(L + 1) : log'[k].tree # Unchanged => n \in 1..NumErrors(log'[k].out)
      BY <1>2, <1>3, <2>1, <3>1
    <3>3. L + 1 \in 1..(L + 1)
      BY <1>2
    <3> QED
      BY <1>2, <1>5, <2>1, <2>3, <3>2, <3>3 DEF RoundStands, Errors
  <2>4. CASE ~(work # Unchanged /\ (roundErrs = 0 \/ n < roundErrs))
    <3>1. roundErrs' = roundErrs /\ roundDiff' = roundDiff
      BY <1>5, <2>4
    <3>2. work # Unchanged => roundErrs \in 1..n
      BY <1>3, <2>2, <2>4
    <3>3. \A k \in 1..(L + 1) : log'[k].tree # Unchanged => roundErrs \in 1..NumErrors(log'[k].out)
      BY <1>2, <2>1, <2>2, <3>2
    <3>4. roundErrs # 0 =>
            \E j \in 1..(L + 1) : log'[j].tree = roundDiff /\ NumErrors(log'[j].out) = roundErrs
      <4>1. \A j \in 1..L : j \in 1..(L + 1)
        BY <1>2
      <4> QED
        BY <2>1, <2>2, <4>1
    <3> QED
      BY <1>2, <3>1, <3>3, <3>4 DEF RoundStands, Errors
  <2> QED
    BY <2>3, <2>4
<1>12. e \in seen <=> \E j \in 1..L : log'[j].out = e
  BY <1>1, <1>2
<1>13. CASE e \in seen
  <2>1. place' = "stopped" /\ best' = best /\ stalled' = stalled
    BY <1>4, <1>13
  <2>2. StopsWhenItShould'
    BY <1>2, <1>12, <1>13, <2>1 DEF StopsWhenItShould, ShouldStop
  <2>3. LowStands' /\ NewStands'
    BY <2>1 DEF LowStands, NewStands
  <2>4. RoundsAreBounded'
    <3>1. log # <<>> /\ 1 \in 1..L
      BY <1>1, <1>2, <1>13
    <3>2. L <= 1 + StallRounds * (Errors(1) - best) + stalled
      BY <1>1, <3>1 DEF LowFound
    <3>3. NumErrors(log'[1].out) = Errors(1) /\ StallRounds * (Errors(1) - best) \in Int
      BY <1>1, <1>2, <1>3, <1>7, <3>1 DEF Errors
    <3>4. rounds' <= 2 + StallRounds * (NumErrors(log'[1].out) - best') + stalled'
      BY <1>1, <1>2, <2>1, <3>2, <3>3
    <3> QED
      BY <3>4 DEF RoundsAreBounded, Errors
  <2> QED
    BY <1>8, <1>9, <1>10, <1>11, <2>2, <2>3, <2>4 DEF HealInv
<1>14. CASE e \notin seen
  <2>1. LowFound' /\ place' = IF Stops THEN "stopped" ELSE "healing"
    BY <1>4, <1>6, <1>14
  <2>2. \A j \in 1..(Len(log') - 1) : log'[j].out # log'[Len(log')].out
    BY <1>2, <1>12, <1>14
  <2>3. ShouldStop' <=> Stops
    <3>1. rounds' = Len(log')
      BY <1>1, <1>2
    <3>2. CountersFit'
      BY <1>2, <1>6, <2>1, <2>2, <3>1 DEF CountersFit
    <3>3. (CountersFit => (ShouldStop <=> rounds >= MaxRounds \/ stalled >= StallRounds))'
      BY CountersDecide, PTL
    <3> QED
      BY <3>2, <3>3 DEF Stops
  <2>4. StopsWhenItShould'
    BY <2>1, <2>3 DEF StopsWhenItShould
  <2>5. NewStands'
    BY <2>2 DEF NewStands
  <2>6. LowStands'
    BY <1>1, <1>2, <1>3, <1>6, <2>1 DEF LowStands, Stops
  <2>7. RoundsAreBounded'
    <3>1. rounds' <= 1 + StallRounds * (Errors(1)' - best') + stalled'
      BY <1>2, <2>1 DEF LowFound
    <3>2. NumErrors(log'[1].out) \in Nat
      <4>1. 1 \in 1..Len(log') /\ log'[1] \in Round
        BY <1>2
      <4> QED
        BY <4>1, HealAssumption DEF Round
    <3>3. StallRounds * (NumErrors(log'[1].out) - best') \in Int
      BY <1>3, <1>6, <3>2
    <3>4. rounds' <= 1 + StallRounds * (NumErrors(log'[1].out) - best') + stalled'
      BY <3>1 DEF Errors
    <3>5. rounds' <= 2 + StallRounds * (NumErrors(log'[1].out) - best') + stalled'
      BY <1>1, <1>2, <1>6, <3>3, <3>4
    <3> QED
      BY <3>5 DEF RoundsAreBounded, Errors
  <2> QED
    BY <1>8, <1>9, <1>10, <1>11, <2>4, <2>5, <2>6, <2>7 DEF HealInv
<1> QED
  BY <1>13, <1>14

-----------------------------------------------------------------------------
(* The theorems.                                                           *)

\* Nothing is built yet.
LEMMA Starts == Init => HealInv
<1> SUFFICES ASSUME Init PROVE HealInv
  OBVIOUS
<1>1. TypeOK
  BY UnchangedIsTree, HealAssumption DEF Init, TypeOK, Unchanged, Tree, Version
<1>2. CountStands /\ LowStands /\ NewStands /\ RoundStands /\ LastStands /\ IndexStands
  BY DEF Init, CountStands, LowStands, NewStands, RoundStands, LastStands, IndexStands
<1>3. StopsWhenItShould /\ RoundsAreBounded
  BY DEF Init, StopsWhenItShould, RoundsAreBounded
<1> QED
  BY <1>1, <1>2, <1>3 DEF HealInv

\* A step that changes nothing.
LEMMA StutterKept == HealInv /\ UNCHANGED vars => HealInv'
<1> SUFFICES ASSUME HealInv, UNCHANGED vars PROVE HealInv'
  OBVIOUS
<1>1. UNCHANGED <<place, attempt, index, work, rounds, best, stalled, seen, roundErrs, roundDiff,
                  bestErrs, bestDiff, log>>
  BY DEF vars, treeVars, progressVars, roundVars, bestVars
<1>2. TypeOK' /\ CountStands' /\ NewStands' /\ LastStands' /\ IndexStands'
  BY <1>1 DEF HealInv, TypeOK, CountStands, NewStands, LastStands, IndexStands
<1>3. LowStands' /\ RoundStands' /\ RoundsAreBounded'
  BY <1>1 DEF HealInv, LowStands, LowFound, RoundStands, RoundsAreBounded, Errors
<1>4. StopsWhenItShould'
  BY <1>1 DEF HealInv, StopsWhenItShould, ShouldStop, Errors
<1> QED
  BY <1>2, <1>3, <1>4 DEF HealInv

\* healProgress's counters, the log and the remembered trees agree in every state.
THEOREM HealInvHolds == Spec => []HealInv
<1>1. HealInv /\ Next => HealInv'
  BY OutsideKept, AfterLoopKept, RoundKept DEF Next
<1>2. HealInv /\ [Next]_vars => HealInv'
  BY <1>1, StutterKept
<1> QED
  BY Starts, <1>2, PTL DEF Spec

\* Whatever the builds print, healProgress stops an attempt exactly when its history says
\* so, and the errors of its first round bound its rounds.
THEOREM LoopStopsInTime == Spec => []HealsLongEnough
<1>1. HealInv => HealsLongEnough
  BY DEF HealInv, HealsLongEnough
<1> QED
  BY <1>1, HealInvHolds, PTL

\* The tree the loop puts back at its end is one it built, and no better one was built.
THEOREM LoopKeepsTheBest == Spec => []RoundBestIsBest
<1>1. HealInv => RoundBestIsBest
  <2> SUFFICES ASSUME HealInv, NEW k \in 1..Len(log), log[k].tree # Unchanged
               PROVE  /\ roundErrs \in 1..Errors(k)
                      /\ \E j \in 1..Len(log) : log[j].tree = roundDiff /\ Errors(j) = roundErrs
    BY DEF RoundBestIsBest
  <2>1. Errors(k) \in Nat
    BY ErrorsPositive DEF HealInv, TypeOK
  <2>2. roundErrs \in 1..Errors(k)
    BY DEF HealInv, RoundStands
  <2>3. roundErrs # 0
    BY <2>1, <2>2
  <2> QED
    BY <2>2, <2>3 DEF HealInv, RoundStands
<1> QED
  BY <1>1, HealInvHolds, PTL

\* Only the two ends of the loop write what the task remembers, and only for fewer errors.
LEMMA RememberStep ==
    ASSUME [Next]_vars, bestVars' # bestVars
    PROVE  /\ PutBackRound \/ KeepLastRound
           /\ bestErrs = 0 \/ bestErrs' < bestErrs
<1>1. PutBackRound \/ KeepLastRound
  BY DEF Next, vars, Begin, Code, BuildPasses, BuildFails, Heal, HealerGivesUp
<1>2. \A i, w, n : Leave(i, w, n) => bestErrs' = n /\ bestDiff' = w /\ (bestErrs = 0 \/ n < bestErrs)
  BY DEF Leave, RememberIfBest
<1>3. \E i, w, n : Leave(i, w, n)
  BY <1>1 DEF PutBackRound, KeepLastRound
<1> QED
  BY <1>1, <1>2, <1>3

\* What an attempt leaves remembered is better than what was.  In the first attempt nothing
\* is staged, so that a diff put back is what was built: the number remembered with a tree
\* is the one a build printed for it (rememberIfBest).
THEOREM RememberedImproves == Spec => RememberedIsBest
<1>1. HealInv /\ [Next]_vars =>
        [bestVars' # bestVars =>
            /\ bestErrs = 0 \/ bestErrs' < bestErrs
            /\ attempt = 1 =>
                 \E k \in 1..Len(log) : log[k].tree = bestDiff' /\ Errors(k) = bestErrs']_vars
  <2> SUFFICES ASSUME HealInv, [Next]_vars, bestVars' # bestVars
               PROVE  /\ bestErrs = 0 \/ bestErrs' < bestErrs
                      /\ attempt = 1 =>
                           \E k \in 1..Len(log) : log[k].tree = bestDiff' /\ Errors(k) = bestErrs'
    OBVIOUS
  <2> SUFFICES ASSUME attempt = 1
               PROVE  \E k \in 1..Len(log) : log[k].tree = bestDiff' /\ Errors(k) = bestErrs'
    BY RememberStep
  <2>1. PutBackRound \/ KeepLastRound
    BY RememberStep
  <2>2. \A i, w, n : Leave(i, w, n) => bestErrs' = n /\ bestDiff' = w
    BY DEF Leave, RememberIfBest
  <2>3. place = "stopped" /\ index = Unchanged /\ work \in Tree /\ roundDiff \in Tree
    BY <2>1 DEF PutBackRound, KeepLastRound, HealInv, IndexStands, TypeOK
  <2>4. CASE PutBackRound
    <3>1. Checkout(index, work) = Unchanged
      BY <2>3, CleanMerge
    <3>2. /\ Applicable(roundDiff, index, Unchanged) /\ ~Conflicts(roundDiff, index)
          /\ MergeFiles(roundDiff, index, Unchanged) = roundDiff
      BY <2>3, CleanMerge
    <3>3. Leave(Merge(roundDiff, index), roundDiff, roundErrs)
      BY <2>4, <3>1, <3>2 DEF PutBackRound
    <3>4. roundErrs # 0
      BY <2>4 DEF PutBackRound, IsWorthPuttingBack, HealInv, TypeOK
    <3> QED
      BY <2>2, <3>3, <3>4 DEF HealInv, RoundStands
  <2>5. CASE KeepLastRound
    <3>1. Leave(index, work, lastErrs)
      BY <2>5 DEF KeepLastRound
    <3>2. log \in Seq(Round) /\ log # <<>> /\ log[Len(log)].tree = work
      BY <2>3 DEF HealInv, TypeOK, LastStands
    <3>3. Len(log) \in 1..Len(log)
      BY <3>2
    <3> QED
      BY <2>2, <3>1, <3>2, <3>3 DEF lastErrs, Errors
  <2> QED
    BY <2>1, <2>4, <2>5
<1> QED
  BY <1>1, HealInvHolds, PTL DEF Spec, RememberedIsBest
=============================================================================
