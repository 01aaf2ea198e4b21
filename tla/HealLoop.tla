------------------------------ MODULE HealLoop ------------------------------
(***************************************************************************)
(* Verification with self-healing (stepVerification and healProgress), and *)
(* what it leaves to the next attempt (rememberIfBest, restoreBest).       *)
(*                                                                         *)
(* A build that fails prints errors, the healer changes files, the build   *)
(* runs again.  healProgress decides by counting when to stop.  The tree   *)
(* of the round with the fewest errors is put back and remembered, and the *)
(* next attempt begins with it.                                            *)
(*                                                                         *)
(* Files are tracked ones, each in one of a few versions, staged or not.   *)
(***************************************************************************)
EXTENDS Integers, Sequences, FiniteSets, Functions

CONSTANTS
    File,           \* the files
    Edited,         \* what a file may be changed to
    Base,           \* the version of HEAD
    Conflict,       \* a file with conflict markers
    Unmerged,       \* an index entry in conflict
    Line,           \* the error lines a build can print
    Outputs,        \* what failing builds print: how often each line
    StallRounds,    \* SWARM_HEAL_STALL
    MaxRounds,      \* SWARM_HEAL_MAX
    Attempts        \* attempts of the task that run into this loop

Version == Edited \cup {Base, Conflict}
Tree == [File -> Version]
Unchanged == [f \in File |-> Base]

\* len(errs) of an output
NumErrors(e) == SumFunction(e)

ASSUME HealAssumption ==
    /\ Base \notin Edited /\ Conflict \notin Edited \cup {Base}
    /\ Unmerged \notin Version
    /\ IsFiniteSet(Line) /\ Outputs \subseteq [Line -> Nat]
    /\ StallRounds \in Nat \ {0} /\ MaxRounds \in Nat \ {0} /\ Attempts \in Nat \ {0}
    \* a failure without a readable line is turned into one line
    /\ \A e \in Outputs : NumErrors(e) \in Nat \ {0}

VARIABLES
    place, attempt,
    index, work,        \* the worktree
    rounds, best, stalled, seen,    \* healProgress
    roundErrs, roundDiff,           \* roundBestErrs (0: none) and roundBestDiff
    bestErrs, bestDiff,             \* of the task: bestErrors (0: none) and bestDiff
    log                 \* every round of this attempt: what was built, what it printed

progressVars == <<rounds, best, stalled, seen>>
roundVars == <<roundErrs, roundDiff>>
bestVars == <<bestErrs, bestDiff>>
treeVars == <<index, work>>
vars == <<place, attempt, treeVars, progressVars, roundVars, bestVars, log>>

Round == [tree : Tree, out : Outputs]

TypeOK ==
    /\ place \in {"begin", "coding", "build", "healing", "stopped", "over"}
    /\ attempt \in 1..Attempts
    /\ index \in [File -> Version \cup {Unmerged}]
    /\ {work, roundDiff, bestDiff} \subseteq Tree
    /\ rounds \in 0..MaxRounds
    /\ {best, stalled, roundErrs, bestErrs} \subseteq Nat
    /\ seen \subseteq Outputs
    /\ log \in Seq(Round)

Init ==
    /\ place = "begin" /\ attempt = 1
    /\ index = Unchanged /\ work = Unchanged
    /\ rounds = 0 /\ best = 0 /\ stalled = 0 /\ seen = {}
    /\ roundErrs = 0 /\ roundDiff = Unchanged
    /\ bestErrs = 0 /\ bestDiff = Unchanged
    /\ log = <<>>
-----------------------------------------------------------------------------
(* git                                                                     *)

\* git checkout . refuses to do anything while an entry is unmerged.
Checkout(i, w) == IF \E f \in File : i[f] = Unmerged THEN w ELSE i

Touched(d) == {f \in File : d[f] # Base}

\* git apply --3way d, over an index that agrees with the files d touches: the index
\* after it.  A file that is staged otherwise is left in conflict.
Merge(d, i) ==
    [f \in File |-> IF f \notin Touched(d) THEN i[f]
                    ELSE IF i[f] \in {Base, d[f]} THEN d[f] ELSE Unmerged]

\* ... and the files after it, where they were w.
MergeFiles(d, i, w) ==
    [f \in File |-> IF f \notin Touched(d) THEN w[f]
                    ELSE IF i[f] \in {Base, d[f]} THEN d[f] ELSE Conflict]

Applicable(d, i, w) == \A f \in Touched(d) : i[f] = w[f]

Conflicts(d, i) == \E f \in Touched(d) : i[f] \notin {Base, d[f]}

-----------------------------------------------------------------------------
(* The attempts around the loop.                                           *)

NextAttempt ==
    IF attempt < Attempts
    THEN place' = "begin" /\ attempt' = attempt + 1
    ELSE place' = "over" /\ UNCHANGED attempt

\* restoreBest: never over changes, so that the diff always applies.
Begin ==
    /\ place = "begin"
    /\ place' = "coding"
    /\ IF bestErrs > 0 /\ attempt > 1 /\ index = Unchanged /\ work = Unchanged
       THEN index' = bestDiff /\ work' = bestDiff
       ELSE UNCHANGED treeVars
    /\ UNCHANGED <<attempt, progressVars, roundVars, bestVars, log>>

\* The coder writes some files; a new loop starts.
Code ==
    /\ place = "coding"
    /\ place' = "build"
    /\ work' \in {w \in Tree : \A f \in File : w[f] \in Edited \cup {Base, work[f]}}
    /\ rounds' = 0 /\ best' = 0 /\ stalled' = 0 /\ seen' = {}
    /\ roundErrs' = 0 /\ roundDiff' = Unchanged
    /\ log' = <<>>
    /\ UNCHANGED <<attempt, index, bestVars>>

\* The build passes; a review that rejects keeps the files.
BuildPasses ==
    /\ place = "build"
    /\ NextAttempt
    /\ UNCHANGED <<treeVars, progressVars, roundVars, bestVars, log>>

-----------------------------------------------------------------------------
(* One round of the loop.                                                  *)

Stops == rounds' >= MaxRounds \/ stalled' >= StallRounds

\* healProgress.step for output e.
Step(e, improves) ==
    LET n == NumErrors(e) IN
    /\ rounds' = rounds + 1
    /\ IF e \in seen
       THEN /\ place' = "stopped"
            /\ UNCHANGED <<best, stalled, seen>>
       ELSE /\ seen' = seen \cup {e}
            /\ best' = IF rounds = 0 \/ n < best THEN n ELSE best
            /\ stalled' = IF rounds = 0 THEN stalled
                          ELSE IF improves THEN 0 ELSE stalled + 1
            /\ place' = IF Stops THEN "stopped" ELSE "healing"

\* Mutant: progress does not end a stall.
StepStallStays(e) ==
    LET n == NumErrors(e) IN
    /\ rounds' = rounds + 1
    /\ IF e \in seen
       THEN /\ place' = "stopped"
            /\ UNCHANGED <<best, stalled, seen>>
       ELSE /\ seen' = seen \cup {e}
            /\ best' = IF rounds = 0 \/ n < best THEN n ELSE best
            /\ stalled' = IF rounds = 0 \/ n < best THEN stalled ELSE stalled + 1
            /\ place' = IF Stops THEN "stopped" ELSE "healing"

ProgressStep(e) == Step(e, NumErrors(e) < best)

\* Mutant: the tree of the last round that beats the one before it.
RoundBestOfLast(e) ==
    IF work # Unchanged /\ (log = <<>> \/ NumErrors(e) <= NumErrors(log[Len(log)].out))
    THEN roundErrs' = NumErrors(e) /\ roundDiff' = work
    ELSE UNCHANGED roundVars

\* The tree of the round with the fewest errors, among the rounds with a diff.
RoundBest(e) ==
    IF work # Unchanged /\ (roundErrs = 0 \/ NumErrors(e) < roundErrs)
    THEN roundErrs' = NumErrors(e) /\ roundDiff' = work
    ELSE UNCHANGED roundVars

BuildFails(e) ==
    /\ place = "build"
    /\ log' = Append(log, [tree |-> work, out |-> e])
    /\ RoundBest(e)
    /\ ProgressStep(e)
    /\ UNCHANGED <<attempt, treeVars, bestVars>>

\* The healer edits the files it may edit.
Heal ==
    /\ place = "healing"
    /\ place' = "build"
    /\ work' \in {w \in Tree : \A f \in File : w[f] \in Edited \cup {Base, work[f]}}
    /\ UNCHANGED <<attempt, index, progressVars, roundVars, bestVars, log>>

\* It crashes or aborts: nothing is remembered.
HealerGivesUp ==
    /\ place = "healing"
    /\ work' = Checkout(index, work)
    /\ NextAttempt
    /\ UNCHANGED <<index, progressVars, roundVars, bestVars, log>>

-----------------------------------------------------------------------------
(* After the loop.                                                         *)

lastErrs == NumErrors(log[Len(log)].out)

\* rememberIfBest(n) over files w.
RememberIfBest(n, w) ==
    IF w # Unchanged /\ (bestErrs = 0 \/ n < bestErrs)
    THEN bestErrs' = n /\ bestDiff' = w
    ELSE UNCHANGED bestVars

\* Put back what was best, remember it, check out; i and w are the tree to leave.
Leave(i, w, n) ==
    /\ RememberIfBest(n, w)
    /\ index' = i
    /\ work' = Checkout(i, w)
    /\ NextAttempt
    /\ UNCHANGED <<progressVars, roundVars, log>>

IsWorthPuttingBack == roundErrs > 0 /\ roundErrs < lastErrs

\* Mutant: the number of the better round goes with the tree of the last one.
PutBackNumberOnly ==
    /\ place = "stopped"
    /\ IsWorthPuttingBack
    /\ Leave(index, work, roundErrs)

\* An earlier round was better: its diff is applied over a checkout.  In conflict, or
\* when it does not apply, the last round's number goes with whatever is there.
PutBackRound ==
    /\ place = "stopped"
    /\ IsWorthPuttingBack
    /\ LET w == Checkout(index, work) IN
       IF Applicable(roundDiff, index, w)
       THEN Leave(Merge(roundDiff, index), MergeFiles(roundDiff, index, w),
                  IF Conflicts(roundDiff, index) THEN lastErrs ELSE roundErrs)
       ELSE Leave(index, w, lastErrs)

KeepLastRound ==
    /\ place = "stopped"
    /\ ~IsWorthPuttingBack
    /\ Leave(index, work, lastErrs)

Next ==
    \/ Begin \/ Code \/ BuildPasses
    \/ \E e \in Outputs : BuildFails(e)
    \/ Heal \/ HealerGivesUp
    \/ PutBackRound \/ KeepLastRound

Spec == Init /\ [][Next]_vars

-----------------------------------------------------------------------------
(* Properties.                                                             *)

Errors(k) == NumErrors(log[k].out)

\* What the loop promises in terms of everything it saw: it stops when an output came
\* back, when StallRounds rounds in a row did not beat all rounds before them, or at
\* the cap.
ShouldStop ==
    \/ \E j \in 1..(Len(log) - 1) : log[j].out = log[Len(log)].out
    \/ /\ Len(log) > StallRounds
       /\ \A j \in (Len(log) - StallRounds + 1)..Len(log) :
             \E i \in 1..(j - 1) : Errors(i) <= Errors(j)
    \/ Len(log) >= MaxRounds

\* The counters of healProgress decide exactly that: no attempt stops while it makes
\* progress, and none goes on without.
StopsWhenItShould ==
    /\ place = "healing" => ~ShouldStop
    /\ place = "stopped" => ShouldStop

\* The cap is only a backstop: every round is paid for, by a new low of the errors or by
\* one of the StallRounds chances a low gives, so that the errors of the first round
\* bound the rounds of an attempt.
RoundsAreBounded ==
    log # <<>> => rounds <= 2 + StallRounds * (Errors(1) - best) + stalled

\* An attempt heals neither too short nor too long: the counters stop it exactly when
\* its history says so, which is within the rounds its errors pay for.
HealsLongEnough == TypeOK /\ StopsWhenItShould /\ RoundsAreBounded

\* What is put back is a round of this attempt, and no round left fewer errors.
RoundBestIsBest ==
    place = "stopped" =>
        \A k \in 1..Len(log) : log[k].tree # Unchanged =>
            /\ roundErrs \in 1..Errors(k)
            /\ \E j \in 1..Len(log) : log[j].tree = roundDiff /\ Errors(j) = roundErrs

\* An attempt replaces the remembered tree only by a better one, and the number of errors
\* remembered with it is the number a build printed for it: in the first attempt.  (The
\* index of a later one holds the restored diff: putting a round back can then conflict,
\* and a tree that no build has seen is remembered.)
RememberedIsBest ==
    [][bestVars' # bestVars =>
        /\ bestErrs = 0 \/ bestErrs' < bestErrs
        /\ attempt = 1 => \E k \in 1..Len(log) : log[k].tree = bestDiff' /\ Errors(k) = bestErrs']_vars
=============================================================================
