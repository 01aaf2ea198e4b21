------------------------------ MODULE TaskFlow ------------------------------
(***************************************************************************)
(* One task from claim to result: taskContext.execute() with its three     *)
(* attempts (planning, coding, verification, review), the hand-over to a   *)
(* human, and the second execution that ships what the human approved.     *)
(*                                                                         *)
(* The work copy is a git worktree, and what the properties are about is   *)
(* which edits are staged and which are only in the files.  An edit stands *)
(* for a change of one file; a new file is untracked until something       *)
(* stages it.  A diff is the set of edits it shows.                        *)
(*                                                                         *)
(* Models, builds, critics and reviewers answer whatever they like.        *)
(***************************************************************************)
EXTENDS Naturals

CONSTANTS
    Edit,           \* the changes anybody may make, one per file
    NewFile,        \* ... and those whose file does not exist in HEAD
    Plans,          \* the sets of files a plan may name (named or pointed at)
    Cosmetic,       \* the diffs that change nothing but white space
    AutoPR,         \* SWARM_AUTO_PR_ALLOW names the repository
    PushAllowed,    \* pushAllowed(repo)
    Approvable,     \* the statuses in which humans approve in this instance
    MaxRuns,        \* bound: executions of the task
    Nothing         \* no branch was pushed, no tree built, no diff let through

Attempts == 3

ASSUME FlowAssumption ==
    /\ NewFile \subseteq Edit
    /\ Plans \subseteq SUBSET Edit
    /\ Cosmetic \subseteq SUBSET Edit
    /\ AutoPR \in BOOLEAN
    /\ PushAllowed \in BOOLEAN
    /\ MaxRuns \in Nat
    \* the doors refuse while the task runs
    /\ "RUNNING" \notin Approvable
    /\ \A d \in SUBSET Edit : d # Nothing

Diff == SUBSET Edit

VARIABLES
    \* the row of the task
    status,         \* its status
    proposed,       \* its proposed_diff
    \* the execution (taskContext)
    place,          \* where execute() stands
    attempt,        \* the attempt that runs; Attempts + 1 once the loop is over
    approved,       \* isApproved
    repo,           \* repoPath: "none", "live", or "stale" (a directory that is gone)
    plan,           \* current_plan
    fromAnalysis,   \* planFromAnalysis
    clean,          \* verifiedClean
    best,           \* bestDiff
    rejected,       \* lastRejectedDiff
    diff,           \* finalDiff, and the argument of handOver
    \* the worktree: what the index and the files hold beyond HEAD
    index, work,
    \* the branch on GitHub
    remote,         \* the edits of the last branch that was pushed
    pusher,         \* the path that pushed it
    \* bookkeeping of the model
    runs,           \* executions so far
    humanYes,       \* a human approved the task at least once
    seen,           \* the diff the last approval was given to
    passed,         \* the tree that passed the build of this attempt, or Nothing
    gated           \* the last diff that passed every gate of handOver, or Nothing

rowVars == <<status, proposed>>
treeVars == <<index, work>>
localVars == <<attempt, approved, repo, plan, fromAnalysis, clean, best, rejected, diff>>
remoteVars == <<remote, pusher>>
humanVars == <<runs, humanYes, seen>>
checkVars == <<passed, gated>>
vars == <<rowVars, place, localVars, treeVars, remoteVars, humanVars, checkVars>>

Settled == {"COMPLETED", "FAILED", "WAITING_APPROVAL"}

Place == {"idle", "start", "analysis", "attempt", "planning", "trimming", "coding",
          "verifying", "reviewing", "judging", "exhausted", "handing", "publishing"}

TypeOK ==
    /\ status \in {"PENDING", "RUNNING", "APPROVED"} \cup Settled
    /\ proposed \in Diff
    /\ place \in Place
    /\ attempt \in 0..(Attempts + 1)
    /\ approved \in BOOLEAN
    /\ repo \in {"none", "live", "stale"}
    /\ plan \in Diff
    /\ fromAnalysis \in BOOLEAN
    /\ clean \in BOOLEAN
    /\ {best, rejected, diff, index, work, seen} \subseteq Diff
    /\ {remote, passed, gated} \subseteq Diff \cup {Nothing}
    /\ pusher \in {"nobody", "ship", "redo", "auto"}
    /\ runs \in 0..MaxRuns
    /\ humanYes \in BOOLEAN

Init ==
    /\ status = "PENDING" /\ proposed = {}
    /\ place = "idle" /\ attempt = 0 /\ approved = FALSE
    /\ repo = "none" /\ plan = {} /\ fromAnalysis = FALSE
    /\ clean = FALSE /\ best = {} /\ rejected = {} /\ diff = {}
    /\ index = {} /\ work = {}
    /\ remote = Nothing /\ pusher = "nobody"
    /\ runs = 0 /\ humanYes = FALSE /\ seen = {}
    /\ passed = Nothing /\ gated = Nothing

-----------------------------------------------------------------------------
(* git, for a worktree with index i and files w.                           *)

\* git diff HEAD: a new file shows only once it is staged.
DiffHead(i, w) == {e \in w : e \notin NewFile \/ e \in i}

\* git checkout . : the files go back to the index, untracked files stay.
Checkout(i, w) == i \cup (w \cap NewFile)

\* git status --porcelain --untracked-files=no prints nothing.
IsTrackedClean(i, w) == i = {} /\ w \subseteq NewFile

\* git apply --3way d: every file of d has to match the index, and a new file must
\* not be there already unless it is staged.
Applies(d, i, w) == \A e \in d : e \in i <=> e \in w

\* currentDiff(): nothing without a worktree, nothing when only white space changed.
CurrentDiff(i, w) ==
    IF repo = "live" /\ DiffHead(i, w) \notin Cosmetic THEN DiffHead(i, w) ELSE {}

-----------------------------------------------------------------------------
(* How the steps of execute() end.                                         *)

NewContext ==
    /\ attempt' = 0
    /\ repo' = "none"
    /\ plan' = {}
    /\ fromAnalysis' = FALSE
    /\ clean' = FALSE
    /\ best' = {}
    /\ rejected' = {}
    /\ diff' = {}
    /\ index' = {}
    /\ work' = {}

\* execute() returns, its workspace is removed and the worker reports.
Finish(s) ==
    /\ status' = s
    /\ place' = "idle"
    /\ approved' = FALSE
    /\ passed' = Nothing
    /\ NewContext

Fail == Finish("FAILED") /\ UNCHANGED <<proposed, remoteVars, humanVars, gated>>

\* `continue`: the next attempt, or the code after the loop.
Again ==
    /\ attempt' = attempt + 1
    /\ place' = IF attempt < Attempts THEN "attempt" ELSE "exhausted"
    /\ diff' = {}

\* errRetryPlanning: on to the next attempt with files w; the last attempt has no
\* other to go to.
Retry(w) ==
    IF attempt < Attempts
    THEN /\ Again
         /\ work' = w
         /\ UNCHANGED <<rowVars, approved, repo, plan, fromAnalysis, clean, best, rejected,
                        index, remoteVars, humanVars, checkVars>>
    ELSE Fail

\* PushApprovedChangesOpt on files w: refused, nothing to commit, blocked by the
\* guard, not pushed, pushed without a PR (an error too), pushed with one.
Push(w, by, ok) ==
    LET canPush == PushAllowed /\ w # {} IN
    /\ ok => PushAllowed
    /\ \/ /\ canPush
          /\ remote' = w
          /\ pusher' = by
       \/ /\ canPush => ~ok
          /\ UNCHANGED remoteVars

-----------------------------------------------------------------------------
(* Around the execution: the queue and the humans.                         *)

Pick ==
    /\ status \in {"PENDING", "APPROVED"}
    /\ runs < MaxRuns
    /\ runs' = runs + 1
    /\ approved' = (status = "APPROVED")
    /\ status' = "RUNNING"
    /\ place' = "start"
    /\ UNCHANGED <<proposed, attempt, repo, plan, fromAnalysis, clean, best, rejected,
                   diff, treeVars, remoteVars, humanYes, seen, checkVars>>

Approve ==
    /\ status \in Approvable
    /\ status' = "APPROVED"
    /\ humanYes' = TRUE
    /\ seen' = proposed
    /\ UNCHANGED <<proposed, place, localVars, treeVars, remoteVars, runs, checkVars>>

Reject ==
    /\ status \in Settled
    /\ status' = "PENDING"
    /\ UNCHANGED <<proposed, place, localVars, treeVars, remoteVars, humanVars, checkVars>>

\* The process dies during the execution; ResetRunningToPending.
Crash ==
    /\ status = "RUNNING"
    /\ Finish("PENDING")
    /\ UNCHANGED <<proposed, remoteVars, humanVars, gated>>

-----------------------------------------------------------------------------
(* shipReviewedDiff.                                                       *)

NotApproved ==
    /\ place = "start"
    /\ ~approved
    /\ place' = "analysis"
    /\ UNCHANGED <<rowVars, localVars, treeVars, remoteVars, humanVars, checkVars>>

\* Nothing stored, no repository named, no workspace: the usual flow.
ShipNothing ==
    /\ place = "start"
    /\ approved
    /\ place' = "analysis"
    /\ UNCHANGED <<rowVars, localVars, treeVars, remoteVars, humanVars, checkVars>>

\* The worktree cannot be made or the diff does not apply: the usual flow, with
\* repoPath naming a directory that the deferred Cleanup removes.
ShipFails ==
    /\ place = "start"
    /\ approved
    /\ proposed # {}
    /\ repo' = "stale"
    /\ place' = "analysis"
    /\ UNCHANGED <<rowVars, attempt, approved, plan, fromAnalysis, clean, best, rejected,
                   diff, treeVars, remoteVars, humanVars, checkVars>>

\* The stored diff is pushed; whatever the push says, the task is COMPLETED.
Ship ==
    /\ place = "start"
    /\ approved
    /\ proposed # {}
    /\ \E ok \in BOOLEAN : Push(proposed, "ship", ok)
    /\ Finish("COMPLETED")
    /\ UNCHANGED <<proposed, humanVars, gated>>

-----------------------------------------------------------------------------
(* Analysis and planning.                                                  *)

AnalysisFails == place = "analysis" /\ Fail

Analyse ==
    /\ place = "analysis"
    /\ attempt' = 1
    /\ place' = "attempt"
    /\ UNCHANGED <<rowVars, approved, repo, plan, fromAnalysis, clean, best, rejected,
                   diff, treeVars, remoteVars, humanVars, checkVars>>

\* ctx.Err(), or a human steered the task to a stop.
Stopped == place = "attempt" /\ Fail

\* restoreBest: only over files that show no change.
RestoreBest ==
    LET wanted == best # {} /\ attempt > 1 /\ repo = "live" /\ IsTrackedClean(index, work)
    IN  IF wanted /\ Applies(best, index, work)
        THEN /\ index' = index \cup best
             /\ work' = work \cup best
        ELSE UNCHANGED treeVars

StartAttempt(nowClean) ==
    /\ place = "attempt"
    /\ clean' = nowClean
    /\ passed' = Nothing
    /\ RestoreBest
    /\ place' = "planning"
    /\ UNCHANGED <<rowVars, attempt, approved, repo, plan, fromAnalysis, best, rejected,
                   diff, remoteVars, humanVars, gated>>

Begin == StartAttempt(FALSE)

\* No candidate of the vote is a plan, or an empty plan at the last attempt.
PlanUnreadable == place = "planning" /\ Fail

\* Mutant: a refused plan does not count as an attempt.
PlanRefusedForFree ==
    /\ place = "planning"
    /\ place' = "attempt"
    /\ UNCHANGED <<rowVars, localVars, treeVars, remoteVars, humanVars, checkVars>>

\* An empty plan, or one that misses a file the chain request points at: refused
\* before the workspace is set up.
PlanRefused ==
    /\ place = "planning"
    /\ attempt < Attempts
    /\ Retry(work)

\* needsWorkspaceSetup.
NeedsWorkspaceSetup == attempt = 1 \/ repo = "none"

\* No worktree, no build command, or a build that fails before anything changed.
SetupFails ==
    /\ place = "planning"
    /\ NeedsWorkspaceSetup
    /\ Fail

\* The plan is taken over and the worktree set up where that is needed.  Whether the
\* analysis names files to change is a fact of the analysis, seen at attempt 1.
Plan ==
    /\ place = "planning"
    /\ plan' \in Plans
    /\ fromAnalysis' \in IF attempt = 1 THEN BOOLEAN ELSE {fromAnalysis}
    /\ IF NeedsWorkspaceSetup
       THEN /\ repo' = "live"
            /\ index' = {}
            /\ work' = {}
       ELSE UNCHANGED <<repo, treeVars>>
    /\ place' = "trimming"
    /\ UNCHANGED <<rowVars, attempt, approved, clean, best, rejected, diff, remoteVars,
                   humanVars, checkVars>>

\* splitByRepoReality keeps no file of the plan; in a directory that is gone it never
\* keeps one.
NothingKept ==
    /\ place = "trimming"
    /\ repo # "none"
    /\ Retry(work)

Keep ==
    /\ place = "trimming"
    /\ repo # "stale"
    /\ place' = "coding"
    /\ UNCHANGED <<rowVars, localVars, treeVars, remoteVars, humanVars, checkVars>>

\* stopIfStateMissing, before the first line of code.
StateMissing ==
    /\ place = "coding"
    /\ attempt = 1
    /\ Fail

-----------------------------------------------------------------------------
(* Coding and verification.                                                *)

\* stepExecution and stepGateFix: the coder writes the files of the plan ...
Code ==
    /\ place = "coding"
    /\ work' \in {w \in Diff : w \ plan = work \ plan}
    /\ place' = "verifying"
    /\ UNCHANGED <<rowVars, localVars, index, remoteVars, humanVars, checkVars>>

\* ... or some of them, which is a reason to plan again on top of what is there.
CodePartly ==
    /\ place = "coding"
    /\ attempt < Attempts
    /\ \E w \in {v \in Diff : v \ plan = work \ plan} : Retry(w)

\* At the last attempt a part is enough; none at all is not.
CodeNothing ==
    /\ place = "coding"
    /\ attempt = Attempts
    /\ Fail

\* The build, the tests of the changed packages and the types pass, at once or after
\* the healer changed files (it may run commands as well).
BuildPasses ==
    /\ place = "verifying"
    /\ work' \in Diff
    /\ clean' = TRUE
    /\ passed' = work'
    /\ place' = "reviewing"
    /\ UNCHANGED <<rowVars, attempt, approved, repo, plan, fromAnalysis, best, rejected,
                   diff, index, remoteVars, humanVars, gated>>

VerificationStopped == place = "verifying" /\ Fail

\* What git checkout . leaves of whatever the rounds did to the files.
CheckedOut == {Checkout(index, w) : w \in Diff}

\* The build fails and so does this attempt; index i and files w are left of the tree.
VerificationFails(i, w) ==
    /\ place = "verifying"
    /\ index' = i
    /\ work' = w
    /\ Again
    /\ UNCHANGED <<rowVars, approved, repo, plan, fromAnalysis, clean, rejected,
                   remoteVars, humanVars, checkVars>>

\* The healer crashes or gives up.
HealerGivesUp == \E w \in CheckedOut : VerificationFails(index, w) /\ UNCHANGED best

\* rememberIfBest: the tree of this attempt is the best so far, or it is not.
Remember(d) == best' \in {best} \cup ({d} \ {{}})

\* No progress any more, and the last round is the best one.
HealingStops ==
    \E w \in Diff :
        /\ VerificationFails(index, Checkout(index, w))
        /\ Remember(CurrentDiff(index, w))

\* No progress any more, and an earlier round left fewer errors than the last one: its
\* diff d is applied over a checkout, which stages it.
RoundBestKept ==
    \E d \in {CurrentDiff(index, v) : v \in Diff} \ {{}}, back \in CheckedOut :
        /\ Applies(d, index, back)
        /\ VerificationFails(index \cup d, back \cup d)
        /\ Remember(CurrentDiff(index \cup d, back \cup d))

-----------------------------------------------------------------------------
(* Review.                                                                 *)

\* revertUnplannedFiles; the diff is stored in the task before anybody judged it.
ReviewDiff ==
    /\ place = "reviewing"
    /\ LET unplanned == DiffHead(index, work) \ plan
           kept == (work \ unplanned) \cup (unplanned \cap index)
       IN  /\ work' = kept
           /\ diff' = DiffHead(index, kept)
           /\ proposed' = DiffHead(index, kept)
    /\ place' = "judging"
    /\ UNCHANGED <<status, attempt, approved, repo, plan, fromAnalysis, clean, best,
                   rejected, index, remoteVars, humanVars, checkVars>>

Reviewed == UNCHANGED <<rowVars, approved, repo, plan, fromAnalysis, clean, best,
                        remoteVars, humanVars, checkVars>>

\* Files wiped, a procedure violated, only comments changed: reverted.
DiffRefused ==
    /\ place = "judging"
    /\ diff # {}
    /\ work' = Checkout(index, work)
    /\ Again
    /\ Reviewed
    /\ UNCHANGED <<rejected, index>>

\* Nothing changed: the files the analysis named are a dead end, or the task fails.
EmptyDiff ==
    /\ place = "judging"
    /\ diff = {}
    /\ IF fromAnalysis
       THEN Again /\ Reviewed /\ UNCHANGED <<rejected, treeVars>>
       ELSE Fail

CosmeticDiff ==
    /\ place = "judging"
    /\ diff # {}
    /\ diff \in Cosmetic
    /\ Fail

Judged == place = "judging" /\ diff # {} /\ diff \notin Cosmetic

ReviewError == Judged /\ Fail

\* keepRejectedDiff; the files stay as they are.
CriticBlocks ==
    /\ Judged
    /\ rejected' = diff
    /\ Again
    /\ Reviewed
    /\ UNCHANGED treeVars

ReviewerBlocks ==
    /\ Judged
    /\ ~fromAnalysis
    /\ rejected' = diff
    /\ Again
    /\ Reviewed
    /\ UNCHANGED treeVars

\* The analysis knows better than the reviewer: finalDiff is handed over.
ReviewAdvisory ==
    /\ Judged
    /\ fromAnalysis
    /\ place' = "handing"
    /\ Reviewed
    /\ UNCHANGED <<attempt, rejected, diff, treeVars>>

\* Mutant: whoever runs the task, a passed review is pushed.
PushAfterReview ==
    /\ Judged
    /\ \E ok \in BOOLEAN : Push(work, "redo", ok)
    /\ Finish("COMPLETED")
    /\ UNCHANGED <<proposed, humanVars, gated>>

\* stagedDiff: everything is staged and handed over.
ReviewPasses ==
    /\ Judged
    /\ ~approved
    /\ index' = work
    /\ diff' = work
    /\ place' = "handing"
    /\ Reviewed
    /\ UNCHANGED <<attempt, rejected, work>>

\* In an execution that was approved a passed review is pushed at once.
ReviewShips ==
    /\ Judged
    /\ approved
    /\ \E ok \in BOOLEAN : Push(work, "redo", ok)
    /\ Finish("COMPLETED")
    /\ UNCHANGED <<proposed, humanVars, gated>>

-----------------------------------------------------------------------------
(* The end of the loop, and the one door to a human.                       *)

\* What is left after the last attempt, or what was rejected before.
Leftover ==
    IF CurrentDiff(index, work) # {} THEN CurrentDiff(index, work) ELSE rejected

\* Mutant: what is left goes to the human without the door (the third way).
ExhaustedBypass ==
    /\ place = "exhausted"
    /\ Leftover # {}
    /\ proposed' = Leftover
    /\ Finish("WAITING_APPROVAL")
    /\ UNCHANGED <<remoteVars, humanVars, gated>>

Exhausted ==
    /\ place = "exhausted"
    /\ Leftover # {}
    /\ diff' = Leftover
    /\ place' = "handing"
    /\ UNCHANGED <<rowVars, attempt, approved, repo, plan, fromAnalysis, clean, best,
                   rejected, treeVars, remoteVars, humanVars, checkVars>>

\* Blocked by a name or a state of another repository, or simply out of attempts.
OutOfAttempts ==
    /\ place = "exhausted"
    /\ Leftover = {}
    /\ Fail

\* handOver says no: back to the loop, or the end after it.
Refuse(w) ==
    IF attempt > Attempts
    THEN Fail
    ELSE /\ work' = w
         /\ Again
         /\ Reviewed
         /\ UNCHANGED <<rejected, index>>

NotVerified ==
    /\ place = "handing"
    /\ ~clean
    /\ Refuse(work)

\* CheckDidTheWork, the only gate whose verdict the model knows: a diff that is not
\* empty touches a file of the plan.
DidTheWork == diff = {} \/ diff \cap plan # {}

\* The first gate that fails; three of them revert the files.
GateFails ==
    /\ place = "handing"
    /\ clean
    /\ \/ Refuse(Checkout(index, work))
       \/ DidTheWork /\ Refuse(work)

GatesPass(newProposed) ==
    /\ place = "handing"
    /\ clean
    /\ DidTheWork
    /\ proposed' = newProposed
    /\ gated' = diff
    /\ place' = "publishing"
    /\ UNCHANGED <<status, localVars, treeVars, remoteVars, humanVars, passed>>

\* Mutant: what the review stored is what the human sees.
GatesPassSilently == GatesPass(proposed)

GatesHold == GatesPass(IF diff # {} THEN diff ELSE proposed)

\* openPRMyself opened a draft.
OpensPR ==
    /\ place = "publishing"
    /\ AutoPR
    /\ Push(work, "auto", TRUE)
    /\ Finish("COMPLETED")
    /\ UNCHANGED <<proposed, humanVars, gated>>

\* It may not, or it could not.
WaitsForHuman ==
    /\ place = "publishing"
    /\ IF AutoPR THEN Push(work, "auto", FALSE) ELSE UNCHANGED remoteVars
    /\ Finish("WAITING_APPROVAL")
    /\ UNCHANGED <<proposed, humanVars, gated>>

-----------------------------------------------------------------------------
Planning ==
    \/ NotApproved \/ ShipNothing \/ ShipFails \/ Ship
    \/ AnalysisFails \/ Analyse \/ Stopped \/ Begin
    \/ PlanUnreadable \/ PlanRefused \/ SetupFails \/ Plan
    \/ NothingKept \/ Keep \/ StateMissing

Building ==
    \/ Code \/ CodePartly \/ CodeNothing
    \/ BuildPasses \/ VerificationStopped
    \/ HealerGivesUp \/ HealingStops \/ RoundBestKept

Reviewing ==
    \/ ReviewDiff \/ DiffRefused \/ EmptyDiff \/ CosmeticDiff \/ ReviewError
    \/ CriticBlocks \/ ReviewerBlocks \/ ReviewAdvisory \/ ReviewPasses \/ ReviewShips

Ending ==
    \/ Exhausted \/ OutOfAttempts
    \/ NotVerified \/ GateFails \/ GatesHold \/ OpensPR \/ WaitsForHuman

Execution == Planning \/ Building \/ Reviewing \/ Ending

Next == Pick \/ Approve \/ Reject \/ Crash \/ Execution

Spec == Init /\ [][Next]_vars

\* The execution is one goroutine: it goes on as long as models, builds and git
\* answer or break off.  Humans, crashes and the queue are not fair.
FairSpec == Spec /\ WF_vars(Execution)

-----------------------------------------------------------------------------
(* Properties.                                                             *)

\* What leaves handOver passed the build in the very attempt that hands it over: a
\* clean verdict never outlives its attempt, on any of the three ways to the door,
\* the one after the last attempt included.
HandedOverIsVerified == place = "publishing" => passed # Nothing

\* What waits for a human went through every gate, whichever way it came (the door
\* TestOnlyOneDoorToApproval watches), and it is not empty.
WaitingIsGated ==
    status = "WAITING_APPROVAL" => proposed = gated /\ proposed # {}

\* A plan is trimmed against a worktree that exists, also when the first plans were
\* refused before the worktree was made: in executions that were not approved.
PlanMeetsWorktree == (place = "trimming" /\ ~approved) => repo = "live"

\* A human is only asked about work that earned it, on all three ways to the door: its
\* plan met a worktree, it passed the build in its own attempt, and every gate, and it
\* is not empty.
HandOverIsEarned == TypeOK /\ PlanMeetsWorktree /\ HandedOverIsVerified /\ WaitingIsGated

\* Only openPRMyself pushes a branch of a task that no human ever said yes to: what an
\* execution knows of an approval (isApproved) does not survive it, whatever crashes,
\* rejections and second executions come in between.
NothingPushedUnasked == (remote # Nothing /\ pusher # "auto") => humanYes

\* When only waiting tasks are approved, shipReviewedDiff pushes the diff the human
\* saw, and that diff went through the gates: nothing stores another one in between.
\* (The doors accept every task that is not running, and stepReview stores diffs that
\* no gate has seen: approved, they are shipped all the same.)
ShipsWhatWasSeen ==
    [][(remote' # remote /\ pusher' = "ship") => remote' = seen /\ remote' = gated]_vars

\* The steps an execution can still take: what is left of this attempt, and of each
\* attempt behind it.
ToGo == [idle |-> 0, publishing |-> 1, handing |-> 2, exhausted |-> 3, judging |-> 3,
         reviewing |-> 4, verifying |-> 5, coding |-> 6, trimming |-> 7, planning |-> 8,
         attempt |-> 9, analysis |-> 10, start |-> 11]
AttemptsLeft ==
    CASE place = "idle" -> 0
      [] place \in {"start", "analysis"} -> Attempts
      [] OTHER -> Attempts + 1 - attempt
StepsLeft == 9 * AttemptsLeft + ToGo[place]

\* No step of an execution is free: refused plans, partial edits, broken builds, rejected
\* reviews, closed gates and dead ends all go round the same loop, and each costs an
\* attempt; after at most StepsLeft steps it is over, whatever came of them.
NoStepIsFree == [][place # "idle" => StepsLeft' \in 0..StepsLeft - 1]_vars

\* An execution ends.
Ends == status = "RUNNING" ~> status # "RUNNING"

\* Documented, not kept in an execution that shipReviewedDiff gave back.
\* internal/orchestrator/flow_planning.go:325-330: setup is decided by whether there is
\* a work copy yet, so that an attempt without one is never stranded.
NeverStranded == place = "trimming" => repo = "live"

\* Documented, not kept.  internal/orchestrator/handover.go:21: what did not pass the
\* build is not handed over.
HandedDiffWasBuilt == place = "publishing" => diff = passed

\* Documented, not kept.  internal/orchestrator/flow.go:24-28: the diff that is pushed
\* after an approval is the one the human saw.
ApprovedShipsSeen ==
    [][(remote' # remote /\ pusher' # "auto") => remote' = seen]_vars
=============================================================================
