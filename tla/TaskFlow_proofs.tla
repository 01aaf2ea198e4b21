--------------------------- MODULE TaskFlow_proofs ---------------------------
(***************************************************************************)
(* Theorems about TaskFlow, for any files, plans, number of executions,    *)
(* and whatever models, builds, critics, gates and humans say; and about   *)
(* the chains of requests that executions leave (ChainReaction).           *)
(***************************************************************************)
EXTENDS TaskFlow, ChainReaction, FiniteSetTheorems, SequenceTheorems, TLAPS

\* The places where an attempt runs.
Walking == {"attempt", "planning", "trimming", "coding", "verifying", "reviewing", "judging"}

\* The attempts are counted, and the loop has at most three.
CountStands ==
    /\ place \in Walking => attempt \in 1..Attempts
    /\ place \in {"exhausted", "handing", "publishing"} => attempt \in 1..(Attempts + 1)

\* Nobody executes a task that is not running.
RowStands == (place = "idle" <=> status # "RUNNING") /\ (place = "idle" => repo = "none")

\* A clean verdict is one of this attempt, and what is on its way out is not empty.
WayOutStands ==
    /\ clean => passed # Nothing
    /\ place = "judging" => diff \subseteq work
    /\ place = "handing" => diff # {}
    /\ place = "publishing" => clean /\ proposed = gated /\ proposed # {}

\* Whatever is approved was approved by a human.
ApprovalStands == approved \/ status = "APPROVED" => humanYes

\* The directory is gone only after an attempt to ship; a plan that is being trimmed
\* has one.
WorktreeStands == (repo = "stale" => approved) /\ (place = "trimming" => repo # "none")

\* Where only waiting tasks are approved, what an approved execution finds in the row is
\* what the human saw, and it went through the gates.
SeenStands ==
    /\ Approvable \subseteq {"WAITING_APPROVAL"}
    /\ status = "APPROVED" \/ (place = "start" /\ approved)
    => proposed = seen /\ proposed = gated

\* What makes the promises inductive.
FlowInv ==
    /\ TypeOK /\ CountStands /\ RowStands /\ WayOutStands /\ ApprovalStands /\ WorktreeStands
    /\ SeenStands
    /\ WaitingIsGated /\ NothingPushedUnasked

-----------------------------------------------------------------------------
(* git.                                                                    *)

\* What git shows of a tree is part of it, and what a checkout leaves is a tree.
LEMMA GitTypes ==
    ASSUME NEW i \in Diff, NEW w \in Diff
    PROVE  /\ DiffHead(i, w) \in Diff /\ DiffHead(i, w) \subseteq w
           /\ Checkout(i, w) \in Diff /\ CurrentDiff(i, w) \in Diff
BY DEF Diff, DiffHead, Checkout, CurrentDiff

-----------------------------------------------------------------------------
(* How steps end.                                                          *)

\* The execution is over.
LEMMA FinishKept ==
    ASSUME FlowInv, NEW s \in {"COMPLETED", "FAILED", "WAITING_APPROVAL", "PENDING"},
           Finish(s), UNCHANGED <<proposed, humanVars, gated>>,
           remote' \in Diff \cup {Nothing}, pusher' \in {"nobody", "ship", "redo", "auto"},
           remote' # Nothing /\ pusher' # "auto" => humanYes,
           s = "WAITING_APPROVAL" => proposed = gated /\ proposed # {}
    PROVE  FlowInv'
<1>1. /\ status' = s /\ place' = "idle" /\ ~approved' /\ passed' = Nothing
      /\ attempt' = 0 /\ repo' = "none" /\ plan' = {} /\ fromAnalysis' = FALSE /\ clean' = FALSE
      /\ best' = {} /\ rejected' = {} /\ diff' = {} /\ index' = {} /\ work' = {}
      /\ UNCHANGED <<proposed, runs, humanYes, seen, gated>>
      /\ approved' = FALSE
  BY DEF Finish, NewContext, humanVars
<1>2. TypeOK'
  <2>1. {} \in Diff /\ 0 \in 0..(Attempts + 1)
    BY DEF Diff, Attempts
  <2>2. {best', rejected', diff', index', work', seen'} \subseteq Diff
    BY <1>1, <2>1 DEF FlowInv, TypeOK
  <2>3. {remote', passed', gated'} \subseteq Diff \cup {Nothing}
    BY <1>1 DEF FlowInv, TypeOK
  <2>4. status' \in {"PENDING", "RUNNING", "APPROVED"} \cup Settled /\ place' \in Place
    BY <1>1 DEF Settled, Place
  <2>5. /\ proposed' \in Diff /\ plan' \in Diff /\ runs' \in 0..MaxRuns /\ humanYes' \in BOOLEAN
        /\ approved' \in BOOLEAN /\ fromAnalysis' \in BOOLEAN /\ clean' \in BOOLEAN
    BY <1>1, <2>1 DEF FlowInv, TypeOK
  <2> QED
    BY <1>1, <2>1, <2>2, <2>3, <2>4, <2>5 DEF TypeOK
<1>3. CountStands' /\ RowStands' /\ WayOutStands' /\ ApprovalStands' /\ WorktreeStands'
  BY <1>1 DEF CountStands, RowStands, WayOutStands, ApprovalStands, WorktreeStands, Walking
<1>5. SeenStands'
  BY <1>1 DEF SeenStands
<1>4. WaitingIsGated' /\ NothingPushedUnasked'
  BY <1>1 DEF WaitingIsGated, NothingPushedUnasked
<1> QED
  BY <1>2, <1>3, <1>4, <1>5 DEF FlowInv

\* It failed.
LEMMA FailKept ==
    ASSUME FlowInv, Fail
    PROVE  FlowInv'
<1>1. Finish("FAILED") /\ UNCHANGED <<proposed, humanVars, gated>> /\ UNCHANGED <<remote, pusher>>
  BY DEF Fail, remoteVars
<1>2. /\ remote \in Diff \cup {Nothing} /\ pusher \in {"nobody", "ship", "redo", "auto"}
      /\ remote # Nothing /\ pusher # "auto" => humanYes
  BY DEF FlowInv, TypeOK, NothingPushedUnasked
<1> QED
  BY <1>1, <1>2, FinishKept

\* The next attempt begins, or the loop is over.
LEMMA AgainKept ==
    ASSUME FlowInv, place \in Walking \cup {"handing"}, attempt \in 1..Attempts, Again,
           UNCHANGED <<rowVars, approved, repo, plan, fromAnalysis, clean, remoteVars, humanVars,
                       checkVars>>,
           {best', rejected', index', work'} \subseteq Diff
    PROVE  FlowInv'
<1>1. /\ UNCHANGED <<status, proposed, approved, repo, plan, fromAnalysis, clean, remote, pusher,
                     runs, humanYes, seen, passed, gated>>
      /\ attempt' = attempt + 1 /\ diff' = {}
      /\ place' = IF attempt < Attempts THEN "attempt" ELSE "exhausted"
  BY DEF Again, rowVars, remoteVars, humanVars, checkVars
<1>2. attempt' \in 1..(Attempts + 1) /\ (place' \in Walking => attempt' \in 1..Attempts)
  BY <1>1 DEF Attempts, Walking
<1>3. TypeOK'
  <2>1. {} \in Diff
    BY DEF Diff
  <2>2. place' \in Place
    BY <1>1 DEF Place
  <2>3. attempt' \in 0..(Attempts + 1)
    BY <1>2 DEF Attempts
  <2> QED
    BY <1>1, <2>1, <2>2, <2>3 DEF FlowInv, TypeOK
<1>4. place' \notin {"idle", "judging", "handing", "publishing", "trimming"} /\ place # "idle"
  BY <1>1 DEF Walking
<1>5. CountStands' /\ RowStands' /\ WayOutStands' /\ ApprovalStands' /\ WorktreeStands'
  BY <1>1, <1>2, <1>4
     DEF FlowInv, CountStands, RowStands, WayOutStands, ApprovalStands, WorktreeStands
<1>6. WaitingIsGated' /\ NothingPushedUnasked' /\ SeenStands'
  BY <1>1, <1>4 DEF FlowInv, WaitingIsGated, NothingPushedUnasked, RowStands, SeenStands
<1> QED
  BY <1>3, <1>5, <1>6 DEF FlowInv

\* errRetryPlanning, at the last attempt the end.
LEMMA RetryKept ==
    ASSUME FlowInv, place \in Walking, NEW w \in Diff, Retry(w)
    PROVE  FlowInv'
<1>1. CASE attempt < Attempts
  <2>1. attempt \in 1..Attempts
    BY DEF FlowInv, CountStands
  <2>2. /\ Again /\ work' = w
        /\ UNCHANGED <<rowVars, approved, repo, plan, fromAnalysis, clean, best, rejected,
                       index, remoteVars, humanVars, checkVars>>
    BY <1>1 DEF Retry
  <2>3. {best', rejected', index', work'} \subseteq Diff
    BY <2>2 DEF FlowInv, TypeOK
  <2> QED
    BY <2>1, <2>2, <2>3, AgainKept
<1>2. CASE ~(attempt < Attempts)
  BY <1>2, FailKept DEF Retry
<1> QED
  BY <1>1, <1>2

\* A push by one who may.
LEMMA PushKept ==
    ASSUME FlowInv, NEW w \in Diff, NEW by \in {"ship", "redo", "auto"}, NEW ok \in BOOLEAN,
           Push(w, by, ok), by = "auto" \/ humanYes
    PROVE  /\ remote' \in Diff \cup {Nothing} /\ pusher' \in {"nobody", "ship", "redo", "auto"}
           /\ remote' # Nothing /\ pusher' # "auto" => humanYes
           /\ remote' # remote => remote' = w /\ pusher' = by
BY DEF Push, remoteVars, FlowInv, TypeOK, NothingPushedUnasked

-----------------------------------------------------------------------------
(* The steps.                                                              *)

\* The queue, the humans and a crash.
LEMMA AroundKept ==
    ASSUME FlowInv, Pick \/ Approve \/ Reject \/ Crash
    PROVE  FlowInv'
<1>1. CASE Pick
  <2>1. /\ status \in {"PENDING", "APPROVED"} /\ runs < MaxRuns /\ runs' = runs + 1
        /\ approved' = (status = "APPROVED") /\ status' = "RUNNING" /\ place' = "start"
        /\ UNCHANGED <<proposed, attempt, repo, plan, fromAnalysis, clean, best, rejected,
                       diff, index, work, remote, pusher, humanYes, seen, passed, gated>>
    BY <1>1 DEF Pick, treeVars, remoteVars, checkVars
  <2>2. runs' \in 0..MaxRuns
    BY <2>1, FlowAssumption DEF FlowInv, TypeOK
  <2>3. approved' \in BOOLEAN /\ (approved' => status = "APPROVED")
    BY <2>1
  <2>4. TypeOK'
    BY <2>1, <2>2, <2>3 DEF FlowInv, TypeOK, Place
  <2>5. repo = "none"
    BY <2>1 DEF FlowInv, RowStands
  <2>6. CountStands' /\ RowStands' /\ WayOutStands' /\ ApprovalStands' /\ WorktreeStands'
    BY <2>1, <2>3, <2>5
       DEF FlowInv, CountStands, RowStands, WayOutStands, ApprovalStands, WorktreeStands, Walking
  <2>7. WaitingIsGated' /\ NothingPushedUnasked' /\ SeenStands'
    BY <2>1, <2>3 DEF FlowInv, WaitingIsGated, NothingPushedUnasked, SeenStands
  <2> QED
    BY <2>4, <2>6, <2>7 DEF FlowInv
<1>2. CASE Approve
  <2>1. /\ status \in Approvable /\ status # "RUNNING" /\ status' = "APPROVED"
        /\ humanYes' = TRUE /\ seen' = proposed
        /\ UNCHANGED <<proposed, place, attempt, approved, repo, plan, fromAnalysis, clean, best,
                       rejected, diff, index, work, remote, pusher, runs, passed, gated>>
    BY <1>2, FlowAssumption DEF Approve, localVars, treeVars, remoteVars, checkVars
  <2>2. TypeOK'
    BY <2>1 DEF FlowInv, TypeOK
  <2>3. CountStands' /\ RowStands' /\ WayOutStands' /\ ApprovalStands' /\ WorktreeStands'
    BY <2>1
       DEF FlowInv, CountStands, RowStands, WayOutStands, ApprovalStands, WorktreeStands, Walking
  <2>4. WaitingIsGated' /\ NothingPushedUnasked'
    BY <2>1 DEF WaitingIsGated, NothingPushedUnasked
  <2>5. SeenStands'
    BY <2>1 DEF SeenStands, FlowInv, WaitingIsGated
  <2> QED
    BY <2>2, <2>3, <2>4, <2>5 DEF FlowInv
<1>3. CASE Reject
  <2>1. /\ status # "RUNNING" /\ status' = "PENDING"
        /\ UNCHANGED <<proposed, place, attempt, approved, repo, plan, fromAnalysis, clean, best,
                       rejected, diff, index, work, remote, pusher, runs, humanYes, seen, passed,
                       gated>>
    BY <1>3 DEF Reject, Settled, localVars, treeVars, remoteVars, humanVars, checkVars
  <2>2. TypeOK'
    BY <2>1 DEF FlowInv, TypeOK
  <2>3. CountStands' /\ RowStands' /\ WayOutStands' /\ ApprovalStands' /\ WorktreeStands'
    BY <2>1
       DEF FlowInv, CountStands, RowStands, WayOutStands, ApprovalStands, WorktreeStands, Walking
  <2>4. WaitingIsGated' /\ NothingPushedUnasked' /\ SeenStands'
    BY <2>1 DEF FlowInv, WaitingIsGated, NothingPushedUnasked, RowStands, SeenStands
  <2> QED
    BY <2>2, <2>3, <2>4 DEF FlowInv
<1>4. CASE Crash
  <2>1. /\ Finish("PENDING") /\ UNCHANGED <<proposed, humanVars, gated>>
        /\ UNCHANGED <<remote, pusher>>
    BY <1>4 DEF Crash, remoteVars
  <2>2. /\ remote \in Diff \cup {Nothing} /\ pusher \in {"nobody", "ship", "redo", "auto"}
        /\ remote # Nothing /\ pusher # "auto" => humanYes
    BY DEF FlowInv, TypeOK, NothingPushedUnasked
  <2> QED
    BY <2>1, <2>2, FinishKept
<1> QED
  BY <1>1, <1>2, <1>3, <1>4

\* A step that goes on within the execution, and touches neither the status, the branch
\* on GitHub nor what humans did.
LEMMA GoesOn ==
    ASSUME FlowInv, place # "idle",
           UNCHANGED <<status, approved, remote, pusher, runs, humanYes, seen>>,
           proposed' \in Diff, gated' \in Diff \cup {Nothing},
           place' \in Place \ {"idle", "start"}, attempt' \in 0..(Attempts + 1), plan' \in Diff,
           repo' \in {"none", "live", "stale"}, repo' = "stale" => approved,
           fromAnalysis' \in BOOLEAN, clean' \in BOOLEAN,
           {best', rejected', diff', index', work'} \subseteq Diff,
           passed' \in Diff \cup {Nothing}, clean' => passed' # Nothing,
           CountStands',
           place' = "judging" => diff' \subseteq work', place' = "handing" => diff' # {},
           place' = "publishing" => clean' /\ proposed' = gated' /\ proposed' # {},
           place' = "trimming" => repo' # "none"
    PROVE  FlowInv'
<1>1. TypeOK'
  BY DEF FlowInv, TypeOK
<1>2. RowStands' /\ WayOutStands' /\ ApprovalStands' /\ WorktreeStands'
  BY DEF FlowInv, RowStands, WayOutStands, ApprovalStands, WorktreeStands
<1>3. WaitingIsGated' /\ NothingPushedUnasked' /\ SeenStands'
  BY DEF FlowInv, WaitingIsGated, NothingPushedUnasked, RowStands, SeenStands
<1> QED
  BY <1>1, <1>2, <1>3 DEF FlowInv

\* From the claim to a trimmed plan.
LEMMA PlanningKept ==
    ASSUME FlowInv, Planning
    PROVE  FlowInv'
<1>1. CASE NotApproved
  <2>1. /\ place = "start"
        /\ place' = "analysis"
        /\ UNCHANGED <<status, proposed, approved, remote, pusher, runs, humanYes, seen, gated,
                       attempt, plan, repo, fromAnalysis, clean, best, rejected, diff,
                       index, work, passed>>
    BY <1>1 DEF NotApproved, rowVars, localVars, treeVars, remoteVars, humanVars, checkVars
  <2> QED
    BY <2>1, GoesOn
       DEF FlowInv, TypeOK, WayOutStands, WorktreeStands, CountStands, Walking, Place, Attempts
<1>2. CASE ShipNothing
  <2>1. /\ place = "start"
        /\ place' = "analysis"
        /\ UNCHANGED <<status, proposed, approved, remote, pusher, runs, humanYes, seen, gated,
                       attempt, plan, repo, fromAnalysis, clean, best, rejected, diff,
                       index, work, passed>>
    BY <1>2 DEF ShipNothing, rowVars, localVars, treeVars, remoteVars, humanVars, checkVars
  <2> QED
    BY <2>1, GoesOn
       DEF FlowInv, TypeOK, WayOutStands, WorktreeStands, CountStands, Walking, Place, Attempts
<1>3. CASE ShipFails
  <2>1. /\ place = "start" /\ approved
        /\ place' = "analysis" /\ repo' = "stale"
        /\ UNCHANGED <<status, proposed, approved, remote, pusher, runs, humanYes, seen, gated,
                       attempt, plan, fromAnalysis, clean, best, rejected, diff,
                       index, work, passed>>
    BY <1>3 DEF ShipFails, rowVars, localVars, treeVars, remoteVars, humanVars, checkVars
  <2> QED
    BY <2>1, GoesOn
       DEF FlowInv, TypeOK, WayOutStands, WorktreeStands, CountStands, Walking, Place, Attempts
<1>4. CASE Ship
  <2>1. PICK ok \in BOOLEAN : Push(proposed, "ship", ok)
    BY <1>4 DEF Ship
  <2>2. proposed \in Diff /\ humanYes
    BY <1>4 DEF Ship, FlowInv, TypeOK, ApprovalStands
  <2>3. Finish("COMPLETED") /\ UNCHANGED <<proposed, humanVars, gated>>
    BY <1>4 DEF Ship
  <2>4. /\ remote' \in Diff \cup {Nothing} /\ pusher' \in {"nobody", "ship", "redo", "auto"}
        /\ remote' # Nothing /\ pusher' # "auto" => humanYes
    BY <2>1, <2>2, PushKept
  <2> QED
    BY <2>3, <2>4, FinishKept
<1>5. CASE AnalysisFails \/ Stopped \/ PlanUnreadable \/ SetupFails \/ StateMissing
  BY <1>5, FailKept DEF AnalysisFails, Stopped, PlanUnreadable, SetupFails, StateMissing
<1>6. CASE Analyse
  <2>1. /\ place = "analysis"
        /\ place' = "attempt" /\ attempt' = 1
        /\ UNCHANGED <<status, proposed, approved, remote, pusher, runs, humanYes, seen, gated,
                       plan, repo, fromAnalysis, clean, best, rejected, diff, index, work, passed>>
    BY <1>6 DEF Analyse, rowVars, localVars, treeVars, remoteVars, humanVars, checkVars
  <2> QED
    BY <2>1, GoesOn
       DEF FlowInv, TypeOK, WayOutStands, WorktreeStands, CountStands, Walking, Place, Attempts
<1>7. CASE Begin
  <2>1. /\ place = "attempt" /\ place' = "planning" /\ clean' = FALSE /\ passed' = Nothing
        /\ {index', work'} \subseteq Diff
        /\ UNCHANGED <<status, proposed, approved, remote, pusher, runs, humanYes, seen, gated,
                       attempt, plan, repo, fromAnalysis, best, rejected, diff>>
    BY <1>7
       DEF Begin, rowVars, localVars, treeVars, remoteVars, humanVars, checkVars,
           StartAttempt, RestoreBest, FlowInv, TypeOK, Diff
  <2> QED
    BY <2>1, GoesOn
       DEF FlowInv, TypeOK, WayOutStands, WorktreeStands, CountStands, Walking, Place, Attempts
<1>8. CASE PlanRefused \/ NothingKept
  <2>1. Retry(work) /\ work \in Diff /\ place \in Walking
    BY <1>8 DEF PlanRefused, NothingKept, FlowInv, TypeOK, Walking
  <2> QED
    BY <2>1, RetryKept
<1>9. CASE Plan
  <2>1. /\ place = "planning" /\ place' = "trimming" /\ plan' \in Diff /\ fromAnalysis' \in BOOLEAN
        /\ repo' \in {"live", repo} /\ repo' # "none" /\ {index', work'} \subseteq Diff
        /\ UNCHANGED <<status, proposed, approved, remote, pusher, runs, humanYes, seen, gated,
                       attempt, clean, best, rejected, diff, passed>>
    BY <1>9, FlowAssumption
       DEF Plan, rowVars, localVars, treeVars, remoteVars, humanVars, checkVars,
       NeedsWorkspaceSetup, FlowInv, TypeOK, Diff
  <2> QED
    BY <2>1, GoesOn
       DEF FlowInv, TypeOK, WayOutStands, WorktreeStands, CountStands, Walking, Place, Attempts
<1>10. CASE Keep
  <2>1. /\ place = "trimming"
        /\ place' = "coding"
        /\ UNCHANGED <<status, proposed, approved, remote, pusher, runs, humanYes, seen, gated,
                       attempt, plan, repo, fromAnalysis, clean, best, rejected, diff,
                       index, work, passed>>
    BY <1>10 DEF Keep, rowVars, localVars, treeVars, remoteVars, humanVars, checkVars
  <2> QED
    BY <2>1, GoesOn
       DEF FlowInv, TypeOK, WayOutStands, WorktreeStands, CountStands, Walking, Place, Attempts
<1> QED
  BY <1>1, <1>2, <1>3, <1>4, <1>5, <1>6, <1>7, <1>8, <1>9, <1>10 DEF Planning

\* Coding, the build and the healer.
LEMMA BuildingKept ==
    ASSUME FlowInv, Building
    PROVE  FlowInv'
<1>1. CASE Code
  <2>1. /\ place = "coding"
        /\ place' = "verifying" /\ work' \in Diff
        /\ UNCHANGED <<status, proposed, approved, remote, pusher, runs, humanYes, seen, gated,
                       attempt, plan, repo, fromAnalysis, clean, best, rejected, diff, index,
                       passed>>
    BY <1>1 DEF Code, rowVars, localVars, treeVars, remoteVars, humanVars,
       checkVars
  <2> QED
    BY <2>1, GoesOn
       DEF FlowInv, TypeOK, WayOutStands, WorktreeStands, CountStands, Walking, Place, Attempts
<1>2. CASE CodePartly
  <2>1. PICK w \in Diff : Retry(w)
    BY <1>2 DEF CodePartly
  <2> QED
    BY <1>2, <2>1, RetryKept DEF CodePartly, Walking
<1>3. CASE CodeNothing \/ VerificationStopped
  BY <1>3, FailKept DEF CodeNothing, VerificationStopped
<1>4. CASE BuildPasses
  <2>1. /\ place = "verifying" /\ place' = "reviewing"
        /\ work' \in Diff /\ clean' = TRUE /\ passed' = work'
        /\ UNCHANGED <<status, proposed, approved, remote, pusher, runs, humanYes, seen, gated,
                       attempt, plan, repo, fromAnalysis, best, rejected, diff, index>>
    BY <1>4 DEF BuildPasses, rowVars, localVars, treeVars, remoteVars, humanVars,
       checkVars
  <2>2. passed' # Nothing
    BY <2>1, FlowAssumption DEF Diff
  <2> QED
    BY <2>1, <2>2, GoesOn
       DEF FlowInv, TypeOK, WayOutStands, WorktreeStands, CountStands, Walking, Place, Attempts
<1>5. CASE HealerGivesUp
  <2>1. /\ place \in Walking /\ Again
        /\ UNCHANGED <<rowVars, approved, repo, plan, fromAnalysis, clean, remoteVars, humanVars,
                       checkVars>>
        /\ {best', rejected', index', work'} \subseteq Diff
    BY <1>5, GitTypes
       DEF HealerGivesUp, VerificationFails, CheckedOut, Walking, treeVars, FlowInv, TypeOK
  <2>2. attempt \in 1..Attempts
    BY <2>1 DEF FlowInv, CountStands
  <2> QED
    BY <2>1, <2>2, AgainKept
<1>6. CASE HealingStops
  <2>1. /\ place \in Walking /\ Again
        /\ UNCHANGED <<rowVars, approved, repo, plan, fromAnalysis, clean, remoteVars, humanVars,
                       checkVars>>
        /\ {best', rejected', index', work'} \subseteq Diff
    BY <1>6, GitTypes
       DEF HealingStops, VerificationFails, Remember, Walking, FlowInv, TypeOK
  <2>2. attempt \in 1..Attempts
    BY <2>1 DEF FlowInv, CountStands
  <2> QED
    BY <2>1, <2>2, AgainKept
<1>7. CASE RoundBestKept
  <2>1. /\ place \in Walking /\ Again
        /\ UNCHANGED <<rowVars, approved, repo, plan, fromAnalysis, clean, remoteVars, humanVars,
                       checkVars>>
        /\ {best', rejected', index', work'} \subseteq Diff
    <3>1. PICK d \in {CurrentDiff(index, v) : v \in Diff} \ {{}}, back \in CheckedOut :
                /\ VerificationFails(index \cup d, back \cup d)
                /\ Remember(CurrentDiff(index \cup d, back \cup d))
      BY <1>7 DEF RoundBestKept
    <3>2. index \in Diff /\ best \in Diff /\ rejected \in Diff
      BY DEF FlowInv, TypeOK
    <3>3. d \in Diff /\ back \in Diff
      BY <3>2, GitTypes DEF CheckedOut
    <3>4. index \cup d \in Diff /\ back \cup d \in Diff
      BY <3>2, <3>3 DEF Diff
    <3>5. CurrentDiff(index \cup d, back \cup d) \in Diff
      BY <3>4, GitTypes
    <3> QED
      BY <3>1, <3>2, <3>4, <3>5 DEF VerificationFails, Remember, Walking
  <2>2. attempt \in 1..Attempts
    BY <2>1 DEF FlowInv, CountStands
  <2> QED
    BY <2>1, <2>2, AgainKept
<1> QED
  BY <1>1, <1>2, <1>3, <1>4, <1>5, <1>6, <1>7 DEF Building

\* stepReview.
LEMMA ReviewingKept ==
    ASSUME FlowInv, Reviewing
    PROVE  FlowInv'
<1>1. CASE ReviewDiff
  <2>1. /\ place = "reviewing" /\ place' = "judging"
        /\ {proposed', diff', work'} \subseteq Diff /\ diff' \subseteq work'
        /\ UNCHANGED <<status, approved, remote, pusher, runs, humanYes, seen, gated, attempt,
                       plan, repo, fromAnalysis, clean, best, rejected, index, passed>>
    BY <1>1 DEF ReviewDiff,
       DiffHead, FlowInv, TypeOK, Diff, rowVars, localVars, treeVars, remoteVars, humanVars,
       checkVars
  <2> QED
    BY <2>1, GoesOn
       DEF FlowInv, TypeOK, WayOutStands, WorktreeStands, CountStands, Walking, Place, Attempts
<1>2. CASE DiffRefused
  <2>1. /\ place \in Walking /\ Again
        /\ UNCHANGED <<rowVars, approved, repo, plan, fromAnalysis, clean, remoteVars, humanVars,
                       checkVars>>
        /\ {best', rejected', index', work'} \subseteq Diff
    BY <1>2, GitTypes DEF DiffRefused, Reviewed, Walking, treeVars, FlowInv, TypeOK
  <2>2. attempt \in 1..Attempts
    BY <2>1 DEF FlowInv, CountStands
  <2> QED
    BY <2>1, <2>2, AgainKept
<1>3. CASE EmptyDiff
  <2>1. CASE fromAnalysis
    <3>1. /\ place \in Walking /\ Again
          /\ UNCHANGED <<rowVars, approved, repo, plan, fromAnalysis, clean, remoteVars, humanVars,
                         checkVars>>
          /\ {best', rejected', index', work'} \subseteq Diff
      BY <1>3, <2>1 DEF EmptyDiff, Reviewed, Walking, treeVars, FlowInv, TypeOK
    <3>2. attempt \in 1..Attempts
      BY <3>1 DEF FlowInv, CountStands
    <3> QED
      BY <3>1, <3>2, AgainKept
  <2>2. CASE ~fromAnalysis
    BY <1>3, <2>2, FailKept DEF EmptyDiff
  <2> QED
    BY <2>1, <2>2
<1>4. CASE CosmeticDiff \/ ReviewError
  BY <1>4, FailKept DEF CosmeticDiff, ReviewError
<1>5. CASE CriticBlocks
  <2>1. /\ place \in Walking /\ Again
        /\ UNCHANGED <<rowVars, approved, repo, plan, fromAnalysis, clean, remoteVars, humanVars,
                       checkVars>>
        /\ {best', rejected', index', work'} \subseteq Diff
    BY <1>5, GitTypes DEF CriticBlocks, Judged, Reviewed, Walking, treeVars, FlowInv, TypeOK
  <2>2. attempt \in 1..Attempts
    BY <2>1 DEF FlowInv, CountStands
  <2> QED
    BY <2>1, <2>2, AgainKept
<1>6. CASE ReviewerBlocks
  <2>1. /\ place \in Walking /\ Again
        /\ UNCHANGED <<rowVars, approved, repo, plan, fromAnalysis, clean, remoteVars, humanVars,
                       checkVars>>
        /\ {best', rejected', index', work'} \subseteq Diff
    BY <1>6, GitTypes DEF ReviewerBlocks, Judged, Reviewed, Walking, treeVars, FlowInv, TypeOK
  <2>2. attempt \in 1..Attempts
    BY <2>1 DEF FlowInv, CountStands
  <2> QED
    BY <2>1, <2>2, AgainKept
<1>7. CASE ReviewAdvisory
  <2>1. /\ place = "judging" /\ place' = "handing"
        /\ diff # {}
        /\ UNCHANGED <<status, proposed, approved, remote, pusher, runs, humanYes, seen, gated,
                       attempt, plan, repo, fromAnalysis, clean, best, rejected, diff, index,
                       work, passed>>
    BY <1>7
       DEF ReviewAdvisory, Judged, Reviewed, rowVars, localVars, treeVars, remoteVars,
           humanVars,
       checkVars
  <2> QED
    BY <2>1, GoesOn
       DEF FlowInv, TypeOK, WayOutStands, WorktreeStands, CountStands, Walking, Place, Attempts
<1>8. CASE ReviewPasses
  <2>1. /\ place = "judging" /\ place' = "handing" /\ diff # {}
        /\ index' = work /\ diff' = work
        /\ UNCHANGED <<status, proposed, approved, remote, pusher, runs, humanYes, seen, gated,
                       attempt, plan, repo, fromAnalysis, clean, best, rejected, work, passed>>
    BY <1>8
       DEF ReviewPasses, Judged, Reviewed, rowVars, localVars, treeVars, remoteVars,
           humanVars,
       checkVars
  <2> QED
    BY <2>1, GoesOn
       DEF FlowInv, TypeOK, WayOutStands, WorktreeStands, CountStands, Walking, Place, Attempts
<1>9. CASE ReviewShips
  <2>1. PICK ok \in BOOLEAN : Push(work, "redo", ok)
    BY <1>9 DEF ReviewShips
  <2>2. work \in Diff /\ humanYes
    BY <1>9 DEF ReviewShips, FlowInv, TypeOK, ApprovalStands
  <2>3. Finish("COMPLETED") /\ UNCHANGED <<proposed, humanVars, gated>>
    BY <1>9 DEF ReviewShips
  <2>4. /\ remote' \in Diff \cup {Nothing} /\ pusher' \in {"nobody", "ship", "redo", "auto"}
        /\ remote' # Nothing /\ pusher' # "auto" => humanYes
    BY <2>1, <2>2, PushKept
  <2> QED
    BY <2>3, <2>4, FinishKept
<1> QED
  BY <1>1, <1>2, <1>3, <1>4, <1>5, <1>6, <1>7, <1>8, <1>9 DEF Reviewing

\* The door says no: back to the loop, or the end after it.
LEMMA RefuseKept ==
    ASSUME FlowInv, place = "handing", NEW w \in Diff, Refuse(w)
    PROVE  FlowInv'
<1>1. CASE attempt > Attempts
  BY <1>1, FailKept DEF Refuse
<1>2. CASE ~(attempt > Attempts)
  <2>1. attempt \in 1..Attempts
    BY <1>2 DEF FlowInv, CountStands, Attempts
  <2>2. /\ Again /\ UNCHANGED <<rowVars, approved, repo, plan, fromAnalysis, clean, remoteVars,
                                humanVars, checkVars>>
        /\ {best', rejected', index', work'} \subseteq Diff
    BY <1>2 DEF Refuse, Reviewed, FlowInv, TypeOK
  <2> QED
    BY <2>1, <2>2, AgainKept
<1> QED
  BY <1>1, <1>2

\* The end of the loop, handOver, and the way to GitHub.
LEMMA EndingKept ==
    ASSUME FlowInv, Ending
    PROVE  FlowInv'
<1>1. CASE Exhausted
  <2>1. /\ place = "exhausted" /\ place' = "handing"
        /\ diff' # {} /\ diff' \in Diff
        /\ UNCHANGED <<status, proposed, approved, remote, pusher, runs, humanYes, seen, gated,
                       attempt, plan, repo, fromAnalysis, clean, best, rejected, index, work,
                       passed>>
    BY <1>1, GitTypes
       DEF Exhausted, Leftover, FlowInv, TypeOK, rowVars, localVars, treeVars, remoteVars,
           humanVars,
       checkVars
  <2> QED
    BY <2>1, GoesOn
       DEF FlowInv, TypeOK, WayOutStands, WorktreeStands, CountStands, Walking, Place, Attempts
<1>2. CASE OutOfAttempts
  BY <1>2, FailKept DEF OutOfAttempts
<1>3. CASE NotVerified \/ GateFails
  <2>1. place = "handing" /\ {index, work} \subseteq Diff
    BY <1>3 DEF NotVerified, GateFails, FlowInv, TypeOK
  <2>2. Refuse(work) \/ Refuse(Checkout(index, work))
    BY <1>3 DEF NotVerified, GateFails
  <2> QED
    BY <2>1, <2>2, RefuseKept, GitTypes
<1>4. CASE GatesHold
  <2>1. /\ place = "handing" /\ place' = "publishing"
        /\ clean /\ diff # {} /\ proposed' = diff /\ gated' = diff
        /\ UNCHANGED <<status, approved, remote, pusher, runs, humanYes, seen, attempt, plan,
                       repo, fromAnalysis, clean, best, rejected, diff, index, work, passed>>
    BY <1>4
       DEF GatesHold, GatesPass, FlowInv, WayOutStands, rowVars, localVars, treeVars,
           remoteVars, humanVars,
       checkVars
  <2> QED
    BY <2>1, GoesOn
       DEF FlowInv, TypeOK, WayOutStands, WorktreeStands, CountStands, Walking, Place, Attempts
<1>5. CASE OpensPR \/ WaitsForHuman
  <2>1. /\ place = "publishing" /\ UNCHANGED <<proposed, humanVars, gated>>
        /\ Finish("COMPLETED") \/ Finish("WAITING_APPROVAL")
    BY <1>5 DEF OpensPR, WaitsForHuman
  <2>2. /\ remote' \in Diff \cup {Nothing} /\ pusher' \in {"nobody", "ship", "redo", "auto"}
        /\ remote' # Nothing /\ pusher' # "auto" => humanYes
    <3>1. work \in Diff
      BY DEF FlowInv, TypeOK
    <3>2. CASE Push(work, "auto", TRUE) \/ Push(work, "auto", FALSE)
      BY <3>1, <3>2, PushKept
    <3>3. CASE UNCHANGED remoteVars
      BY <3>3 DEF remoteVars, FlowInv, TypeOK, NothingPushedUnasked
    <3> QED
      BY <1>5, <3>2, <3>3 DEF OpensPR, WaitsForHuman
  <2>3. proposed = gated /\ proposed # {}
    BY <2>1 DEF FlowInv, WayOutStands
  <2> QED
    BY <2>1, <2>2, <2>3, FinishKept
<1> QED
  BY <1>1, <1>2, <1>3, <1>4, <1>5 DEF Ending

-----------------------------------------------------------------------------
(* Theorems.                                                               *)

\* A new task satisfies it.
LEMMA Starts == Init => FlowInv
<1> SUFFICES ASSUME Init PROVE FlowInv
  OBVIOUS
<1>1. {} \in Diff /\ 0 \in 0..(Attempts + 1) /\ 0 \in 0..MaxRuns
  BY FlowAssumption DEF Diff, Attempts
<1>2. TypeOK
  BY <1>1 DEF Init, TypeOK, Place
<1> QED
  BY <1>2
     DEF Init, FlowInv, CountStands, RowStands, WayOutStands, ApprovalStands, WorktreeStands,
     SeenStands, WaitingIsGated, NothingPushedUnasked, Walking

\* A step of nobody changes nothing of it.
LEMMA StutterKept ==
    ASSUME FlowInv, UNCHANGED vars
    PROVE  FlowInv'
<1>1. UNCHANGED <<status, proposed, place, attempt, approved, repo, plan, fromAnalysis, clean, best,
                  rejected, diff, index, work, remote, pusher, runs, humanYes, seen, passed, gated>>
  BY DEF vars, rowVars, localVars, treeVars, remoteVars, humanVars, checkVars
<1>2. TypeOK' /\ CountStands' /\ RowStands' /\ WayOutStands'
  BY <1>1 DEF FlowInv, TypeOK, CountStands, RowStands, WayOutStands
<1>3. ApprovalStands' /\ WorktreeStands' /\ SeenStands' /\ WaitingIsGated' /\ NothingPushedUnasked'
  BY <1>1
     DEF FlowInv, ApprovalStands, WorktreeStands, SeenStands, WaitingIsGated, NothingPushedUnasked
<1> QED
  BY <1>2, <1>3 DEF FlowInv

\* FlowInv is an invariant, whatever models, builds, gates, humans and crashes do.
THEOREM FlowStands == Spec => []FlowInv
<1>1. FlowInv /\ [Next]_vars => FlowInv'
  BY AroundKept, PlanningKept, BuildingKept, ReviewingKept, EndingKept, StutterKept
     DEF Next, Execution
<1> QED
  BY Starts, <1>1, PTL DEF Spec

\* Humans are asked only about work whose plan met a worktree and that passed the build
\* of its own attempt and every gate, whichever of the three ways it came.
THEOREM HandOverEarned == Spec => []HandOverIsEarned
<1>1. FlowInv => HandOverIsEarned
  <2> SUFFICES ASSUME FlowInv PROVE HandOverIsEarned
    OBVIOUS
  <2>1. PlanMeetsWorktree
    BY DEF FlowInv, PlanMeetsWorktree, WorktreeStands, TypeOK
  <2>2. TypeOK /\ HandedOverIsVerified /\ WaitingIsGated
    BY DEF FlowInv, HandedOverIsVerified, WayOutStands
  <2> QED
    BY <2>1, <2>2 DEF HandOverIsEarned
<1> QED
  BY FlowStands, <1>1, PTL

\* No branch of a task is pushed before a human said yes, except by openPRMyself.
THEOREM PushIsAskedFor == Spec => []NothingPushedUnasked
<1>1. FlowInv => NothingPushedUnasked
  BY DEF FlowInv
<1> QED
  BY FlowStands, <1>1, PTL

-----------------------------------------------------------------------------
(* What is shipped.                                                        *)

\* Four steps push, and the others leave the branch on GitHub alone.
LEMMA OnlyFourPush ==
    ASSUME [Next]_vars, remote' # remote
    PROVE  Ship \/ ReviewShips \/ OpensPR \/ WaitsForHuman
<1> SUFFICES ASSUME ~(Ship \/ ReviewShips \/ OpensPR \/ WaitsForHuman) PROVE remote' = remote
  OBVIOUS
<1>1. \A w : Retry(w) => UNCHANGED remoteVars
  BY DEF Retry, Fail
<1>2. \A w : Refuse(w) => UNCHANGED remoteVars
  BY DEF Refuse, Fail, Reviewed
<1>3. CASE Pick \/ Approve \/ Reject \/ Crash
  BY <1>3 DEF Pick, Approve, Reject, Crash, remoteVars
<1>4. CASE Planning
  BY <1>1, <1>4
     DEF Planning, NotApproved, ShipNothing, ShipFails, AnalysisFails, Analyse, Stopped,
     Begin, StartAttempt, PlanUnreadable, PlanRefused, SetupFails, Plan, NothingKept, Keep,
     StateMissing, Fail, remoteVars
<1>5. CASE Building
  BY <1>1, <1>5 DEF Building, Code, CodePartly, CodeNothing, BuildPasses, VerificationStopped,
     HealerGivesUp, HealingStops, RoundBestKept, VerificationFails, Fail, remoteVars
<1>6. CASE Reviewing
  BY <1>6 DEF Reviewing, ReviewDiff, DiffRefused, EmptyDiff, CosmeticDiff, ReviewError,
     CriticBlocks, ReviewerBlocks, ReviewAdvisory, ReviewPasses, Reviewed, Fail, remoteVars
<1>7. CASE Ending
  BY <1>2, <1>7
     DEF Ending, Exhausted, OutOfAttempts, NotVerified, GateFails, GatesHold, GatesPass,
     Fail, remoteVars
<1> QED
  BY <1>3, <1>4, <1>5, <1>6, <1>7 DEF Next, Execution, vars, remoteVars

\* Where only waiting tasks are approved, shipReviewedDiff pushes the very diff the human
\* saw, and that diff passed the gates.
THEOREM ShippedWasSeen ==
    ASSUME Approvable \subseteq {"WAITING_APPROVAL"}
    PROVE  Spec => ShipsWhatWasSeen
<1>1. FlowInv /\ [Next]_vars
          => [(remote' # remote /\ pusher' = "ship") => remote' = seen /\ remote' = gated]_vars
  <2> SUFFICES ASSUME FlowInv, [Next]_vars, remote' # remote, pusher' = "ship"
               PROVE  remote' = seen /\ remote' = gated
    OBVIOUS
  <2>1. {proposed, work} \subseteq Diff
    BY DEF FlowInv, TypeOK
  <2>2. CASE Ship
    <3>1. PICK ok \in BOOLEAN : Push(proposed, "ship", ok)
      BY <2>2 DEF Ship
    <3>2. remote' = proposed
      BY <3>1 DEF Push, remoteVars
    <3>3. proposed = seen /\ proposed = gated
      BY <2>2 DEF Ship, FlowInv, SeenStands
    <3> QED
      BY <3>2, <3>3
  <2>3. CASE ReviewShips
    <3>1. PICK ok \in BOOLEAN : Push(work, "redo", ok)
      BY <2>3 DEF ReviewShips
    <3> QED
      BY <3>1 DEF Push, remoteVars
  <2>4. CASE OpensPR \/ WaitsForHuman
    BY <2>4 DEF OpensPR, WaitsForHuman, Push, remoteVars
  <2> QED
    BY <2>2, <2>3, <2>4, OnlyFourPush
<1> QED
  BY FlowStands, <1>1, PTL DEF Spec, ShipsWhatWasSeen

-----------------------------------------------------------------------------
(* How long an execution lasts.                                            *)

\* From one place of an attempt to the next.
Forth == {<<"attempt", "planning">>, <<"planning", "trimming">>, <<"trimming", "coding">>,
          <<"coding", "verifying">>, <<"verifying", "reviewing">>, <<"reviewing", "judging">>,
          <<"judging", "handing">>, <<"exhausted", "handing">>, <<"handing", "publishing">>}

\* What a step of an execution is to its length: it ends it, goes on to the first attempt
\* or to the next one, or goes on within an attempt.
Onward ==
    \/ place' = "idle"
    \/ place = "start" /\ place' = "analysis"
    \/ place = "analysis" /\ place' = "attempt" /\ attempt' = 1
    \/ place \in Walking \cup {"handing"} /\ attempt \in 1..Attempts /\ Again
    \/ <<place, place'>> \in Forth /\ attempt' = attempt

\* Every step of an execution is one of them, and so is the crash that cuts it off.
LEMMA StepsGoOnward ==
    ASSUME FlowInv, place # "idle", Next
    PROVE  Onward
<1>1. \A s : Finish(s) => place' = "idle"
  BY DEF Finish
<1>2. Fail => place' = "idle"
  BY <1>1 DEF Fail
<1>3. place \in Walking => attempt \in 1..Attempts
  BY DEF FlowInv, CountStands
<1>4. ASSUME NEW w, Retry(w), place \in Walking
      PROVE  Onward
  BY <1>2, <1>3, <1>4 DEF Retry, Onward
<1>5. ASSUME NEW w, Refuse(w), place = "handing"
      PROVE  Onward
  <2>1. attempt \in 1..(Attempts + 1)
    BY <1>5 DEF FlowInv, CountStands
  <2>2. CASE attempt > Attempts
    BY <1>2, <1>5, <2>2 DEF Refuse, Onward
  <2>3. CASE ~(attempt > Attempts)
    <3>1. attempt \in 1..Attempts
      BY <2>1, <2>3 DEF Attempts
    <3> QED
      BY <1>5, <2>3, <3>1 DEF Refuse, Onward
  <2> QED
    BY <2>2, <2>3
<1>6. CASE Pick \/ Approve \/ Reject \/ Crash
  <2>1. status = "RUNNING"
    BY DEF FlowInv, RowStands
  <2>2. Crash
    BY <1>6, <2>1, FlowAssumption DEF Pick, Approve, Reject, Settled
  <2> QED
    BY <2>2, <1>1 DEF Crash, Onward
<1>7. CASE Planning
  <2>1. CASE PlanRefused \/ NothingKept
    BY <2>1, <1>4 DEF PlanRefused, NothingKept, Walking
  <2>2. CASE Ship \/ AnalysisFails \/ Stopped \/ PlanUnreadable \/ SetupFails \/ StateMissing
    BY <2>2, <1>1, <1>2
       DEF Ship, AnalysisFails, Stopped, PlanUnreadable, SetupFails, StateMissing, Onward
  <2>3. CASE NotApproved \/ ShipNothing \/ ShipFails \/ Analyse
    BY <2>3 DEF NotApproved, ShipNothing, ShipFails, Analyse, Onward
  <2>4. CASE Begin \/ Plan \/ Keep
    BY <2>4 DEF Begin, StartAttempt, Plan, Keep, localVars, Onward, Forth
  <2> QED
    BY <1>7, <2>1, <2>2, <2>3, <2>4 DEF Planning
<1>8. CASE Building
  <2>1. CASE Code \/ BuildPasses
    BY <2>1 DEF Code, BuildPasses, localVars, Onward, Forth
  <2>2. CASE CodePartly
    BY <2>2, <1>4 DEF CodePartly, Walking
  <2>3. CASE CodeNothing \/ VerificationStopped
    BY <2>3, <1>2 DEF CodeNothing, VerificationStopped, Onward
  <2>4. CASE HealerGivesUp \/ HealingStops \/ RoundBestKept
    <3>1. place = "verifying" /\ Again
      BY <2>4 DEF HealerGivesUp, HealingStops, RoundBestKept, VerificationFails
    <3> QED
      BY <3>1, <1>3 DEF Onward, Walking
  <2> QED
    BY <1>8, <2>1, <2>2, <2>3, <2>4 DEF Building
<1>9. CASE Reviewing
  <2>1. CASE ReviewDiff \/ ReviewAdvisory \/ ReviewPasses
    BY <2>1 DEF ReviewDiff, ReviewAdvisory, ReviewPasses, Judged, Onward, Forth
  <2>2. CASE DiffRefused \/ CriticBlocks \/ ReviewerBlocks
    <3>1. place = "judging" /\ Again
      BY <2>2 DEF DiffRefused, CriticBlocks, ReviewerBlocks, Judged
    <3> QED
      BY <3>1, <1>3 DEF Onward, Walking
  <2>3. CASE EmptyDiff
    BY <2>3, <1>2, <1>3 DEF EmptyDiff, Onward, Walking
  <2>4. CASE CosmeticDiff \/ ReviewError \/ ReviewShips
    BY <2>4, <1>1, <1>2 DEF CosmeticDiff, ReviewError, ReviewShips, Onward
  <2> QED
    BY <1>9, <2>1, <2>2, <2>3, <2>4 DEF Reviewing
<1>10. CASE Ending
  <2>1. CASE Exhausted \/ GatesHold
    BY <2>1 DEF Exhausted, GatesHold, GatesPass, localVars, Onward, Forth
  <2>2. CASE OutOfAttempts \/ OpensPR \/ WaitsForHuman
    BY <2>2, <1>1, <1>2 DEF OutOfAttempts, OpensPR, WaitsForHuman, Onward
  <2>3. CASE NotVerified \/ GateFails
    BY <2>3, <1>5 DEF NotVerified, GateFails
  <2> QED
    BY <1>10, <2>1, <2>2, <2>3 DEF Ending
<1> QED
  BY <1>6, <1>7, <1>8, <1>9, <1>10 DEF Next, Execution

\* Whatever leads onward leaves fewer steps.
LEMMA OnwardIsShorter ==
    ASSUME FlowInv, place # "idle", Onward
    PROVE  StepsLeft' \in 0..StepsLeft - 1
<1>1. /\ place \in Place \ {"idle"}
      /\ place \in Walking => attempt \in 1..3
      /\ place \in {"exhausted", "handing", "publishing"} => attempt \in 1..4
  BY DEF FlowInv, TypeOK, CountStands, Attempts
<1>2. StepsLeft \in Nat \ {0}
  BY <1>1 DEF StepsLeft, AttemptsLeft, ToGo, Place, Walking, Attempts
<1>3. CASE place' = "idle"
  <2>1. StepsLeft' = 0
    BY <1>3 DEF StepsLeft, AttemptsLeft, ToGo
  <2> QED
    BY <1>2, <2>1
<1>4. CASE place = "start" /\ place' = "analysis"
  BY <1>4 DEF StepsLeft, AttemptsLeft, ToGo, Attempts
<1>5. CASE place = "analysis" /\ place' = "attempt" /\ attempt' = 1
  BY <1>5 DEF StepsLeft, AttemptsLeft, ToGo, Attempts
<1>6. CASE place \in Walking \cup {"handing"} /\ attempt \in 1..Attempts /\ Again
  <2>1. /\ attempt \in 1..3 /\ attempt' = attempt + 1
        /\ place' = IF attempt < 3 THEN "attempt" ELSE "exhausted"
    BY <1>6 DEF Again, Attempts
  <2>2. AttemptsLeft = 4 - attempt /\ ToGo[place] \in 2..9
    BY <1>6 DEF AttemptsLeft, ToGo, Walking, Attempts
  <2>3. CASE attempt < 3
    <3>1. AttemptsLeft' = 3 - attempt /\ ToGo[place'] = 9
      BY <2>1, <2>3 DEF AttemptsLeft, ToGo, Attempts
    <3> QED
      BY <2>1, <2>2, <3>1 DEF StepsLeft
  <2>4. CASE attempt = 3
    <3>1. AttemptsLeft' = 0 /\ ToGo[place'] = 3
      BY <2>1, <2>4 DEF AttemptsLeft, ToGo, Attempts
    <3> QED
      BY <2>2, <2>4, <3>1 DEF StepsLeft
  <2> QED
    BY <2>1, <2>3, <2>4
<1>7. CASE <<place, place'>> \in Forth /\ attempt' = attempt
  <2>1. /\ place \in Walking \cup {"exhausted", "handing"} /\ attempt \in 1..4
        /\ place' \in Place \ {"idle", "start", "analysis"}
    BY <1>1, <1>7 DEF Forth, Walking, Place
  <2>2. AttemptsLeft = 4 - attempt /\ AttemptsLeft' = 4 - attempt
    BY <1>7, <2>1 DEF AttemptsLeft, Walking, Attempts
  <2>3. ToGo[place] \in Nat /\ ToGo[place'] \in 0..ToGo[place] - 1
    BY <1>7 DEF ToGo, Forth
  <2> QED
    BY <2>1, <2>2, <2>3 DEF StepsLeft
<1> QED
  BY <1>3, <1>4, <1>5, <1>6, <1>7 DEF Onward

\* An execution takes at most StepsLeft more steps, whatever models, builds, critics,
\* reviewers and gates say, and whether or not it was approved before: refusals cost
\* attempts, and there is no way round the loop for nothing (flow.go: execute).
THEOREM StepsRunOut == Spec => NoStepIsFree
<1>1. FlowInv /\ [Next]_vars => [place # "idle" => StepsLeft' \in 0..StepsLeft - 1]_vars
  BY StepsGoOnward, OnwardIsShorter
<1> QED
  BY FlowStands, <1>1, PTL DEF Spec, NoStepIsFree

-----------------------------------------------------------------------------
(***************************************************************************)
(* The chains that executions leave end: no path of a family is longer     *)
(* than twice the number of repositories, whatever depths clients send and *)
(* the environment names.                                                  *)
(*                                                                         *)
(* The argument counts the repositories a path has seen.  A request that   *)
(* does not make a state goes to a repository the path has not seen; one   *)
(* that does may come back, but does not ask for a state itself.           *)
(***************************************************************************)

\* The length of a path against the repositories on it.
PathCounts(q) ==
    Len(q.parents) + 1 <= 2 * Cardinality(Visited(q)) - (IF q.addsState THEN 0 ELSE 1)

ChainInv == ChainTypeOK /\ \A k \in 1..Len(requests) : PathCounts(requests[k])

USE ChainAssumption

\* A function on 1..n is a sequence of length n.
LEMMA FunctionIsSequence ==
    ASSUME NEW S, NEW n \in Nat, NEW f \in [1..n -> S]
    PROVE  f \in Seq(S) /\ Len(f) = n
  OBVIOUS

\* What a path has seen is finite.
LEMMA VisitedFinite ==
    ASSUME NEW q \in Request
    PROVE  /\ Visited(q) \subseteq Repo
           /\ IsFiniteSet(Visited(q))
           /\ Cardinality(Visited(q)) \in Nat
           /\ Cardinality(Visited(q)) <= Cardinality(Repo)
<1>1. Visited(q) \subseteq Repo
  <2>1. q.parents \in [1..Len(q.parents) -> Repo] /\ q.repo \in Repo
    BY DEF Request
  <2>2. Range(q.parents) \subseteq Repo
    BY <2>1 DEF Range
  <2> QED
    BY <2>1, <2>2 DEF Visited
<1>2. IsFiniteSet(Visited(q)) /\ Cardinality(Visited(q)) <= Cardinality(Repo)
  BY <1>1, FS_Subset
<1> QED
  BY <1>1, <1>2, FS_CardinalityType

\* A child has seen what its author has, its author and itself.
LEMMA ChildVisits ==
    ASSUME NEW q \in Request, NEW r \in Repo, NEW state \in BOOLEAN,
           ChainDepth(q.depth) > 0
    PROVE  /\ Child(q, r, state) \in Request
           /\ Visited(Child(q, r, state)) = Visited(q) \cup {r}
           /\ Len(Child(q, r, state).parents) = Len(q.parents) + 1
<1> DEFINE c == Child(q, r, state)
<1>1. q.parents \in Seq(Repo) /\ q.repo \in Repo /\ q.depth \in Nat
  BY DEF Request
<1>2. ChainDepth(q.depth) - 1 \in Nat
  BY <1>1 DEF ChainDepth
<1>3. Append(q.parents, q.repo) \in Seq(Repo)
  BY <1>1
<1>4. c \in Request
  BY <1>2, <1>3 DEF Child, Request
<1>5. c.parents = Append(q.parents, q.repo) /\ c.repo = r
  BY DEF Child
<1>6. Len(c.parents) = Len(q.parents) + 1
  BY <1>1, <1>5
<1>7. Range(c.parents) = Range(q.parents) \cup {q.repo}
  <2>1. DOMAIN c.parents = 1..(Len(q.parents) + 1)
    BY <1>1, <1>5
  <2>2. \A k \in 1..Len(q.parents) : c.parents[k] = q.parents[k]
    BY <1>1, <1>5
  <2>3. c.parents[Len(q.parents) + 1] = q.repo
    BY <1>1, <1>5
  <2>4. DOMAIN q.parents = 1..Len(q.parents) /\ Len(q.parents) \in Nat
    BY <1>1
  <2> QED
    BY <2>1, <2>2, <2>3, <2>4, SMTT(30) DEF Range
<1> QED
  BY <1>4, <1>5, <1>6, <1>7 DEF Visited

\* A child keeps the count when its repository is new to the path, or when it makes a
\* state and its author does not.
LEMMA ChildCounts ==
    ASSUME NEW q \in Request, NEW r \in Repo, NEW state \in BOOLEAN,
           ChainDepth(q.depth) > 0, PathCounts(q),
           IF state THEN ~q.addsState ELSE r \in Fresh(q)
    PROVE  Child(q, r, state) \in Request /\ PathCounts(Child(q, r, state))
<1> DEFINE c == Child(q, r, state)
           places == Cardinality(Visited(q))
<1>1. /\ c \in Request
      /\ Visited(c) = Visited(q) \cup {r}
      /\ Len(c.parents) = Len(q.parents) + 1
  BY ChildVisits
<1>2. c.addsState = state /\ q.addsState \in BOOLEAN /\ Len(q.parents) \in Nat
  BY DEF Child, Request
<1>3. IsFiniteSet(Visited(q)) /\ places \in Nat
  BY VisitedFinite
<1>4. Cardinality(Visited(c)) = IF r \in Visited(q) THEN places ELSE places + 1
  BY <1>1, <1>3, FS_AddElement
<1>5. Len(q.parents) + 1 <= 2 * places - (IF q.addsState THEN 0 ELSE 1)
  BY DEF PathCounts
<1>6. Len(q.parents) \in Nat
  BY <1>2
<1> HIDE DEF c, places
<1>7. ASSUME state PROVE PathCounts(c)
  <2>1. ~q.addsState /\ Cardinality(Visited(c)) \in {places, places + 1}
    BY <1>4, <1>7
  <2> QED
    BY <1>1, <1>2, <1>3, <1>5, <1>7, <2>1 DEF PathCounts
<1>8. ASSUME ~state PROVE PathCounts(c)
  <2>1. Cardinality(Visited(c)) = places + 1
    BY <1>4, <1>8 DEF Fresh
  <2>2. Len(q.parents) + 1 <= 2 * places
    <3>1. CASE q.addsState
      BY <1>3, <1>5, <1>6, <3>1
    <3>2. CASE ~q.addsState
      BY <1>3, <1>5, <1>6, <3>2
    <3> QED
      BY <3>1, <3>2
  <2>3. c.addsState = FALSE
    BY <1>2, <1>8
  <2>4. Len(c.parents) + 1 <= 2 * (places + 1) - 1
    BY <1>1, <1>2, <1>3, <2>2
  <2> QED
    BY <2>1, <2>3, <2>4 DEF PathCounts
<1> QED
  BY <1>1, <1>7, <1>8 DEF c

\* A family grows by requests that keep the count.
LEMMA LeaveKeeps ==
    ASSUME ChainInv, finished < Len(requests),
           NEW left \in Seq(Request),
           \A k \in 1..Len(left) : PathCounts(left[k]),
           Leave(left)
    PROVE  ChainInv'
<1>1. requests \in Seq(Request) /\ finished \in 0..Len(requests)
  BY DEF ChainInv, ChainTypeOK
<1>2. requests' = requests \o left /\ finished' = finished + 1
  BY DEF Leave
<1>3. /\ requests' \in Seq(Request)
      /\ Len(requests') = Len(requests) + Len(left)
      /\ \A k \in 1..Len(requests') :
            requests'[k] = IF k <= Len(requests) THEN requests[k]
                           ELSE left[k - Len(requests)]
  BY <1>1, <1>2, ConcatProperties
<1>4. Len(requests) \in Nat /\ Len(left) \in Nat
  BY <1>1
<1>5. ChainTypeOK'
  BY <1>1, <1>2, <1>3, <1>4 DEF ChainTypeOK
<1>6. ASSUME NEW k \in 1..Len(requests')
      PROVE  PathCounts(requests'[k])
  <2>1. CASE k <= Len(requests)
    BY <1>3, <1>4, <2>1 DEF ChainInv
  <2>2. CASE k > Len(requests)
    <3>1. k - Len(requests) \in 1..Len(left)
      BY <1>3, <1>4, <2>2
    <3>2. requests'[k] = left[k - Len(requests)]
      BY <1>3, <1>4, <2>2
    <3> QED
      BY <3>1, <3>2
  <2> QED
    BY <1>3, <1>4, <2>1, <2>2
<1>7. \A k \in 1..Len(requests') : PathCounts(requests'[k])
  BY <1>6
<1> QED
  BY <1>5, <1>7 DEF ChainInv, PathCounts, Visited

\* The first request has seen one repository.
LEMMA InitCounts == ChainInit => ChainInv
<1> SUFFICES ASSUME ChainInit PROVE ChainInv
  OBVIOUS
<1>1. PICK r \in Repo, d \in RootDepth :
        requests = <<[repo |-> r, depth |-> d, parents |-> <<>>, addsState |-> FALSE]>>
  BY DEF ChainInit
<1> DEFINE q == [repo |-> r, depth |-> d, parents |-> <<>>, addsState |-> FALSE]
<1>2. q \in Request
  <2>1. <<>> \in Seq(Repo)
    OBVIOUS
  <2>2. d \in Nat
    OBVIOUS
  <2> QED
    BY <2>1, <2>2 DEF Request
<1>3. requests = <<q>> /\ requests \in Seq(Request) /\ Len(requests) = 1
  BY <1>1, <1>2
<1>4. Visited(q) = {r}
  BY DEF Visited, Range
<1>5. PathCounts(q)
  <2>1. Cardinality(Visited(q)) = 1
    BY <1>4, FS_Singleton
  <2>2. Len(q.parents) = 0 /\ q.addsState = FALSE
    OBVIOUS
  <2> HIDE DEF q
  <2> QED
    BY <2>1, <2>2 DEF PathCounts
<1> HIDE DEF q
<1>6. \A k \in 1..Len(requests) : requests[k] = q
  BY <1>3
<1>7. \A k \in 1..Len(requests) : PathCounts(requests[k])
  BY <1>5, <1>6
<1>8. ChainTypeOK
  BY <1>3 DEF ChainTypeOK, ChainInit
<1> QED
  BY <1>7, <1>8 DEF ChainInv

\* What an execution of q leaves are children of q: in repositories new to the path, or
\* to make a state, if q does not make it.
ChildOf(c, q) ==
    /\ ChainDepth(q.depth) > 0
    /\ \E r \in Repo, state \in BOOLEAN :
          /\ IF state THEN ~q.addsState ELSE r \in Fresh(q)
          /\ c = Child(q, r, state)

\* Every execution leaves a sequence of children, or nothing.
LEMMA ExecutionLeavesChildren ==
    ASSUME ChainInv, ChainNext
    PROVE  \E left \in Seq(Request) :
              Leave(left) /\ \A k \in 1..Len(left) : ChildOf(left[k], requests[finished + 1])
<1> DEFINE q == requests[finished + 1]
           Goal == \E left \in Seq(Request) : Leave(left) /\ \A k \in 1..Len(left) : ChildOf(left[k], q)
<1>1. Execute(q) /\ q \in Request
  BY DEF ChainNext, ChainInv, ChainTypeOK
<1> SUFFICES Goal
  OBVIOUS
<1> HIDE DEF q
\* Children in repositories that the path has not seen, as a function.
<1>2. ASSUME NEW n \in Nat, NEW hit \in [1..n -> Fresh(q)], ChainDepth(q.depth) > 0,
             Leave([k \in 1..n |-> Child(q, hit[k], FALSE)])
      PROVE  Goal
  <2> DEFINE left == [k \in 1..n |-> Child(q, hit[k], FALSE)]
  <2>1. \A k \in 1..n : hit[k] \in Repo /\ Child(q, hit[k], FALSE) \in Request
    BY <1>1, <1>2, ChildVisits DEF Fresh
  <2>2. left \in [1..n -> Request]
    BY <2>1
  <2>3. \A k \in 1..n : left[k] = Child(q, hit[k], FALSE)
    OBVIOUS
  <2>4. Leave(left)
    BY <1>2
  <2> HIDE DEF left
  <2>5. left \in Seq(Request) /\ Len(left) = n
    BY <2>2, FunctionIsSequence
  <2>6. \A k \in 1..Len(left) : ChildOf(left[k], q)
    BY <1>2, <2>1, <2>3, <2>5 DEF ChildOf
  <2> QED
    BY <2>4, <2>5, <2>6
<1>3. CASE NoChain(q)
  <2>1. Leave(<<>>) /\ <<>> \in Seq(Request) /\ Len(<<>>) = 0
    BY <1>3 DEF NoChain
  <2>2. \A k \in 1..Len(<<>>) : ChildOf(<<>>[k], q)
    BY <2>1
  <2> QED
    BY <2>1, <2>2
<1>4. CASE Impact(q)
  <2>1. PICK n \in 1..MaxImpactTasks : \E hit \in [1..n -> Fresh(q)] :
          Leave([k \in 1..n |-> Child(q, hit[k], FALSE)])
    BY <1>4 DEF Impact
  <2>2. n \in Nat /\ ChainDepth(q.depth) > 0
    BY <1>4 DEF Impact, MaySpread
  <2> QED
    BY <1>2, <2>1, <2>2
<1>5. CASE MissingContract(q)
  <2>1. PICK n \in 1..Cardinality(Fresh(q) \cap Local) :
          \E owner \in Injection(1..n, Fresh(q) \cap Local) :
             Leave([k \in 1..n |-> Child(q, owner[k], FALSE)])
    BY <1>5 DEF MissingContract
  <2>2. n \in Nat /\ ChainDepth(q.depth) > 0
    BY <1>5 DEF MissingContract, MaySpread
  <2>3. \A owner \in Injection(1..n, Fresh(q) \cap Local) : owner \in [1..n -> Fresh(q)]
    BY DEF Injection, IsInjective
  <2> QED
    BY <1>2, <2>1, <2>2, <2>3
<1>6. CASE MissingState(q)
  <2>1. PICK r \in Local : Leave(<<Child(q, r, TRUE)>>)
    BY <1>6 DEF MissingState
  <2>2. ~q.addsState /\ ChainDepth(q.depth) > 0
    BY <1>6 DEF MissingState, MaySpread
  <2> DEFINE c == Child(q, r, TRUE)
  <2>3. c \in Request /\ ChildOf(c, q)
    BY <1>1, <2>2, ChildVisits DEF ChildOf
  <2> HIDE DEF c
  <2>4. <<c>> \in Seq(Request) /\ Len(<<c>>) = 1 /\ <<c>>[1] = c
    BY <2>3
  <2>5. Leave(<<c>>)
    BY <2>1 DEF c
  <2>6. \A k \in 1..Len(<<c>>) : ChildOf(<<c>>[k], q)
    BY <2>3, <2>4
  <2> QED
    BY <2>4, <2>5, <2>6
<1> QED
  BY <1>1, <1>3, <1>4, <1>5, <1>6 DEF Execute

\* Every execution leaves requests that keep the count.
LEMMA StepCounts == ChainInv /\ [ChainNext]_chainVars => ChainInv'
<1> SUFFICES ASSUME ChainInv, [ChainNext]_chainVars PROVE ChainInv'
  OBVIOUS
<1> DEFINE q == requests[finished + 1]
<1>1. CASE UNCHANGED chainVars
  BY <1>1 DEF chainVars, ChainInv, ChainTypeOK, PathCounts, Visited
<1>2. CASE ChainNext
  <2>1. finished < Len(requests) /\ q \in Request /\ PathCounts(q)
    BY <1>2 DEF ChainNext, ChainInv, ChainTypeOK
  <2>2. PICK left \in Seq(Request) : Leave(left) /\ \A k \in 1..Len(left) : ChildOf(left[k], q)
    BY <1>2, ExecutionLeavesChildren
  <2> HIDE DEF q
  <2>3. \A k \in 1..Len(left) : PathCounts(left[k])
    BY <2>1, <2>2, ChildCounts DEF ChildOf
  <2> QED
    BY <2>1, <2>2, <2>3, LeaveKeeps
<1> QED
  BY <1>1, <1>2

\* The requests of a family are well formed and keep the count.
THEOREM ChainInductive == ChainSpec => []ChainInv
  BY InitCounts, StepCounts, PTL DEF ChainSpec

\* No path is longer than twice the number of repositories, so a family is finite
\* (chain_depth.go, chain_reaction.go, missing_contract.go, state_chain.go).
THEOREM ChainsEnd == ChainSpec => []PathIsBounded
<1>1. ChainInv => PathIsBounded
  <2> SUFFICES ASSUME ChainInv, NEW k \in 1..Len(requests)
               PROVE  Len(requests[k].parents) < 2 * Cardinality(Repo)
    BY DEF PathIsBounded
  <2> DEFINE q == requests[k]
  <2>1. q \in Request /\ PathCounts(q)
    BY DEF ChainInv, ChainTypeOK
  <2>2. Cardinality(Visited(q)) \in Nat /\ Cardinality(Visited(q)) <= Cardinality(Repo)
    BY <2>1, VisitedFinite
  <2>3. Cardinality(Repo) \in Nat
    BY FS_CardinalityType
  <2>4. Len(q.parents) \in Nat /\ q.addsState \in BOOLEAN
    BY <2>1 DEF Request
  <2> QED
    BY <2>1, <2>2, <2>3, <2>4 DEF PathCounts
<1> QED
  BY <1>1, ChainInductive, PTL

-----------------------------------------------------------------------------
(* The depth of the root.                                                  *)

\* What a path has used of the depth of its root, and what it has left.
DepthCounts ==
    /\ requests # <<>>
    /\ \A k \in 1..Len(requests) : Len(requests[k].parents) + requests[k].depth <= requests[1].depth

\* With SWARM_CHAIN_DEPTH = 0 no depth is renewed: a child has one repository more behind it and
\* one step less before it.
LEMMA DepthStep ==
    ASSUME EnvDepth = 0, ChainInv, DepthCounts, [ChainNext]_chainVars
    PROVE  DepthCounts'
<1> DEFINE q == requests[finished + 1]
<1>1. CASE UNCHANGED chainVars
  BY <1>1 DEF chainVars, DepthCounts
<1>2. CASE ChainNext
  <2>1. /\ finished < Len(requests) /\ finished + 1 \in 1..Len(requests)
        /\ requests \in Seq(Request) /\ q \in Request
    BY <1>2 DEF ChainNext, ChainInv, ChainTypeOK
  <2>2. PICK left \in Seq(Request) : Leave(left) /\ \A k \in 1..Len(left) : ChildOf(left[k], q)
    BY <1>2, ExecutionLeavesChildren
  <2>3. Len(q.parents) + q.depth <= requests[1].depth
    BY <2>1 DEF DepthCounts
  <2>4. requests[1] \in Request
    BY <2>1
  <2>5. Len(q.parents) \in Nat /\ q.depth \in Nat /\ requests[1].depth \in Nat
    BY <2>1, <2>4 DEF Request
  <2> HIDE DEF q
  <2>6. ASSUME NEW k \in 1..Len(left)
        PROVE  Len(left[k].parents) + left[k].depth <= requests[1].depth
    <3>1. ChainDepth(q.depth) = q.depth /\ q.depth > 0
      BY <2>2, <2>5 DEF ChildOf, ChainDepth
    <3>2. PICK r \in Repo, state \in BOOLEAN : left[k] = Child(q, r, state)
      BY <2>2 DEF ChildOf
    <3>3. Len(left[k].parents) = Len(q.parents) + 1
      BY <2>1, <3>1, <3>2, ChildVisits
    <3>4. left[k].depth = q.depth - 1
      BY <3>1, <3>2 DEF Child
    <3> QED
      BY <2>3, <2>5, <3>1, <3>3, <3>4
  <2>7. /\ Len(requests') = Len(requests) + Len(left)
        /\ \A k \in 1..Len(requests') :
              requests'[k] = IF k <= Len(requests) THEN requests[k]
                             ELSE left[k - Len(requests)]
    BY <2>1, <2>2, ConcatProperties DEF Leave
  <2>8. Len(requests) \in Nat \ {0} /\ Len(left) \in Nat
    BY <2>1 DEF DepthCounts
  <2>9. requests'[1] = requests[1] /\ requests' # <<>>
    BY <2>7, <2>8
  <2>10. ASSUME NEW k \in 1..Len(requests')
         PROVE  Len(requests'[k].parents) + requests'[k].depth <= requests'[1].depth
    <3>1. CASE k <= Len(requests)
      BY <2>7, <2>8, <2>9, <3>1 DEF DepthCounts
    <3>2. CASE k > Len(requests)
      <4>1. k - Len(requests) \in 1..Len(left) /\ requests'[k] = left[k - Len(requests)]
        BY <2>7, <2>8, <3>2
      <4> QED
        BY <2>6, <2>9, <4>1
    <3> QED
      BY <2>7, <2>8, <3>1, <3>2
  <2>11. \A k \in 1..Len(requests') : Len(requests'[k].parents) + requests'[k].depth <= requests'[1].depth
    BY <2>10
  <2> QED
    BY <2>9, <2>11 DEF DepthCounts
<1> QED
  BY <1>1, <1>2

\* Where SWARM_CHAIN_DEPTH is 0, the depth a client sends bounds every path (chain_depth.go,
\* childRequest): it is only the default that renews a depth that is used up.
THEOREM DepthIsSpent ==
    ASSUME EnvDepth = 0
    PROVE  ChainSpec => []DepthBoundsPath
<1>1. ChainInit => DepthCounts
  <2> SUFFICES ASSUME ChainInit PROVE DepthCounts
    OBVIOUS
  <2>1. PICK r \in Repo, d \in RootDepth :
          requests = <<[repo |-> r, depth |-> d, parents |-> <<>>, addsState |-> FALSE]>>
    BY DEF ChainInit
  <2>2. Len(requests) = 1 /\ Len(requests[1].parents) = 0 /\ requests[1].depth = d /\ d \in Nat
    BY <2>1
  <2>3. \A k \in 1..Len(requests) : k = 1
    BY <2>2
  <2> QED
    BY <2>1, <2>2, <2>3 DEF DepthCounts
<1>2. ChainInv /\ DepthCounts /\ [ChainNext]_chainVars => DepthCounts'
  BY DepthStep
<1>3. ChainInv /\ DepthCounts => DepthBoundsPath
  <2> SUFFICES ASSUME ChainInv, DepthCounts, NEW k \in 1..Len(requests)
               PROVE  Len(requests[k].parents) <= ChainDepth(requests[1].depth)
    BY DEF DepthBoundsPath
  <2>1. Len(requests[k].parents) + requests[k].depth <= requests[1].depth
    BY DEF DepthCounts
  <2>2. requests[k] \in Request /\ 1 \in 1..Len(requests) /\ requests[1] \in Request
    BY DEF ChainInv, ChainTypeOK
  <2>3. Len(requests[k].parents) \in Nat /\ requests[k].depth \in Nat /\ requests[1].depth \in Nat
    BY <2>2 DEF Request
  <2> QED
    BY <2>1, <2>3 DEF ChainDepth
<1> QED
  BY ChainInductive, <1>1, <1>2, <1>3, PTL DEF ChainSpec
=============================================================================
