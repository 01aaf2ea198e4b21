---------------------------- MODULE VariantFlow ----------------------------
(***************************************************************************)
(* The addition of one value to several repositories (tryVariantAddition   *)
(* to applyOneRepo) by tasks that run at the same time, with what a human  *)
(* says in between (steering), with pushes and pull requests that fail at  *)
(* every step, with restarts and with approvals that run a task again.     *)
(*                                                                         *)
(* Local branches, remote branches and pull requests survive everything.   *)
(* The results, the blockers and a taken stop live in memory.  The branch  *)
(* of a task is named after the task, so two tasks never share one.        *)
(***************************************************************************)
EXTENDS Naturals, Sequences, FiniteSets, SequencesExt

CONSTANTS
    Task,       \* the tasks, all of them adding the same value
    Repo,
    Plans,      \* the plans the knowledge service may answer with
    Message,    \* what humans say to a running task, each of it once
    MaxRuns,    \* bound: executions of one task
    MaxCrashes  \* bound: restarts of the process

\* Publish = protogen-make, len(Changes) > 0, Blocks; named: the request names
\* no repository or this one.
Entry == [repo : Repo, make : BOOLEAN, sites : BOOLEAN, blocks : BOOLEAN, named : BOOLEAN]

\* What ParseSteer reads out of a message.
Steer == [task : Task, stop : BOOLEAN, only : SUBSET Repo, exclude : SUBSET Repo]

ASSUME VariantAssumption ==
    /\ \A p \in Plans : /\ p \in Seq(Entry) /\ p # <<>>
                        /\ \A i, j \in DOMAIN p : p[i].repo = p[j].repo => i = j
    /\ Message \subseteq Steer
    /\ \A m \in Message : m.only \cap m.exclude = {}
    /\ MaxRuns \in Nat /\ MaxCrashes \in Nat

VARIABLES
    plan,           \* the answer of the knowledge service
    pc, pos, out,   \* where each execution is in the plan and its results
    work,           \* the edit that is about to be committed
    stopped,        \* steerStopped
    end,            \* how the last execution ended
    runs, crashes,
    door,           \* the rows of TaskSteer, and requests not yet inserted
    branch,         \* local branches of the source clones
    tree,           \* worktrees: of this execution, left by a dead one
    pushed,         \* branches at the remote
    prs             \* open pull requests

runVars == <<pc, pos, out, work, stopped, end>>
gitVars == <<branch, tree, pushed, prs>>
vars == <<plan, runVars, runs, crashes, door, gitVars>>

\* pending: an undefined name that the plan itself adds to proto; missing: any
\* other undefined name; wrong: every other build error.
BuildError == {"pending", "missing", "wrong"}
Kind == {"made", "plain", "known", "opened", "compare", "failed"}
Edit == [draft : BOOLEAN, looked : BOOLEAN, errs : SUBSET BuildError]
NoEdit == [draft |-> FALSE, looked |-> FALSE, errs |-> {}]
Place == {"waiting", "steer", "plan", "tree", "edit", "commit", "push", "open", "stop", "over"}

TypeOK ==
    /\ plan \in Plans
    /\ pc \in [Task -> Place]
    /\ pos \in [Task -> Nat \ {0}]
    /\ out \in [Task -> Seq([repo : Repo, kind : Kind, draft : BOOLEAN])]
    /\ work \in [Task -> Edit]
    /\ stopped \in [Task -> BOOLEAN]
    /\ end \in [Task -> {"", "completed", "failed", "defect"}]
    /\ runs \in [Task -> 0..MaxRuns] /\ crashes \in 0..MaxCrashes
    /\ door \in [Message -> {"unsent", "checked", "pending", "applied"}]
    /\ branch \in [Task -> [Repo -> {"none", "base", "edited"}]]
    /\ tree \in [Task -> [Repo -> {"none", "mine", "left"}]]
    /\ pushed \in [Task -> [Repo -> BOOLEAN]]
    /\ prs \subseteq [task : Task, repo : Repo, asked : BOOLEAN, draft : BOOLEAN, edit : Edit]

Init ==
    /\ plan \in Plans
    /\ pc = [t \in Task |-> "waiting"] /\ pos = [t \in Task |-> 1]
    /\ out = [t \in Task |-> <<>>] /\ work = [t \in Task |-> NoEdit]
    /\ stopped = [t \in Task |-> FALSE] /\ end = [t \in Task |-> ""]
    /\ runs = [t \in Task |-> 0] /\ crashes = 0
    /\ door = [m \in Message |-> "unsent"]
    /\ branch = [t \in Task |-> [r \in Repo |-> "none"]]
    /\ tree = [t \in Task |-> [r \in Repo |-> "none"]]
    /\ pushed = [t \in Task |-> [r \in Repo |-> FALSE]]
    /\ prs = {}
-----------------------------------------------------------------------------
(* What a human says.                                                      *)

Finished(t) == pc[t] = "over" /\ end[t] \in {"completed", "failed"}

\* HandleSteerTask reads the status and inserts the row afterwards.
SteerChecked(m) ==
    /\ door[m] = "unsent" /\ ~Finished(m.task)
    /\ door' = [door EXCEPT ![m] = "checked"]
    /\ UNCHANGED <<plan, runVars, runs, crashes, gitVars>>

AddSteer(m) ==
    /\ door[m] = "checked"
    /\ door' = [door EXCEPT ![m] = "pending"]
    /\ UNCHANGED <<plan, runVars, runs, crashes, gitVars>>

PendingSteers(t) == {m \in Message : m.task = t /\ door[m] = "pending"}

Done(t) == {res.repo : res \in Range(out[t])}
RemainingRepos(t) == {e.repo : e \in Range(plan)} \ Done(t)

\* A message is compared with the repositories that have no result yet.
Only(t, ms) == UNION {m.only : m \in ms} \cap RemainingRepos(t)
Exclude(t, ms) == UNION {m.exclude : m \in ms} \cap RemainingRepos(t)
KeepRepo(t, ms, r) ==
    /\ Only(t, ms) # {} => r \in Only(t, ms)
    /\ r \notin Exclude(t, ms)

MarkSteersApplied(ms) == [m \in Message |-> IF m \in ms THEN "applied" ELSE door[m]]
-----------------------------------------------------------------------------
(* The walk over the plan.                                                 *)

This(t) == plan[pos[t]]

Begin(t) ==
    /\ pc[t] = "waiting" /\ runs[t] < MaxRuns
    /\ runs' = [runs EXCEPT ![t] = @ + 1]
    /\ pos' = [pos EXCEPT ![t] = 1] /\ out' = [out EXCEPT ![t] = <<>>]
    /\ stopped' = [stopped EXCEPT ![t] = FALSE]
    /\ \E e \in {"", "failed", "defect"} :
        \* no key or no workspace: failed; no answer or no such request: the
        \* defect flow takes over
        /\ end' = [end EXCEPT ![t] = e]
        /\ pc' = [pc EXCEPT ![t] = IF e = "" THEN "steer" ELSE "over"]
    /\ UNCHANGED <<plan, work, crashes, door, gitVars>>

\* The walk breaks off.
AfterStopGoesOn(t) == "plan"
AfterStop(t) == "stop"

\* A step that listens.  What it hears decides about this entry alone.
Heed(t) ==
    LET ms == PendingSteers(t) IN
    /\ pc[t] = "steer" /\ pos[t] <= Len(plan) /\ ms # {}
    /\ door' \in {MarkSteersApplied(ms), door}
    /\ \/ /\ \E m \in ms : m.stop
          /\ stopped' = [stopped EXCEPT ![t] = TRUE]
          /\ pc' = [pc EXCEPT ![t] = AfterStop(t)]
          /\ UNCHANGED pos
       \/ /\ \A m \in ms : ~m.stop
          /\ ~KeepRepo(t, ms, This(t).repo)
          /\ pos' = [pos EXCEPT ![t] = @ + 1]
          /\ UNCHANGED <<pc, stopped>>
       \/ /\ \A m \in ms : ~m.stop
          /\ KeepRepo(t, ms, This(t).repo)
          /\ pc' = [pc EXCEPT ![t] = "plan"]
          /\ UNCHANGED <<pos, stopped>>
    /\ UNCHANGED <<plan, out, work, end, runs, crashes, gitVars>>

\* Nothing pending, or the query failed.
HearNothing(t) ==
    /\ pc[t] = "steer" /\ pos[t] <= Len(plan)
    /\ pc' = [pc EXCEPT ![t] = "plan"]
    /\ UNCHANGED <<plan, pos, out, work, stopped, end, runs, crashes, door, gitVars>>

\* A result is appended and the walk goes on with the next entry.
Record(t, kind, draft) ==
    /\ out' = [out EXCEPT ![t] = Append(@, [repo |-> This(t).repo, kind |-> kind, draft |-> draft])]
    /\ pos' = [pos EXCEPT ![t] = @ + 1]
    /\ pc' = [pc EXCEPT ![t] = "steer"]
    /\ work' = [work EXCEPT ![t] = NoEdit]
    /\ UNCHANGED <<plan, stopped, end, runs, crashes, door>>

\* What must be merged or made first: followers are asked for as drafts.
IsBlockerIfNew(res) ==
    \/ res.kind = "made"
    \/ /\ res.kind = "opened"
       /\ \E e \in Range(plan) : e.repo = res.repo /\ e.blocks
IsBlocker(res) ==
    \/ res.kind = "made"
    \/ /\ res.kind \in {"known", "opened"}
       /\ \E e \in Range(plan) : e.repo = res.repo /\ e.blocks
Blockers(t) == {res \in Range(out[t]) : IsBlocker(res)}

RecordProtoPublish(t) ==
    /\ pc[t] = "plan" /\ This(t).make
    /\ Record(t, "made", FALSE)
    /\ UNCHANGED gitVars

NoSite(t) ==
    /\ pc[t] = "plan" /\ ~This(t).make /\ ~This(t).sites
    /\ Record(t, "plain", FALSE)
    /\ UNCHANGED gitVars

IsOpen(r) == \E p \in prs : p.repo = r

UseExistingPR(t) ==
    /\ pc[t] = "plan" /\ ~This(t).make /\ This(t).sites
    /\ IsOpen(This(t).repo)
    /\ Record(t, "known", FALSE)
    /\ UNCHANGED gitVars

\* No pull request, or the lookup failed.
NoExistingPR(t) ==
    /\ pc[t] = "plan" /\ ~This(t).make /\ This(t).sites
    /\ pc' = [pc EXCEPT ![t] = "tree"]
    /\ UNCHANGED <<plan, pos, out, work, stopped, end, runs, crashes, door, gitVars>>
-----------------------------------------------------------------------------
(* One repository.                                                         *)

\* A branch of an earlier execution is checked out as it is, unless a worktree
\* of that execution still holds it.
BranchInFresh(t, r) == "base"
BranchIn(t, r) == IF branch[t][r] = "none" THEN "base" ELSE branch[t][r]

CreateWorktree(t) ==
    LET r == This(t).repo IN
    /\ pc[t] = "tree"
    /\ branch[t][r] # "none" => tree[t][r] # "left"
    /\ branch' = [branch EXCEPT ![t][r] = BranchIn(t, r)]
    /\ tree' = [tree EXCEPT ![t][r] = "mine"]
    /\ pc' = [pc EXCEPT ![t] = "edit"]
    /\ UNCHANGED <<plan, pos, out, work, stopped, end, runs, crashes, door, pushed, prs>>

\* No worktree, an edit that cannot be placed, files that do not parse, a
\* broken build or a misaligned diff, a push that is refused or fails.
RepoFails(t) ==
    /\ pc[t] \in {"tree", "edit", "commit", "push"}
    /\ Record(t, "failed", FALSE)
    /\ UNCHANGED gitVars

\* Everything is there already, or every change was taken back.
NothingInserted(t) ==
    /\ pc[t] = "edit"
    /\ Record(t, "plain", FALSE)
    /\ UNCHANGED gitVars

\* PendingSymbols: only a proto entry of the plan brings names of that kind.
Expected == IF \E e \in Range(plan) : e.make /\ e.sites THEN {"pending"} ELSE {}
Breaks(errs) == "wrong" \in errs
Unbuildable(errs) == "missing" \in errs

CheckAlignment(t) == This(t).named \/ This(t).blocks

\* looked: it is a Go repository that was built before the edit, so the errors
\* of the build are those of the edit.
VerifyAndBuild(t) ==
    /\ pc[t] = "edit" /\ branch[t][This(t).repo] # "edited"
    /\ CheckAlignment(t)
    /\ \E looked \in BOOLEAN, errs \in SUBSET ({"missing", "wrong"} \cup Expected) :
        /\ IF looked THEN ~Breaks(errs) ELSE errs = {}
        /\ work' = [work EXCEPT ![t] =
                      [draft |-> Blockers(t) # {} \/ (looked /\ Unbuildable(errs)),
                       looked |-> looked, errs |-> errs]]
    /\ pc' = [pc EXCEPT ![t] = "commit"]
    /\ UNCHANGED <<plan, pos, out, stopped, end, runs, crashes, door, gitVars>>

Commit(t) ==
    /\ pc[t] = "commit"
    /\ branch' = [branch EXCEPT ![t][This(t).repo] = "edited"]
    /\ pc' = [pc EXCEPT ![t] = "push"]
    /\ UNCHANGED <<plan, pos, out, work, stopped, end, runs, crashes, door, tree, pushed, prs>>

Push(t) ==
    /\ pc[t] = "push"
    /\ pushed' = [pushed EXCEPT ![t][This(t).repo] = TRUE]
    /\ pc' = [pc EXCEPT ![t] = "open"]
    /\ UNCHANGED <<plan, pos, out, work, stopped, end, runs, crashes, door, branch, tree, prs>>

\* A repository that takes no drafts gets an ordinary pull request.
CreatePR(t) ==
    /\ pc[t] = "open"
    /\ \E draft \in {work[t].draft, FALSE} :
        prs' = prs \cup {[task |-> t, repo |-> This(t).repo, asked |-> work[t].draft,
                          draft |-> draft, edit |-> work[t]]}
    /\ Record(t, "opened", work[t].draft)
    /\ UNCHANGED <<branch, tree, pushed>>

\* The branch is out, the pull request is not: the address of a comparison.
NoPR(t) ==
    /\ pc[t] = "open"
    /\ Record(t, "compare", FALSE)
    /\ UNCHANGED gitVars
-----------------------------------------------------------------------------
(* Ends, repetitions and restarts.                                         *)

\* outcomeText: an address or a make target.
HasOutcome(t) == \E res \in Range(out[t]) : res.kind \in {"made", "known", "opened", "compare"}

AtEndOfPlan(t) == pc[t] = "steer" /\ pos[t] > Len(plan)
AtEnd(t) == pc[t] = "stop" \/ (pc[t] = "steer" /\ pos[t] > Len(plan))

Finish(t) ==
    /\ AtEnd(t)
    /\ end' = [end EXCEPT ![t] = IF HasOutcome(t) THEN "completed" ELSE "failed"]
    /\ pc' = [pc EXCEPT ![t] = "over"]
    /\ tree' = [tree EXCEPT ![t] = [r \in Repo |-> IF @[r] = "mine" THEN "none" ELSE @[r]]]
    /\ UNCHANGED <<plan, pos, out, work, stopped, runs, crashes, door, branch, pushed, prs>>

\* An approval is accepted in every status but RUNNING.
Approve(t) ==
    /\ Finished(t) /\ runs[t] < MaxRuns
    /\ pc' = [pc EXCEPT ![t] = "waiting"]
    /\ UNCHANGED <<plan, pos, out, work, stopped, end, runs, crashes, door, gitVars>>

\* A restart forgets the executions; their directories stay, or the machine
\* went down too and cleared them.  Requests in flight are lost.
Restart ==
    /\ crashes < MaxCrashes
    /\ crashes' = crashes + 1
    /\ pc' = [t \in Task |-> IF pc[t] = "over" THEN "over" ELSE "waiting"]
    /\ out' = [t \in Task |-> IF pc[t] = "over" THEN out[t] ELSE <<>>]
    /\ pos' = [t \in Task |-> 1]
    /\ work' = [t \in Task |-> NoEdit]
    /\ stopped' = [t \in Task |-> FALSE]
    /\ \E kept \in {"left", "none"} :
        tree' = [t \in Task |-> [r \in Repo |-> IF tree[t][r] = "none" THEN "none" ELSE kept]]
    /\ door' = [m \in Message |-> IF door[m] = "checked" THEN "unsent" ELSE door[m]]
    /\ UNCHANGED <<plan, end, runs, branch, pushed, prs>>

Step(t) ==
    \/ Begin(t) \/ Heed(t) \/ HearNothing(t)
    \/ RecordProtoPublish(t) \/ NoSite(t) \/ UseExistingPR(t) \/ NoExistingPR(t)
    \/ CreateWorktree(t) \/ RepoFails(t) \/ NothingInserted(t)
    \/ VerifyAndBuild(t) \/ Commit(t) \/ Push(t) \/ CreatePR(t) \/ NoPR(t)
    \/ Finish(t)

Next ==
    \/ \E t \in Task : Step(t) \/ Approve(t)
    \/ \E m \in Message : SteerChecked(m) \/ AddSteer(m)
    \/ Restart

Spec == Init /\ [][Next]_vars

\* The worker goroutine goes on with its execution; nothing is said about humans
\* and restarts.
FairSpec == Spec /\ \A t \in Task : WF_vars(Step(t))
-----------------------------------------------------------------------------
(* Properties.                                                             *)

MustComeFirst(r) == \E e \in Range(plan) : e.repo = r /\ e.blocks

\* A pull request is asked for as a draft whenever the same execution put up
\* something that must be merged or made before it, and whenever its own tree
\* is known to lack a name; a tree known to be wrong never leaves the machine.
DraftWhenItMust ==
    /\ \A t \in Task : \A i, j \in DOMAIN out[t] :
        /\ i < j /\ out[t][j].kind = "opened"
        /\ \/ out[t][i].kind = "made"
           \/ out[t][i].kind \in {"known", "opened"} /\ MustComeFirst(out[t][i].repo)
        => out[t][j].draft
    /\ \A p \in prs : p.edit.looked =>
        /\ "wrong" \notin p.edit.errs
        /\ "missing" \in p.edit.errs => p.asked

\* A task has at most one pull request in a repository, however often it is
\* stopped, restarted and approved again, also when the lookup of open pull
\* requests fails: its branch is found with the edit in it.
OnePRPerTask ==
    \A p, q \in prs : p.task = q.task /\ p.repo = q.repo => p = q

\* A task is reported COMPLETED only with something a human can merge or make:
\* every address in its result is of a pull request or of a branch that is out.
CompletedIsOut ==
    \A t \in Task : pc[t] = "over" /\ end[t] = "completed" =>
        /\ out[t] # <<>>
        /\ \A res \in Range(out[t]) :
            /\ res.kind \in {"known", "opened"} => IsOpen(res.repo)
            /\ res.kind = "compare" => pushed[t][res.repo]
        /\ \E res \in Range(out[t]) :
            res.kind = "made" \/ IsOpen(res.repo) \/ pushed[t][res.repo]

\* What is out is what should be, however often tasks are stopped, restarted and
\* approved again: drafts where a merge must come first, one pull request for each
\* repository, and none reported that is not there.
OutAsItShould == TypeOK /\ DraftWhenItMust /\ OnePRPerTask /\ CompletedIsOut

\* From the moment an execution heard a stop until it ends it touches no
\* branch and no pull request of its own.
StopEndsIt ==
    [][\A t \in Task : stopped[t] /\ pc[t] # "over" =>
        /\ branch'[t] = branch[t] /\ pushed'[t] = pushed[t]
        /\ {p \in prs' : p.task = t} = {p \in prs : p.task = t}]_vars

\* How far the change of a task to a repository got, of git and GitHub alone.
Stage(t, r) ==
    IF \E p \in prs : p.task = t /\ p.repo = r THEN "open"
    ELSE IF pushed[t][r] THEN "pushed"
    ELSE CASE branch[t][r] = "none" -> "none"
           [] branch[t][r] = "base" -> "branch"
           [] branch[t][r] = "edited" -> "commit"

Out == INSTANCE Publication WITH stage <- [t \in Task |-> [r \in Repo |-> Stage(t, r)]]

\* The walk implements Publication: a change goes out by one stage at a time,
\* never back and never twice, across failures, restarts and repetitions.
ImplementsPublication == Out!PublicationSpec

\* An execution that begins comes to its end or is cut off by a restart.
ExecutionEnds ==
    \A t \in Task : pc[t] = "steer" ~> pc[t] \in {"over", "waiting"}

\* Documented, not kept.  internal/orchestrator/variant_entry.go:145-146: what a human
\* says holds from the next repository on: one that is excluded, in a message the
\* execution took, gets no pull request from it afterwards.
ExcludedIsSkipped ==
    [][\A p \in prs' \ prs : ~\E m \in Message :
        m.task = p.task /\ door[m] = "applied" /\ p.repo \in m.exclude]_vars
=============================================================================
