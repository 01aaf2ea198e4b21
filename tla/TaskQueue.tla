----------------------------- MODULE TaskQueue -----------------------------
(***************************************************************************)
(* The task queue: the swarm_tasks and repo_locks tables, the worker       *)
(* goroutines of cmd/swarm/main.go, the worker manager that holds their    *)
(* cancel functions, and the HTTP handlers through which humans submit,    *)
(* stop, approve and reject tasks.                                         *)
(*                                                                         *)
(* A worker is modelled from one database call to the next; between two    *)
(* calls every other worker, every handler and a restart of the process    *)
(* may come in.  What an execution does to code is the business of         *)
(* TaskFlow: here an execution only locks a repository and returns one of  *)
(* the RunResult shapes that execute() can return.                         *)
(***************************************************************************)
EXTENDS Naturals, FiniteSets

CONSTANTS
    MaxTasks,       \* bound: rows the tasks table may grow to
    MaxDecisions,   \* bound: stops, approvals and rejections by humans
    MaxRestarts,    \* bound: restarts of the process
    MaxChain,       \* bound: chain tasks of one execution (three in chain_reaction.go)
    Repo,           \* repositories with a local copy
    NoRepo,         \* the empty repo_name
    Worker,         \* worker goroutines (three in main.go)
    NoWorker,       \* no entry in the worker manager
    Door            \* the human handlers that are in use in this instance

AllDoors == {"api_stop", "api_approve", "dash_stop", "dash_approve", "dash_reject"}

ASSUME BoundsAssumption ==
    /\ MaxTasks \in Nat
    /\ MaxDecisions \in Nat
    /\ MaxRestarts \in Nat
    /\ MaxChain \in Nat

ASSUME NamesAssumption ==
    /\ NoRepo \notin Repo
    /\ NoWorker \notin Worker
    /\ Door \subseteq AllDoors

\* Task identifiers stand in the order of created_at.
Task == 1..MaxTasks
NoTask == 0

VARIABLES
    \* the database
    created,        \* number of rows in swarm_tasks
    status,         \* status[t]
    repoName,       \* repoName[t]: the repo_name column
    root,           \* root[t]: parent_task_id inside the stored request
    parent,         \* parent[t]: the parent_task_id column
    lock,           \* lock[r]: the task_id of the repo_locks row of r
    \* the process
    cancels,        \* cancels[t]: whose cancel function the manager holds
    wpc,            \* wpc[w]: where worker w stands in taskWorker
    wtask,          \* wtask[w]: the task it claimed
    wapproved,      \* wapproved[w]: ClaimedStatus was APPROVED
    wstopped,       \* wstopped[w]: its context was cancelled
    wrepo,          \* wrepo[w]: the repository the execution set up
    wresult,        \* wresult[w]: the RunResult, once the execution returned
    wchild,         \* wchild[w]: the chain task it created and has not linked yet
    handlers,       \* human requests between their two halves
    \* bookkeeping of the model
    decisions, restarts,
    approvals,      \* approvals[t]: how often a human approved t
    approvedRuns    \* approvedRuns[t]: how often t was executed as approved

dbVars == <<created, status, repoName, root, parent, lock>>
runVars == <<wpc, wtask, wapproved, wstopped, wrepo, wresult, wchild>>
countVars == <<decisions, restarts, approvals, approvedRuns>>
vars == <<dbVars, runVars, cancels, handlers, countVars>>

Status ==
    {"ABSENT", "PENDING", "RUNNING", "WAITING_APPROVAL",
     "APPROVED", "COMPLETED", "FAILED", "CANCELLED"}

\* The statuses an execution ends with.
Settled == {"COMPLETED", "FAILED", "WAITING_APPROVAL"}

\* Where a worker stands while the task it claimed is still its business ...
Executing == {"claimed", "running", "granted", "working", "returned",
              "unlocking", "reporting"}
\* ... and the other places of its loop.
Between == {"idle", "ready", "chaining", "linking"}

\* The part of the loop in which the manager can hold the cancel function.
Stoppable == {"running", "granted", "working", "returned"}

Result == [repo : Repo \cup {NoRepo}, status : Settled, chain : 0..MaxChain]
NoResult == [repo |-> NoRepo, status |-> "FAILED", chain |-> 0]

TypeOK ==
    /\ created \in 0..MaxTasks
    /\ status \in [Task -> Status]
    /\ repoName \in [Task -> Repo \cup {NoRepo}]
    /\ root \in [Task -> Task \cup {NoTask}]
    /\ parent \in [Task -> Task \cup {NoTask}]
    /\ lock \in [Repo -> Task \cup {NoTask}]
    /\ cancels \in [Task -> Worker \cup {NoWorker}]
    /\ wpc \in [Worker -> Executing \cup Between]
    /\ wtask \in [Worker -> Task \cup {NoTask}]
    /\ wapproved \in [Worker -> BOOLEAN]
    /\ wstopped \in [Worker -> BOOLEAN]
    /\ wrepo \in [Worker -> Repo \cup {NoRepo}]
    /\ wresult \in [Worker -> Result]
    /\ wchild \in [Worker -> Task \cup {NoTask}]
    /\ handlers \subseteq (AllDoors \X Task)
    /\ decisions \in 0..MaxDecisions
    /\ restarts \in 0..MaxRestarts
    /\ approvals \in [Task -> Nat]
    /\ approvedRuns \in [Task -> Nat]

Init ==
    /\ created = 0
    /\ status = [t \in Task |-> "ABSENT"]
    /\ repoName = [t \in Task |-> NoRepo]
    /\ root = [t \in Task |-> NoTask]
    /\ parent = [t \in Task |-> NoTask]
    /\ lock = [r \in Repo |-> NoTask]
    /\ cancels = [t \in Task |-> NoWorker]
    /\ wpc = [w \in Worker |-> "idle"]
    /\ wtask = [w \in Worker |-> NoTask]
    /\ wapproved = [w \in Worker |-> FALSE]
    /\ wstopped = [w \in Worker |-> FALSE]
    /\ wrepo = [w \in Worker |-> NoRepo]
    /\ wresult = [w \in Worker |-> NoResult]
    /\ wchild = [w \in Worker |-> NoTask]
    /\ handlers = {}
    /\ decisions = 0
    /\ restarts = 0
    /\ approvals = [t \in Task |-> 0]
    /\ approvedRuns = [t \in Task |-> 0]
-----------------------------------------------------------------------------
(* What the steps are built from.                                          *)

Exists == 1..created

Ready == {"APPROVED", "PENDING"}

\* Mutant: a lock of any repository keeps every task in the queue.
UnlockedIfNoLockAtAll(t) == \A r \in Repo : lock[r] = NoTask

\* The second condition of ClaimNextTask: a task that never had a repository
\* has an empty repo_name, and no lock is kept under the empty name.
Unlocked(t) == repoName[t] = NoRepo \/ lock[repoName[t]] = NoTask

Claimable == {t \in Exists : status[t] \in Ready /\ Unlocked(t)}

\* Mutant: a chain task names the task that found it, not the root of the family.
RootIsAuthor(w) == wtask[w]

\* rootTaskID: chain tasks of a chain task belong to the root of the family.
RootOf(w) == IF root[wtask[w]] # NoTask THEN root[wtask[w]] ELSE wtask[w]

Goto(w, place) == wpc' = [wpc EXCEPT ![w] = place]

\* The end of one turn of the loop: its variables go out of scope.
EndOfTurn(w) ==
    /\ wpc' = [wpc EXCEPT ![w] = "idle"]
    /\ wtask' = [wtask EXCEPT ![w] = NoTask]
    /\ wapproved' = [wapproved EXCEPT ![w] = FALSE]
    /\ wstopped' = [wstopped EXCEPT ![w] = FALSE]
    /\ wrepo' = [wrepo EXCEPT ![w] = NoRepo]
    /\ wresult' = [wresult EXCEPT ![w] = NoResult]
    /\ wchild' = [wchild EXCEPT ![w] = NoTask]

SetStatus(t, s) == status' = [status EXCEPT ![t] = s]

\* INSERT INTO swarm_tasks: the new row is the youngest.
Insert(r) ==
    /\ created < MaxTasks
    /\ created' = created + 1
    /\ SetStatus(created + 1, "PENDING")
    /\ root' = [root EXCEPT ![created + 1] = r]

-----------------------------------------------------------------------------
(* The worker goroutine.                                                   *)

\* depsReady answered yes.
PassGate(w) ==
    /\ wpc[w] = "idle"
    /\ Goto(w, "ready")
    /\ UNCHANGED <<dbVars, cancels, wtask, wapproved, wstopped, wrepo, wresult,
                   wchild, handlers, countVars>>

\* First(&task) found no row: sleep and begin again.
NothingToClaim(w) ==
    /\ wpc[w] = "ready"
    /\ Claimable = {}
    /\ Goto(w, "idle")
    /\ UNCHANGED <<dbVars, cancels, wtask, wapproved, wstopped, wrepo, wresult,
                   wchild, handlers, countVars>>

ClaimTask(w, t, next) ==
    /\ SetStatus(t, next)
    /\ wtask' = [wtask EXCEPT ![w] = t]
    /\ wapproved' = [wapproved EXCEPT ![w] = status[t] = "APPROVED"]
    /\ approvedRuns' = [approvedRuns EXCEPT ![t] =
                           IF status[t] = "APPROVED" THEN @ + 1 ELSE @]
    /\ Goto(w, "claimed")
    /\ UNCHANGED <<created, repoName, root, parent, lock, cancels, wstopped, wrepo,
                   wresult, wchild, handlers, decisions, restarts, approvals>>

\* Mutant: a task that waits for an approval is claimed as well.
ClaimWaitingToo(w) ==
    /\ wpc[w] = "ready"
    /\ \E t \in Exists :
          /\ status[t] \in Ready \cup {"WAITING_APPROVAL"}
          /\ ClaimTask(w, t, "RUNNING")

\* Mutant: the status is not written in the transaction that reads it.
ClaimWithoutMark(w) ==
    /\ wpc[w] = "ready"
    /\ \E t \in Claimable :
          /\ \A u \in Claimable : t <= u
          /\ ClaimTask(w, t, status[t])

\* ClaimNextTask: the oldest task of the queue, marked RUNNING in the same
\* transaction; the status it had before is kept as ClaimedStatus.
Claim(w) ==
    /\ wpc[w] = "ready"
    /\ \E t \in Claimable :
          /\ \A u \in Claimable : t <= u
          /\ ClaimTask(w, t, "RUNNING")

\* worker.Register: one entry per task, a second one replaces it.
RegisterCancel(w) ==
    /\ wpc[w] = "claimed"
    /\ cancels' = [cancels EXCEPT ![wtask[w]] = w]
    /\ Goto(w, "running")
    /\ UNCHANGED <<dbVars, wtask, wapproved, wstopped, wrepo, wresult, wchild,
                   handlers, countVars>>

\* finishPlanning calls repoLockFunc when it sets the workspace up, and goes on
\* whatever the answer is; only a granted lock leads to UpdateTaskRepo.
TryLock(w, r) ==
    /\ wpc[w] = "running"
    /\ wrepo' = [wrepo EXCEPT ![w] = r]
    /\ IF lock[r] \in {NoTask, wtask[w]}
       THEN /\ lock' = [lock EXCEPT ![r] = wtask[w]]
            /\ Goto(w, "granted")
       ELSE /\ UNCHANGED lock
            /\ Goto(w, "working")
    /\ UNCHANGED <<created, status, repoName, root, parent, cancels, wtask,
                   wapproved, wstopped, wresult, wchild, handlers, countVars>>

\* UpdateTaskRepo, the second statement of lockFunc.
RecordRepo(w) ==
    /\ wpc[w] = "granted"
    /\ repoName' = [repoName EXCEPT ![wtask[w]] = wrepo[w]]
    /\ Goto(w, "working")
    /\ UNCHANGED <<created, status, root, parent, lock, cancels, wtask, wapproved,
                   wstopped, wrepo, wresult, wchild, handlers, countVars>>

\* The task context of the execution ends here, and isApproved with it.
Return(w, r, s, n) ==
    /\ wresult' = [wresult EXCEPT ![w] = [repo |-> r, status |-> s, chain |-> n]]
    /\ wrepo' = [wrepo EXCEPT ![w] = NoRepo]
    /\ wapproved' = [wapproved EXCEPT ![w] = FALSE]
    /\ Goto(w, "returned")
    /\ UNCHANGED <<dbVars, cancels, wtask, wstopped, wchild, handlers, countVars>>

\* shipReviewedDiff: an approved diff is pushed, the lock is never asked for.
ReturnShipped(w) ==
    /\ wpc[w] = "running"
    /\ wapproved[w]
    /\ \E r \in Repo :
          /\ repoName[wtask[w]] \in {NoRepo, r}
          /\ Return(w, r, "COMPLETED", 0)

\* tryVariantAddition works on several repositories without a lock and reports
\* the first one; it opened at least one PR, or it failed.
ReturnVariant(w) ==
    /\ wpc[w] = "running"
    /\ \E r \in Repo, s \in {"COMPLETED", "FAILED"} : Return(w, r, s, 0)

\* The analysis failed, the workspace could not be made, the plan was refused
\* three times: execute() returns RunResult{} and an error.
ReturnEarly(w) ==
    /\ wpc[w] = "running"
    /\ Return(w, NoRepo, "FAILED", 0)

\* Once the repository is set up: finished with or without chain tasks, handed
\* over to a human, blocked by a name or a state another repository has to
\* provide, out of attempts ...
ReturnFromRepo(w) ==
    /\ wpc[w] = "working"
    /\ \/ \E s \in {"COMPLETED", "FAILED"}, n \in 0..MaxChain : Return(w, wrepo[w], s, n)
       \/ Return(w, wrepo[w], "WAITING_APPROVAL", 0)

\* ... or the error paths of execute() that return RunResult{}: the name of the
\* repository, and with it the lock, is lost.
ReturnNameless(w) ==
    /\ wpc[w] = "working"
    /\ Return(w, NoRepo, "FAILED", 0)

\* Mutant: the entry stays when the execution is over.
UnregisterKeeps(w) ==
    /\ wpc[w] = "returned"
    /\ wstopped' = [wstopped EXCEPT ![w] = FALSE]
    /\ Goto(w, "unlocking")
    /\ UNCHANGED <<dbVars, cancels, wtask, wapproved, wrepo, wresult, wchild,
                   handlers, countVars>>

\* Unregister deletes the entry of the task, whoever put it there; the context is
\* cancelled and looked at no more.
Unregister(w) ==
    /\ wpc[w] = "returned"
    /\ cancels' = [cancels EXCEPT ![wtask[w]] = NoWorker]
    /\ wstopped' = [wstopped EXCEPT ![w] = FALSE]
    /\ Goto(w, "unlocking")
    /\ UNCHANGED <<dbVars, wtask, wapproved, wrepo, wresult, wchild, handlers,
                   countVars>>

\* UnlockRepo deletes the row of the repository, whoever locked it.
Unlock(w) ==
    /\ wpc[w] = "unlocking"
    /\ lock' = [r \in Repo |-> IF r = wresult[w].repo THEN NoTask ELSE lock[r]]
    /\ Goto(w, "reporting")
    /\ UNCHANGED <<created, status, repoName, root, parent, cancels, wtask, wapproved,
                   wstopped, wrepo, wresult, wchild, handlers, countVars>>

\* Either chain tasks follow, or the turn is over.
AfterReport(w) ==
    IF wresult[w].chain > 0
    THEN /\ Goto(w, "chaining")
         /\ UNCHANGED <<wtask, wapproved, wstopped, wrepo, wresult, wchild>>
    ELSE EndOfTurn(w)

\* UpdateTaskStatus(FAILED | WAITING_APPROVAL | COMPLETED), unconditionally.
Report(w) ==
    /\ wpc[w] = "reporting"
    /\ SetStatus(wtask[w], wresult[w].status)
    /\ AfterReport(w)
    /\ UNCHANGED <<created, repoName, root, parent, lock, cancels, handlers, countVars>>

\* CreateTask for the next chain request ...
Chain(w) ==
    /\ wpc[w] = "chaining"
    /\ Insert(RootOf(w))
    /\ wchild' = [wchild EXCEPT ![w] = created + 1]
    /\ Goto(w, "linking")
    /\ UNCHANGED <<repoName, parent, lock, cancels, wtask, wapproved, wstopped, wrepo,
                   wresult, handlers, countVars>>

\* (the bound on the table: a request that finds no room is dropped)
ChainNoRoom(w) ==
    /\ wpc[w] = "chaining"
    /\ created = MaxTasks
    /\ EndOfTurn(w)
    /\ UNCHANGED <<dbVars, cancels, handlers, countVars>>

\* SetParentTask, a statement of its own; `last`: no chain request is left.
LinkChild(w, last) ==
    /\ wpc[w] = "linking"
    /\ parent' = [parent EXCEPT ![wchild[w]] = root[wchild[w]]]
    /\ IF last
       THEN EndOfTurn(w)
       ELSE /\ Goto(w, "chaining")
            /\ wresult' = [wresult EXCEPT ![w].chain = @ - 1]
            /\ UNCHANGED <<wtask, wapproved, wstopped, wrepo, wchild>>
    /\ UNCHANGED <<created, status, repoName, root, lock, cancels, handlers, countVars>>

\* The child's link to the root of the family.
Link(w) == LinkChild(w, wresult[w].chain = 1)

-----------------------------------------------------------------------------
(* Humans.  A handler whose two halves are apart in the code is a request  *)
(* in `handlers` between them.                                             *)

\* HandleSubmitTask.  A client names no parent: the field is for chain requests.
Submit ==
    /\ Insert(NoTask)
    /\ UNCHANGED <<repoName, parent, lock, runVars, cancels, handlers, countVars>>

Opens(door, t) ==
    /\ door \in Door
    /\ t \in Exists
    /\ decisions < MaxDecisions
    /\ decisions' = decisions + 1

\* Mutant: the entry is deleted and its cancel function is not called.
StopEntryDropsOnly(t) ==
    /\ cancels' = [cancels EXCEPT ![t] = NoWorker]
    /\ UNCHANGED runVars

\* worker.Stop: cancel the context of the entry and delete the entry.
StopEntry(t) ==
    /\ cancels' = [cancels EXCEPT ![t] = NoWorker]
    /\ wstopped' = [w \in Worker |-> wstopped[w] \/ w = cancels[t]]
    /\ UNCHANGED <<wpc, wtask, wapproved, wrepo, wresult, wchild>>

\* The API stops first; without an entry it answers 404 and writes nothing.
ApiStop(t) ==
    /\ Opens("api_stop", t)
    /\ cancels[t] # NoWorker
    /\ StopEntry(t)
    /\ handlers' = handlers \cup {<<"api_stop", t>>}
    /\ UNCHANGED <<dbVars, restarts, approvals, approvedRuns>>

ApiStopWrite(t) ==
    /\ <<"api_stop", t>> \in handlers
    /\ handlers' = handlers \ {<<"api_stop", t>>}
    /\ SetStatus(t, "CANCELLED")
    /\ UNCHANGED <<created, repoName, root, parent, lock, runVars, cancels, countVars>>

\* The dashboard writes first and stops then.
DashStop(t) ==
    /\ Opens("dash_stop", t)
    /\ SetStatus(t, "CANCELLED")
    /\ handlers' = handlers \cup {<<"dash_stop", t>>}
    /\ UNCHANGED <<created, repoName, root, parent, lock, runVars, cancels,
                   restarts, approvals, approvedRuns>>

DashStopEntry(t) ==
    /\ <<"dash_stop", t>> \in handlers
    /\ handlers' = handlers \ {<<"dash_stop", t>>}
    /\ StopEntry(t)
    /\ UNCHANGED <<dbVars, countVars>>

\* The API looks at the status and refuses a task that is running ...
ApiApprove(t) ==
    /\ Opens("api_approve", t)
    /\ status[t] # "RUNNING"
    /\ <<"api_approve", t>> \notin handlers
    /\ handlers' = handlers \cup {<<"api_approve", t>>}
    /\ UNCHANGED <<dbVars, runVars, cancels, restarts, approvals, approvedRuns>>

WriteApproval(t) ==
    /\ SetStatus(t, "APPROVED")
    /\ approvals' = [approvals EXCEPT ![t] = @ + 1]

\* ... and writes, in a second statement.
ApiApproveWrite(t) ==
    /\ <<"api_approve", t>> \in handlers
    /\ handlers' = handlers \ {<<"api_approve", t>>}
    /\ WriteApproval(t)
    /\ UNCHANGED <<created, repoName, root, parent, lock, runVars, cancels,
                   decisions, restarts, approvedRuns>>

\* The dashboard does not look.
DashApprove(t) ==
    /\ Opens("dash_approve", t)
    /\ WriteApproval(t)
    /\ UNCHANGED <<created, repoName, root, parent, lock, runVars, cancels, handlers,
                   restarts, approvedRuns>>

\* Nor does a rejection: any task goes back to the queue.
DashReject(t) ==
    /\ Opens("dash_reject", t)
    /\ SetStatus(t, "PENDING")
    /\ UNCHANGED <<created, repoName, root, parent, lock, runVars, cancels, handlers,
                   restarts, approvals, approvedRuns>>

-----------------------------------------------------------------------------
(* The process dies; the next one calls ResetRunningToPending before it    *)
(* starts its workers.                                                     *)

Reborn(newStatus) ==
    /\ restarts < MaxRestarts
    /\ restarts' = restarts + 1
    /\ status' = newStatus
    /\ lock' = [r \in Repo |-> NoTask]
    /\ cancels' = [t \in Task |-> NoWorker]
    /\ handlers' = {}
    /\ wpc' = [w \in Worker |-> "idle"]
    /\ wtask' = [w \in Worker |-> NoTask]
    /\ wapproved' = [w \in Worker |-> FALSE]
    /\ wstopped' = [w \in Worker |-> FALSE]
    /\ wrepo' = [w \in Worker |-> NoRepo]
    /\ wresult' = [w \in Worker |-> NoResult]
    /\ wchild' = [w \in Worker |-> NoTask]
    /\ UNCHANGED <<created, repoName, root, parent, decisions, approvals, approvedRuns>>

\* Mutant: nothing is reset.
RestartWithoutReset == Reborn(status)

\* Mutant: a task that was running as approved goes back as approved.
RestartKeepsApproval ==
    Reborn([t \in Task |->
              IF status[t] # "RUNNING" THEN status[t]
              ELSE IF \E w \in Worker : wtask[w] = t /\ wapproved[w]
                   THEN "APPROVED" ELSE "PENDING"])

Restart == Reborn([t \in Task |-> IF status[t] = "RUNNING" THEN "PENDING" ELSE status[t]])

-----------------------------------------------------------------------------
WorkerStep(w) ==
    \/ PassGate(w) \/ NothingToClaim(w) \/ Claim(w) \/ RegisterCancel(w)
    \/ \E r \in Repo : TryLock(w, r)
    \/ RecordRepo(w)
    \/ ReturnShipped(w) \/ ReturnVariant(w) \/ ReturnEarly(w)
    \/ ReturnFromRepo(w) \/ ReturnNameless(w)
    \/ Unregister(w) \/ Unlock(w) \/ Report(w)
    \/ Chain(w) \/ ChainNoRoom(w) \/ Link(w)

HumanStep(t) ==
    ApiStop(t) \/ DashStop(t) \/ ApiApprove(t) \/ DashApprove(t) \/ DashReject(t)

HandlerStep(t) == ApiStopWrite(t) \/ DashStopEntry(t) \/ ApiApproveWrite(t)

Next ==
    \/ \E w \in Worker : WorkerStep(w)
    \/ \E t \in Task : HumanStep(t) \/ HandlerStep(t)
    \/ Submit
    \/ Restart

Spec == Init /\ [][Next]_vars

\* A goroutine that can step does; an execution ends (there are three attempts, and
\* the servers it calls answer or break off: the HTTP client of llm/direct.go has no
\* timeout of its own); a handler that began ends.  Humans and crashes are not fair.
FairSpec ==
    /\ Spec
    /\ \A w \in Worker : WF_vars(WorkerStep(w))
    /\ \A t \in Task : WF_vars(HandlerStep(t))

-----------------------------------------------------------------------------
(* Properties.                                                             *)

\* A task the database shows as RUNNING is being executed by a worker of this
\* process.  Nothing else ever takes such a task up again, so one without a
\* worker would hang for ever; only ResetRunningToPending keeps a crash from
\* leaving it behind.
RunningIsHeld ==
    \A t \in Task : status[t] = "RUNNING" =>
        \E w \in Worker : wpc[w] \in Executing /\ wtask[w] = t

\* The cancel function the manager holds for a task belongs to an execution of
\* that task that is still going on: a stop never hits the next task of the same
\* goroutine.  The manager deletes by task id alone and one task may have two
\* executions (a rejection or an approval requeues a running task).
CancelReachesItsRun ==
    \A t \in Task, w \in Worker : cancels[t] = w =>
        wtask[w] = t /\ wpc[w] \in Stoppable

\* An approval is good for one execution: what runs as approved, and is waiting to,
\* never exceeds what humans approved, whatever requeues, restarts and double
\* executions happen in between.
ApprovalBudget ==
    \A t \in Task :
        approvedRuns[t] + (IF status[t] = "APPROVED" THEN 1 ELSE 0) <= approvals[t]

\* Families are one level deep: the parent of a chain task is the root that a human
\* submitted, so ChildTasks(root) finds every descendant (the "siblings" view).
FamilyIsFlat ==
    \A c \in Task : \A p \in {parent[c], root[c]} \ {NoTask} :
        p < c /\ root[p] = NoTask /\ parent[p] = NoTask

\* With only stops at the doors: a task is never executed by two workers.
OneRunPerTask ==
    \A v, w \in Worker :
        (wpc[v] \in Executing /\ wpc[w] \in Executing /\ wtask[v] = wtask[w]) => v = w

\* With only stops at the doors: an execution that can be stopped either was, or is
\* the one the manager would stop.
StopReachesEveryRun ==
    \A w \in Worker : wpc[w] \in Stoppable =>
        wstopped[w] \/ cancels[wtask[w]] = w

live == [t \in Task |-> {w \in Worker : wpc[w] \in Executing /\ wtask[w] = t}]

Lifecycle == INSTANCE TaskLifecycle WITH status <- status, live <- live

\* The queue implements the life cycle: rows enter as PENDING, leave the queue by
\* one atomic pick, and only their executor or a human changes them.
ImplementsLifecycle == Lifecycle!LifecycleSpec

\* A task of the queue that never had a repository is picked, whatever locks other
\* tasks leave behind and however often humans requeue older tasks.
FreshTaskIsPicked ==
    \A t \in Task :
        (status[t] \in Ready /\ repoName[t] = NoRepo)
            ~> ~(status[t] \in Ready /\ repoName[t] = NoRepo)

\* Documented, not kept.  internal/api/handler_tasks.go:99-103: an approval is
\* refused while the task runs, because the end of the run would overwrite it and
\* the approval would silently vanish.  (With only api_approve at the doors.)
ApprovalSurvivesRun ==
    [][\A t \in Task :
         (status[t] = "APPROVED" /\ status'[t] # "APPROVED")
            => approvedRuns'[t] = approvedRuns[t] + 1]_vars

\* Documented, not kept.  internal/api/handler_tasks.go:95-96: an approved task goes
\* back to the queue, and the run that follows ships the diff.
ApprovedGetsRun ==
    \A t \in Task : status[t] = "APPROVED" ~> status[t] # "APPROVED"
=============================================================================
