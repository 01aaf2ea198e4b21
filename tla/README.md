# auto-coder-swarm in TLA+

auto-coder-swarm is a Go service that takes task requests ("fix this defect", "add this
value") from a queue in PostgreSQL, lets language models plan and write the change in a
git worktree, builds and heals it, has it reviewed, and hands the diff to a human, or
pushes it as a draft pull request. This directory holds TLA+ modules of its core, the
TLC configurations that check them on small instances, and proofs that TLAPS checks for
every value of the constants. Paths below are relative to the repository (`internal/…`,
`cmd/…` are under `src/`).

- [Inventory](#inventory) – the parts of the system, their state, what is hard in them
- [Modules](#modules) – which module models what, and how it corresponds to the code
- [Runs](#runs) – what TLC checks, the bounds, the fairness, what each run shows
- [Where the code and its comments part](#where-the-code-and-its-comments-part)
- [Proofs](#proofs)
- [Not modelled](#not-modelled) and [Plan](#plan)

To check a model: `tlc -config QueueRestart.cfg MCTaskQueue`; to check the proofs:
`tlapm TaskQueue_proofs.tla`, and the same for the other modules that end in `_proofs`.

## Inventory

| component | code | state | operations | what is hard |
|---|---|---|---|---|
| task queue and workers | `cmd/swarm/main.go`, `storage/tasks_flow.go`, `storage/tasks_crud.go`, `storage/parent_store.go`, `worker/manager.go` | tables `swarm_tasks` and `repo_locks`; the manager's map of cancel functions; the locals of three worker goroutines | claim, register, lock a repository, unlock, report, create chain tasks and link them, reset at start | claims race; a task can be requeued while it runs, so it can have two executions; a restart between any two statements; locks that nobody gives back |
| human doors | `api/handler_tasks.go`, `web/dashboard_tasks.go` | none of their own: they write the two tables and the manager | submit, stop, approve, reject, steer | check and write are separate statements; the API and the dashboard do the same things in different orders |
| execution of a task | `orchestrator/flow*.go`, `handover.go`, `gates.go`, `didwork.go`, `autopr.go` | `taskContext`: attempt, plan, `repoPath`, `verifiedClean`, best and rejected diffs; the worktree (index and files); `proposed_diff` of the row | ship what was approved; analyse; three attempts of plan, code, verify, review; hand over | flags that outlive what they speak of; `git diff HEAD` shows neither untracked files nor what will be staged later; three ways to a human that have to pass the same door |
| verification with healing | `orchestrator/flow_verification.go`, `progress.go`, `healing/healer.go` | counters and fingerprints of `healProgress`, the best round, the best attempt | build, step the counters, heal, put the best round back, remember the best attempt | counters over a history that is not kept; `git apply --3way` over an index that another attempt staged |
| chains over repositories | `orchestrator/chain_reaction.go`, `chain_depth.go`, `state_chain.go`, `state_stop.go`, `missing_contract.go` | depth, path of parents and `adds_state` inside each stored request | impact analysis, missing contract, missing state | chains create chains: nothing but the numbers inside the requests stops them |
| state checks, owner of a contract | `orchestrator/state_check.go`, `owner_of_state.go`, `shortlist.go`, `tournament.go` | none | pure functions around several model calls | a type from one question meets an owner from another; a rejection that a fallback undoes |
| checks of a changed contract | `orchestrator/proto_check.go`, the gates of state changes | the child's worktree | a series of checks of a diff in text, rounds of fixing | each check sees one aspect; what passes all of them must still read the same |
| value additions over several repositories | `orchestrator/variant_*.go` | plans, blockers, drafts, steers | walk the plans, open drafts, take steers | partial failure, a rerun after a crash, steers taken once and applied later |
| steering | `storage/steer.go`, `orchestrator/steer.go` | table of steers with `applied_at` | post, take | marked before applied |
| editing by models | `agent/coder.go`, `edit_blocks.go`, `fuzzy_rungs.go`, `lost_exports.go`, `parse_gate.go`, `regions.go` | files of the worktree | a ladder of ever looser matchers; several ways of writing a file; gates | which rung may match where, how often, and what a second application does |
| votes | `voter/voter.go`, `orchestrator/models.go` | none | ask several models, count, pick | answers fail and come in any order; ties broken by the order of a map |
| model clients | `llm/amqp.go`, `llm/direct.go` | connection, pending calls | call, wait, time out | a connection that closes while a call waits |
| agent loop, MCP client | `agentloop/`, `mcpclient/`, `cmd/agent/` | conversation, catalogue of tools, pending requests | turns, folding, calls of tools | servers that answer late, speak up or die; names that two servers use; a window that must hold |
| thought stream and logs | `stream/manager.go`, `storage/logs.go` | history in the database, viewers' bounded channels | broadcast, subscribe, history | the seam between history and stream; closing a channel that others send to |
| settings | `storage/storage.go`, `api/handler_settings.go`, `web/dashboard_settings.go` | table and Redis cache | read through, write | a stale fill after a newer write |
| git and pull requests | `gitmgr/gitmgr.go`, `workspace/workspace.go`, `guard/guard.go` | branches, worktrees | worktree, push, PR | which half of a push failed |
| knowledge services, bus, reports, metrics, keys, pages | `insightclient/`, `ckhclient/`, `bus/`, `reporting/`, `observability/`, `apikey/`, `web/`, `security/`, `korean/` | – | HTTP and formatting | – |

### How they interact

The doors and the workers never talk to each other: they meet in the rows of
`swarm_tasks` (every write is an unconditional `UPDATE`) and in the manager's map. A
worker calls `execute()` and gets a `RunResult` back; `execute()` calls back once, for
the repository lock (`repoLockFunc`). An execution of an approved task finds
`ClaimedStatus = APPROVED` and ships `proposed_diff` instead of working again. An
execution whose request adds a value walks over the plans of the knowledge service
before anything else, reads steers between two repositories, and may end there. Chain
requests travel inside the `RunResult`; the worker inserts them as tasks after it
reported; the request is all that a child knows of its parent's search for a contract.
Healing runs inside the verification step of an attempt and reaches later attempts only
through `bestDiff`. Every plan comes from a vote; every call of a model tells its
thoughts to the table and to the stream; which models are asked is read from the
settings. The agent command shares none of this state.

### What makes each part correct

- *Queue*: a task that the table shows as `RUNNING` has a worker, since nobody looks at
  such a row again before the next restart; an approval is executed at most once; a stop
  cancels the execution of the task it names and no other; a queued task is picked.
- *Execution*: what a human is asked to approve passed the build of that attempt and
  every gate; what is pushed in a human's name is what the human saw; nothing is pushed
  that neither a human nor the automatic-PR rule allowed; an execution ends.
- *Healing*: it stops exactly when there is no progress, whatever the order of the
  outputs; what it remembers is the best it measured, with the number it measured.
- *Chains*: families end, by their depth or at least by the number of repositories, and
  stay one level deep, so that a family can be listed.
- *Contracts*: a child is told to extend only a type that its repository declares;
  a rejection of all candidates stays one; a contract that passed the checks reads to
  its old readers as before, and a proper change does pass.
- *Value additions*: a change goes out stage by stage, once per task and repository,
  whatever fails or starts over; a pull request that must wait for another is a draft;
  a stop that was heard ends it.
- *Editing*: a block hits the places its search names and no others; what parsed still
  parses; names others use stay; a plan put in twice is in once.
- *Votes, calls, thoughts, settings*: calls end; a readable answer is used, and the one
  most models agree on; a viewer sees a thought once and in order, and its leaving never
  stops the process; a stale setting is gone in the end.
- *Agent*: an answer reaches the call it is for, a name the server it means; no call goes
  out twice; the conversation fits the window; a run ends.

The hazards behind these statements, each with its line, are in `PROJECT.json`.

## Modules

| module | models | state |
|---|---|---|
| `TaskLifecycle` | the abstract specification of one task: a status and the set of workers executing it | status, live |
| `TaskQueue` | queue, locks, workers, manager, doors, restarts | both tables, the manager, each worker's locals, handlers between their halves |
| `TaskFlow` | one task through executions, humans and crashes | the row, `taskContext`, index and files, the branch on GitHub |
| `HealLoop` | the healing rounds of one task's attempts | index and files, `healProgress`, best round, best attempt |
| `ChainReaction` | how a family of tasks grows | the requests in the order of the queue |
| `StateOwner` | where a state without a place goes: questions, scores, fallbacks | the search of one execution, its request |
| `ProtoCheck` | the checks of a changed contract, as operators over blocks of declarations | – |
| `ContractChange` | parent and child of a state change: `StateOwner` and `ProtoCheck` composed | the child's worktree, attempts and rounds of fixing |
| `Publication` | the abstract specification of a change on its way out | a stage for each task and repository |
| `VariantFlow` | value additions: tasks, steers, git, GitHub, restarts | executions, rows of steers, branches, worktrees, remote branches, pull requests |
| `EditLadder` | the matchers of search-and-replace blocks, as operators over lines of tokens | – |
| `VariantApply` | the insertion of a plan's blocks into a file | – |
| `Editing` | one file through attempts, by blocks, whole files, added pieces and plans, with the gates | the file at HEAD and on disk, attempts and tries, the last edit |
| `ThoughtStream` | thoughts on their two ways to a viewer | queue, table, subscribers, channels, screens |
| `ModelCalls` | the calls of one vote, and the count | each call's place, answer and told parts |
| `Settings` | one setting in database and cache | row, cache entry, what each reader and writer is doing |
| `PlanVote` | how an execution gets a plan: `Settings`, `ModelCalls` and `ThoughtStream` composed | phase, scenario, plan |
| `ToolCatalogue` | the tools of several servers, their names, what is advertised | the catalogue |
| `AgentLoop` | one run of the agent with its servers, on `ToolCatalogue` | conversation, calls of the turn, pipes, pending requests |
| `MC…` | instances for TLC: definitions of sets, symmetry | – |
| `TaskQueue_proofs`, `TaskFlow_proofs` (with `ChainReaction`), `HealLoop_proofs`, `ContractChange_proofs`, `VariantFlow_proofs`, `PlanVote_proofs`, `AgentLoop_proofs`, `Editing_proofs` | theorems and proofs | – |

`TaskQueue` instantiates `TaskLifecycle` with the refinement mapping
`live[t] = workers whose program counter is in Executing with task t`, and `VariantFlow`
instantiates `Publication` with `stage[t][r] = Stage(t, r)`, which is read off git and
GitHub alone: an open pull request, else a branch at the remote, else a local branch
with or without the edit. The modules about tasks stand side by side on purpose:
`TaskQueue` sees an execution only as the `RunResult` it returns (`Return…` actions, one
per shape of result); `TaskFlow` is what happens inside one execution and sees the queue
only as `Pick`, `Approve`, `Reject` and `Crash`; `HealLoop` opens up the step that
`TaskFlow` keeps nondeterministic (`BuildPasses`, `HealerGivesUp`, `HealingStops`,
`RoundBestKept`), `Editing` what its `Code` writes, and `PlanVote` where its plans come
from; `VariantFlow` is the way an execution takes when it adds a value; `ChainReaction`
follows the chain requests that `TaskQueue` counts, and `ContractChange` one of them, from
the question of the parent to the contract the child hands over.

### TaskQueue

A worker goroutine is cut where it calls the database or the manager, so that anything
may come in between: `PassGate` (`depsReady`), `Claim` / `NothingToClaim`
(`ClaimNextTask`, one transaction with `FOR UPDATE SKIP LOCKED`), `RegisterCancel`
(`worker.Register`), `TryLock` and `RecordRepo` (the two statements of `lockFunc`; the
answer of the lock is not looked at, `flow_planning.go:134`), a `Return…` action,
`Unregister`, `Unlock` (deletes the lock of the named repository, whoever holds it),
`Report`, and for each chain request `Chain` (`CreateTask`) and `Link`
(`SetParentTask`). The five doors are `ApiStop`, `DashStop`, `ApiApprove`,
`DashApprove`, `DashReject`; those whose two halves are apart in the code leave a pair in
`handlers` in between. `Restart` is the death of the process and `ResetRunningToPending`
together, since workers start only after it. Two counters, `approvals` and
`approvedRuns`, are bookkeeping for the properties.

### TaskFlow

An *edit* is a change of one file; the index and the files are sets of edits, new files
are untracked until staged. `DiffHead`, `Checkout`, `Applies` say what `git diff HEAD`,
`git checkout .` and `git apply --3way` do in those terms, and everything else in the
module is the control of `execute()`: `Ship` / `ShipFails` / `ShipNothing`
(`shipReviewedDiff`), `Begin` (a new attempt with `restoreBest`), planning with its
refusals, `Code`, verification, `ReviewDiff` (which reverts unplanned files and stores
`proposed_diff` before anything is judged), the verdicts of the review, `Exhausted`, and
the one door `handOver` (`NotVerified`, `GateFails`, `GatesHold`) with `OpensPR` or
`WaitsForHuman` behind it. Models, builds, critics and gates answer anything; the verdict
of one gate, `CheckDidTheWork`, is computed. Three abstractions to know of: value
additions (`tryVariantAddition`) come before the analysis and have a module of their own;
a push and the report that follows it are one step; the benchmarks, knowledge notes and
feedback texts are left out. `passed` and `gated` are bookkeeping: the tree that passed
this attempt's build and the last diff that passed every gate.

### HealLoop

One task's attempts, each with a coder and a loop of rounds. A build output is a bag of
error lines (`Outputs`, functions from lines to counts), so that `countErrors`
(the sum) and `fingerprintErrors` (the bag: sorted, duplicates kept) are two views of
one value. `Merge` and `MergeFiles` are what `git apply --3way` leaves, conflict markers
included. `log` is the history of the attempt, which the code does not keep and the
properties speak about.

### ChainReaction

`requests` is every request of a family in creation order, `finished` how many were
executed. `Impact`, `MissingContract` and `MissingState` are the three creators with
their guards; `ChainDepth` is `chainDepth()` with its default. What the analysis, the
router and the knowledge service name is arbitrary. The definitions of its behaviour carry its
name (`ChainInit`, `ChainNext`, `ChainSpec`), because its theorems are in one module with those of
`TaskFlow`.

### ContractChange, StateOwner, ProtoCheck

`StateOwner` is the way of `chainForMissingState` through its questions: `AskState` (three
answers, a majority), `Search` (`traceContracts`, then `repoContracts`), `ScoreAll` with
`bestByScore` and the tournament behind it, `ScoreTraced`, `AskType`, `Route`. A model's
answer is any member of a set; what the code makes of several answers (`MajorityOf`,
`Rejected`, `Picks`, `FilledTypes`, `Resolve`) is translated. `StartChild` drops
everything but the request, as the new task does. The child changes one declaration after
the other (`Code`), is told in `GateFix` what the checks say while it still codes, and in
`HandOver` at the end; no check reverts the tree. `ProtoCheck` has every check of
`CheckProtoChange` and of the gates about states as an operator over the old and the new
blocks: a block is a declaration with its members, a member a field with its number, name
and type, an rpc, or a value of an enum. What the regular expressions of the code see of a
line is in the member; options and comments are not. A member of another kind than those
that a check looks for is passed over by it, as a map field is in the code.

### VariantFlow and Publication

Every step of `applyOneRepo` that talks to git, to a compiler or to GitHub is an action and
may fail: `CreateWorktree`, `VerifyAndBuild`, `Commit`, `Push`, `CreatePR` (as a draft where
a blocker or the build says so, ordinary when drafts are refused) and the results
`NoPR`, `RepoFails`, `NothingInserted`. `Heed` is `takeSteers` with its mark in the table,
`SteerChecked` and `AddSteer` are the halves of the handler. `Restart` forgets executions
and keeps branches, remote branches and pull requests; worktrees stay or are cleared. Branches
are named after the task, so a rerun finds its own. The plans have flags instead of
contents: whether a repository is made by hand, has a place for the value, blocks others,
and was named.

### Editing, EditLadder, VariantApply

A file is a sequence of lines, a line its indentation and its tokens; constants give what
the matchers see of a token: its folded form, likeness to another, braces, the name it
declares, the words in it. `EditLadder` has the rungs in the order of `applyEditBlocks`
(word for word, by lines, folded, unescaped, alike, without line breaks, beside a sibling)
with the thresholds of the code; where the code takes the best of several, ties go as in
the code. `VariantApply` puts the blocks of a plan in, bottom up, at the anchor nearest to
the line they were planned for, unless they are there. `Editing` applies them to one file
through attempts of two tries each: `head` is what HEAD has, `disk` what an attempt left,
and each write passes the gates that its way has in the code (`CheckSyntax`, `LostExports`,
`DuplicateDecls`; a created file only the first). `last` remembers the last edit for the
properties.

### PlanVote, ModelCalls, ThoughtStream, Settings

`Settings` splits `GetSetting` into the question to Redis, the read of the row and the fill
of the cache, and a save into its two writes; `Expire` is the hour. `ModelCalls` follows
each call of a vote from `Begin` to its last told part; `Cut` is a lost connection or a
server that hangs. After a `Cut` the timer of the queue client does not run (its `select`
makes it anew each time round, and a closed channel is always ready), which
`HasTimer` says. The two sides of a thought, `Broadcast` and `AddThought`, come in the
order of the code, and a viewer's `ReadHistory` comes before its `Subscribe`. `PlanVote`
composes them: `LoadPrimary` reads the setting as anyone does, `StartVote` asks,
`TakePlan` counts and looks for an answer that can be read. `Scenario` says who votes,
who looks on and who saves, so that one run covers several small worlds instead of one
large one.

### AgentLoop and ToolCatalogue

`ToolCatalogue` merges the tools of several servers (a name that two of them use gets the
server before it) and picks what is advertised within `ToolChars`: `Pick` goes through the places
of the visible tools in the order of their scores (`Ranked`) and takes what still fits. `AgentLoop` is `Loop.Run`: fold
until the window holds, ask, carry out the calls in order. A text is its weight in
tokens and what it is; the model calls anything. Each server is a pipe: it answers late,
sends lines unasked, or dies; a client waits for the line with its id.

## Runs

Twelve runs; ten pass. Every action of every module fires in at least one of them.
Invariants with several named parts are conjunctions of the properties in brackets.

| run | instance | states | shows |
|---|---|---|---|
| `QueueRestart` | 2 tasks, 1 decision, 1 restart, chains of 1, 1 repository, 2 workers, all doors, `FairSpec` | 670 k | `RunningIsHeld`, `ApprovalBudget`, `CancelReachesItsRun`, `ImplementsLifecycle`, `FreshTaskIsPicked` |
| `QueueStops` | 3 tasks, 1 decision, 1 restart, chains of 1, 2 workers (symmetric), stop doors only | 2.3 M | `FamilyIsFlat`, `OneRunPerTask`, `StopReachesEveryRun` |
| `FlowRuns` | 3 files (one new, one that changes white space only), 2 plans, 2 executions, automatic PRs on, `FairSpec` | 399 k | `HandOverIsEarned` (`TypeOK`, `PlanMeetsWorktree`, `HandedOverIsVerified`, `WaitingIsGated`), `NothingPushedUnasked`, `ShipsWhatWasSeen`, `NoStepIsFree`, `Ends` |
| `HealRounds` | 1 file with 2 edits, 5 outputs of 1–3 errors, stall after 2, cap 5, 2 attempts | 883 k | `HealsLongEnough` (`TypeOK`, `StopsWhenItShould`, `RoundsAreBounded`), `RoundBestIsBest`, `RememberedIsBest` |
| `ChainPaths` | 3 repositories, impact lists of up to 2, root depths 0, 1, 2, 7, `SWARM_CHAIN_DEPTH` 0 | 260 k | `PathIsBounded`, `DepthBoundsPath` |
| `Contracts` | 3 repositories, one without a copy; 3 contracts, 5 type names; 5 blocks with up to 7 versions; 3 attempts with 2 fixes | 187 k | `NamedTypeIsThere`, `RejectedStays`, `ContractStaysReadable` (`TypeOK`, `NumbersKeepMeaning`, `NamesAreUnique`, `StateTypesStay`, `StateIsReachable`), `ProperChangePasses` |
| `Variants` | 1 task, 3 repositories, 3 plans, 2 messages, 2 executions, 1 restart, `FairSpec` | 180 k | `ImplementsPublication`, `OutAsItShould` (`TypeOK`, `DraftWhenItMust`, `OnePRPerTask`, `CompletedIsOut`), `StopEndsIt`, `ExecutionEnds` |
| `Edits` | 7 files at HEAD, 9 tokens, 55 blocks alone and 100 pairs, all plans of one or two changes made on any of the files, 2 attempts | 33 k | `BlockHitsItsPlaces` (`TypeOK`, `PlacesAreSure`, `NoCopyLeft`), `PlanIsInItsPlace` (`PlacedByTheFileFound`, `PlanIsIdempotent`), `SavedParses`, `HeadNamesStay` |
| `Votes` | 4 scenarios: three voters with every answer; two and one with a viewer; a setting that two persons save; queues of 2; `FairSpec` | 436 k | `VoteIsHeeded` (`TypeOK`, `ReadableIsUsed`, `MostAgreedIsPlan`), `VoteEnds`, `ShownInOrder`, `NeverSendsToClosed`, `StaleEnds` |
| `AgentTurns` | 2 servers, 3 catalogues, 3 calls, 2 answers, 3 turns, a window of 6, 1 line sent unasked, `FairSpec` | 842 k | `CallsArrive` (`AnswersAreMatched`, `NamesFindTheirServer`, `AnswerIsToCome`), `WindowIsUsed` (`TypeOK`, `WindowHolds`, `PickIsFull`), `CalledOnce`, `EveryStepCounts`, `RunEnds` |

What they show, and why the bounds are enough:

- **QueueRestart.** Two workers and two tasks are the smallest instance in which a task
  has two executions (rejected or approved while it runs) while another task is
  executed, which is when deleting by task id could hit the wrong entry. One restart
  may come between any two statements, also between the report of an execution, the
  insertion of its chain task and its link. One repository makes the lock contended.
  More decisions only repeat the same writes: each is an unconditional write of one
  status. The four safety properties are also proved for every value of the constants. The liveness
  property says: whatever locks are never given back (see below), whoever requeues and
  whenever the process restarts, a task with no repository yet is picked, because no lock
  is kept under the empty name and the queue is ordered by creation.
- **QueueStops.** Three tasks are needed for a chain of a chain. The doors are
  restricted to stops, because approvals and rejections of a running task do give it
  two executions: `OneRunPerTask` says that nothing else does, not even a restart, and
  `StopReachesEveryRun` that a stop always has an entry to find in that case.
- **FlowRuns.** Two executions, since what an execution leaves behind for the next
  (`proposed_diff`, its approval) is what the properties relate; the crash may come at
  any point. Two plans: one names a file of HEAD and a new file, the other neither, so
  that staged, unstaged and untracked edits of planned and unplanned files all meet the
  door, an attempt can restore what another plan wrote, and `CheckDidTheWork` can fail.
  The number of attempts is the code's three. Only waiting tasks are approved here: see
  below what happens otherwise.
- **HealRounds.** Outputs with one to three errors, two of them with a line printed
  twice, and two edits are enough for circles, stalls, new lows after a stall and the
  case that an earlier round was the best. The cap of five can be reached but a stall
  comes first unless there was progress, which tells the two apart. Two attempts: a
  restored diff, and a worse attempt after a better one.
- **ChainPaths.** Depth 7 is more than a path of three repositories can use up
  (`PathIsBounded` allows at most 5 parents), so that the repositories are what ends
  the chain there; depths 0 to 2 are ended by the depth.
- **Contracts.** The three contracts are one with an original and a copy, and two of a
  repository that is not here, so that the resolution of an owner fails too; the types are
  declared by the chosen owner, by another, by hand, or nowhere. Scores of −1, 0, 1 and
  3 with a margin of 2 make unread, rejected, clear and unclear results. The versions of
  each block hold one change for every check (a number used again, a field removed, a
  wrong type, a hole, a renamed message, a second service, an empty message, a state in a
  message nobody receives) and the right one, and an attempt may combine any of them.
  `ProperChangePasses` keeps the checks from being right by refusing everything.
- **Variants.** The plans put a repository made by hand, a blocker and a follower in
  front of one another, named and unnamed. One message stops, one excludes. With two
  executions and a restart every leftover (branch, edit, remote branch, pull request,
  worktree) meets every later step. `ImplementsPublication` is refined by each of them.
- **Edits.** Files of up to eight lines hold a function with equal, alike, folded-equal
  and different statements, and a method; the searches are found by each rung, several
  times, or not at all, and can overlap themselves; plans are made on any file and put
  into any other, so that an anchor has moved, is there twice, or is gone. The file that
  does not exist yet is among them. Two attempts, since an attempt works on what another
  left.
- **Votes.** Three voters are the fewest with a majority, a tie of all and a winner that
  cannot be read. Queues and channels of two are full after two thoughts of one
  viewer's calls. Two persons and two saves are what a stale fill and swapped cache writes need.
- **AgentTurns.** In three turns of one or two calls the conversation outgrows the window
  of six, so that it is folded, pairs are dropped and pieces clipped. The catalogues have one
  name on two servers, a tool that does not fit before ones that do, and one that is
  deferred as a whole. One unasked line, a notification or an answer that comes twice, can
  come before any answer, and servers die at any time.

`CHECK_DEADLOCK FALSE` is set where the model really stops: no execution left in
`TaskFlow` and `VariantFlow`, no attempt left in `HealLoop` and `Editing`, no request left
in `ChainReaction`, the child handed over in `ContractChange`, a run over in `AgentLoop`,
and a vote over with everybody gone in `PlanVote`. The queue never stops: idle workers poll.

Every property of a passing run has a mutant in `PROJECT.json`: a definition of the
module changed the way a plausible bug would (its comment begins with "Mutant:"), under which TLC
finds the property violated.

### Fairness

`TaskQueue!FairSpec` is weak fairness of each worker goroutine and of each handler that
began: goroutines are scheduled, statements return. `TaskFlow!FairSpec` is weak fairness
of the execution as a whole, `VariantFlow!FairSpec` of each task's execution. Humans,
crashes and new tasks are never fair. Both assume that a model, a build or git answers
*or breaks off*. The code does not guarantee that in two places: the HTTP client of
`llm/direct.go:33` has no timeout, and the wait loop of `llm/amqp.go:112` re-arms its
five-minute timer in every round. `Ends` and `ExecutionEnds` are therefore statements
about the loops of the executions and not about the servers they call. `PlanVote` models
these servers: nothing is asked of one behind the queue (the timer is what ends that
call), a direct one answers unless it has hung, and `VoteEnds` allows for exactly the
calls that escape the timer. The expiry of the cache is fair, since Redis
drops what has lived its hour; viewers, persons and the one who stops a task are not.
`AgentLoop!FairSpec` is weak fairness of the loop and of each server that has a request
and lives: a server that lives and stays silent does block the agent for ever, as its
client reads without a deadline. That is why `RunEnds` needs it. `AnswerIsToCome` does not: it says
that nothing the loop itself did is why the answer is missing.

## Where the code and its comments part

Two runs are expected to fail. Each checks one property that a comment of the
repository states, and TLC's trace is the history in which the code does otherwise.

| run | the comment | what the code does |
|---|---|---|
| `QueueApprovalLost` | `handler_tasks.go:99-103`: an approval of a running task is refused, or the end of the run would overwrite it | the check (104) and the write (109) are two statements; a claim fits in between, and the approval is overwritten |
| `FlowApprovedOther` | `flow.go:24-28`: approval means that what was seen is pushed | when the stored diff does not apply any more, the approved execution works anew and pushes its own result |

More such statements are kept in the modules as definitions with a comment that begins with
"Documented, not kept." No run uses them; naming one as a property of the module's
passing configuration (and, where said, with another constant) shows the history.

| definition | the comment | what the code does |
|---|---|---|
| `TaskQueue!ApprovedGetsRun` | `handler_tasks.go:95-96`: the run after an approval ships the diff | after an error path that returns `RunResult{}` (`flow.go:134` and others) the lock of the repository stays, and the approved task is never claimed again before a restart |
| `TaskFlow!HandedDiffWasBuilt` | `handover.go:21`: what did not pass the build is not handed over | unplanned files are reverted after the build and untracked ones are missing in the diff, so the diff handed over may never have been built (`flow_review.go:185`) |
| `TaskFlow!NeverStranded` | `flow_planning.go:325-330`: asking whether there is a work copy prevents stranded attempts | `shipReviewedDiff` leaves `repoPath` pointing to a removed directory (`flow.go:286`); if the first plan is refused, attempts 2 and 3 make no worktree |
| `ChainReaction!DepthBoundsPath` with `EnvDepth = 1` | `chain_depth.go:19-20`: depth goes down, chains do not spread for ever | a spent depth 0 is taken for "not given" and renewed to the default (`chain_depth.go:28`); what ends the chain is `PathIsBounded` |
| `VariantFlow!ExcludedIsSkipped` | `variant_entry.go:145-146`: what a human says holds from the next repository on | what was merged from a message is looked at only by the step that took it; with a second message, or after a crash, the exclusion is forgotten |
| `AgentLoop!SummaryStays` | `compact.go:46`: what was folded stays as its summary | a later folding folds the summary too, or the clipping drops it |
| `Editing!EveryPlaceGetsIt` (as an invariant) | `variant_apply.go:90-94`: only a place that breaks the file is left out | a block that two places of a file need is put in once: at the second place it is taken for present (`variant_apply.go:85`) |
| `Editing!SecondIsPassedOver` (as an invariant) | `edit_blocks.go:87-92`: a block sent twice changes nothing the second time | what the first application left can still be like what the block searches for: a looser rung takes it, and part of it is there twice |
| `StateOwner!HandedTypeExists` | `owner_of_state.go:351-352`: any named type is a message of the owner's | only for requests that came from a chosen contract (`NamedTypeIsThere`); by type or by route the owner may not have it |

Differences that modelling brought up and that have no run of their own:

- The API approves any task that is not running, failed ones too, and `stepReview`
  stores each diff before it is judged: with `Approvable` widened to those statuses
  `ShipsWhatWasSeen` does not hold (`handler_tasks.go:104`, `flow_review.go:30`).
- The automatic PR stages with `git add .` and can push untracked files that the gates,
  which saw `git diff HEAD`, did not (`gitmgr.go:85`, after an overruled review).
- A push that was refused before anything was pushed still ends as `COMPLETED`.
- A change that only adds files is an empty diff to `git diff HEAD`, and fails as
  unchanged (`flow_review.go:27`).
- A stop writes `CANCELLED` while the execution still runs, and the end of the
  execution overwrites it (`dashboard_tasks.go:40`).
- In a second attempt the index holds the restored diff: putting a better round back can
  conflict, and the remembered tree is then one no build saw (`flow_verification.go:204`).
  `RememberedIsBest` speaks of the number of errors in the first attempt only for this reason.
- `fingerprintErrors` keeps duplicates although its comment says they do not count
  (`progress.go:106-107`): the same errors printed twice are another fingerprint, and a
  circle is noticed by the stall and not by the fingerprint.
- `chainForMissingState` asks the owner of a contract although the chain already passed
  it (`state_chain.go:47`), against "a repository that was passed is blocked"
  (`chain_depth.go:19`). `PathIsBounded` holds all the same because the request it
  creates sets `adds_state`, and such a request asks for no state again.
- Two executions can work on one repository at a time: the answer of the lock is not
  looked at, and `UnlockRepo` deletes whoever's lock it is.

Of the value additions:

- A worktree that a crash left blocks `git worktree add` for its branch. A rerun that finds
  its branch with the edit committed inserts nothing, and so never pushes it and never opens
  the pull request: the change stays on the machine, and the task ends as failed or with
  what the other repositories gave.
- A blocker whose pull request failed (an address of a comparison only) does not make
  those after it drafts; where a repository refuses drafts, an
  ordinary pull request is opened although a draft was asked for.
- A stop that was taken and a crash: the row says applied, the rerun knows nothing of it.
- Two tasks that add the same value at the same time both find no pull request
  (`existingVariantPR`) and both open one.

Of contracts:

- The question whether a state has a place is asked in the first attempt only
  (`flow.go:114`); a bare "NONE" counts as "exists" (`state_check.go:48-86`).
- The owner that a contract gives is not compared with the parents of the chain, the owner
  that a route gives is.
- `changedExisting` sees neither map fields nor enum values; a message that is empty can
  be deleted; a field that moved within its message is reported as changed;
  `fieldNumberGaps` reports holes that were there; `fieldWentIntoNewMessage` is satisfied by
  any existing message; a deleted `.proto` is not checked at all. `NumbersKeepMeaning`
  speaks of the fields that the patterns read for this reason.

Of editing:

- After a line was replaced its anchor is gone: a rerun of the plan fails in that
  repository. A change without an anchor goes in by its number alone, also where the copy the
  plan was made on is behind. `PlanIsInItsPlace` assumes that anchors are there.
- Two places found by the looser rungs may overlap (`edit_blocks.go:501-518`), which
  the exact rungs rule out; methods that get lost are not noticed (`lost_exports.go:18`);
  a created file is not looked through for duplicates; an instruction that comes again in a
  later attempt inserts its piece twice.
- An error in one file of a plan ends the application with the earlier files written.

Of votes, calls, thoughts and settings:

- After the connection to RabbitMQ is lost a call spins without end (`amqp.go:108-133`);
  a direct call has no timeout (`direct.go:33`).
- `planAttempt` does not look at `Vote`'s error; a tie is decided by the order of a map.
- Thoughts between the reading of the history and the subscription are lost, a full
  queue and a failed write drop them, the mark `START` is stored and never broadcast.
- A stale setting lives up to an hour; a read that failed is taken for "unset", and the
  settings page then overwrites the model that was set (`dashboard_settings.go:38-43`).
  The API form lacks the check for the embedding model that the page has
  (`handler_settings.go:52-54`, `dashboard_settings.go:73`).

Of the agent:

- A tool renamed for a collision is sent to its server under the new name, which the
  server does not know (`config.go:78-79`, `client.go:186`).
- Tools that were left out are neither advertised nor found by a search when the rest fits
  (`loop.go:89` and 96-101).
- A server that lives and says nothing blocks its call; a summary can be clipped together with
  the message that holds the goal; a notice breaks the alternation of roles.

## Proofs

Eight modules of theorems hold for any number of tasks, workers, repositories, files, plans,
messages, contracts, executions, attempts, rounds, restarts, depths, voters, viewers, servers
and turns. Their assumptions are the named `ASSUME`s of the modules, which TLC evaluates in the
runs above; the few theorems that restrict a constant further say so in their statement, and the table repeats it.

| module | theorem | states |
|---|---|---|
| `TaskQueue_proofs` | `TypeCorrect` | `Spec => []TypeOK` |
| | `RunningHeld` | `Spec => []RunningIsHeld` |
| | `CancelReaches` | `Spec => []CancelReachesItsRun` |
| | `ApprovalSpentOnce` | `Spec => []ApprovalBudget` |
| | `FamilyFlat` | `Spec => []FamilyIsFlat` |
| | `QueueImplementsLifecycle` | `Spec => Lifecycle!LifecycleSpec` |
| | `OneRun` | `Spec => []OneRunPerTask`, where stops are the only doors |
| | `StopReaches` | `Spec => []StopReachesEveryRun`, where stops are the only doors |
| `TaskFlow_proofs` | `HandOverEarned` | `Spec => []HandOverIsEarned` |
| | `PushIsAskedFor` | `Spec => []NothingPushedUnasked` |
| | `ShippedWasSeen` | `Spec => ShipsWhatWasSeen`, where only waiting tasks are approved |
| | `StepsRunOut` | `Spec => NoStepIsFree` |
| | `ChainsEnd` | `ChainSpec => []PathIsBounded` |
| | `DepthIsSpent` | `ChainSpec => []DepthBoundsPath`, where `SWARM_CHAIN_DEPTH` is 0 |
| `HealLoop_proofs` | `LoopStopsInTime` | `Spec => []HealsLongEnough` |
| | `LoopKeepsTheBest` | `Spec => []RoundBestIsBest` |
| | `RememberedImproves` | `Spec => RememberedIsBest` |
| `ContractChange_proofs` | `NamedTypeStands` | `Spec => []NamedTypeIsThere` |
| | `RejectionStands` | `Spec => []RejectedStays` |
| | `PassedIsReadable` | `Spec => []ContractStaysReadable` |
| | `ProperGetsThrough` | `Spec => []ProperChangePasses` |
| `VariantFlow_proofs` | `OutStands` | `Spec => []OutAsItShould` |
| | `StopHolds` | `Spec => StopEndsIt` |
| | `WalkImplementsPublication` | `Spec => ImplementsPublication` |
| `PlanVote_proofs` | `SendsStayOpen` | `Spec => []NeverSendsToClosed` |
| | `ThoughtsInOrder` | `Spec => []ShownInOrder` |
| | `VoteHeeded` | `Spec => []VoteIsHeeded` |
| `AgentLoop_proofs` | `Arrives` | `Spec => []CallsArrive` |
| | `OutOnce` | `Spec => CalledOnce` |
| | `RunIsSpent` | `Spec => EveryStepCounts` |
| | `SentFits` | `Spec => []WindowIsUsed` |
| `Editing_proofs` | `NamesStay` | `Spec => []HeadNamesStay` |
| | `StillParses` | `Spec => []SavedParses` |

**The queue.** Assumed: the bounds are naturals, the two "none" values are not members. None
of the properties is inductive on its own. The base is `IInv`:
`TypeOK`, `TurnOK` (a worker in the middle of its turn has a task that exists, one that
hands on chain requests has at least one left, one that is about to link has a row to
link) and `RowsOK` (the rows beyond `created` are absent, without root and parent, and
no handler works on one of them). `Inductive` shows that `IInv` holds initially and is
kept by every step. Each property is then inductive relative to it: `RunningHeld` and
`CancelReaches` by themselves (a worker leaves the stoppable part of its loop only
through `Unregister`, which empties the entry whoever it belonged to), `ApprovalSpentOnce` because
only a door writes `APPROVED` and pays for it in the same step, `FamilyFlat` with the
strengthening `Flat` (a parent, once written, is the root stored in the row). The
refinement theorem maps each action to a step or a stutter of `TaskLifecycle`: `Submit`
and `Chain` to `Enter`, `Claim` to `Pick`, `Report` to `Settle`, the writes of the doors
to `Decide`, `Restart` to `Reboot`, everything else to a stutter. `OneRun` and `StopReaches`
hold where stops are the only doors, because a rejection or an approval of a running task really
does give it a second execution. Their invariant `StopsOnly` adds that nothing executed is
in the queue: with stops alone, only the insertion of a new task and a restart, which
ends every execution, put a task there.

**One execution.** Assumed: the doors approve no running task, and the value for "no diff"
is not a diff. `FlowInv` is one invariant for all that is promised at the doors, since they
rest on the same few facts about the way there: a clean verdict goes with a build that passed in this attempt, what
is in `handing` is not empty, and what is in `publishing` is clean, stored and gated
(`WayOutStands`); whoever executes with an approval has one from a human
(`ApprovalStands`); only an approved execution can be left with a directory that is gone
(`WorktreeStands`); and between the approval and the start of the execution the row holds what the
human saw (`SeenStands`, under the condition that only waiting tasks are approved, which
`ShippedWasSeen` assumes). The attempts have to be counted (`CountStands`), because the
door answers differently after the last one. `FinishKept`, `AgainKept` and `GoesOn` say
once what the three kinds of steps keep: an execution that ends, an attempt that ends,
and a step within an attempt; each action is then shown to be one of them.

How long an execution lasts is a theorem of its own. `StepsLeft` counts nine steps for each attempt that
is left and those to the end of this one. The actions are many and the ways of getting on are few: each step
of an execution ends it, begins the attempts, begins the next attempt, or goes on within one (`Onward`,
shown by `StepsGoOnward` from `FlowInv`), and each of these leaves less (`OnwardIsShorter`). It needs the
invariant, since an attempt beyond the last would have a negative number of attempts left.

**The rounds.** Assumed: an output has at least one error, HEAD's version is no edit, and the
caps are positive. The properties speak of what was built (`log`), the code keeps counters only, so
`HealInv` says what each counter is as a function of the log: `rounds` its length, `seen` its
outputs (`CountStands`), `best` the lowest number so far, first printed `stalled` rounds ago
(`LowFound`), the best round one of the log (`RoundStands`), and the tree of the last
round what is still in the files when the loop stops (`LastStands`). `RoundsAreBounded` needs one thing more, an
account of what was paid for: `rounds <= 1 + StallRounds * (first - best) + stalled`, since each
new low buys at most `StallRounds` rounds.

**The chain.** Assumed: the repositories are a finite set, the local ones a subset of it. The
invariant of `ChainInductive` counts along one path: with its own
repository, a path is never longer than twice the number of *different* repositories on
it, less one unless its last request adds a state (`PathCounts`). A child through an
impact or a missing contract is a new repository and adds two to the right side; a child
that adds a state may come back, but only from a request that does not add one, and so
spends the spare one. Since the repositories are finitely many, the path is bounded.
`DepthIsSpent` is the other bound: with `SWARM_CHAIN_DEPTH` set to 0 the length of a path and
the depth left to it (`DepthCounts`) are never more than the depth of the root. With the default of the
code, 1, that is false (see above), which is why the theorem assumes the 0.

**Contracts.** Assumed: what was at HEAD compiled (names are unique in a package, numbers
in a message, only messages have fields), files are finite, the original of a contract lies in the
repository of its owner, and "none" is the name of no contract, repository or type. Two
invariants: `SearchInv` says that the search looks only at contracts that exist, and that
one whose candidates were all rejected never arrives where one of them is chosen;
`ChildInv` says that each block in the child's tree is one of its versions and that a tree that was handed over passed all
checks. The rest are lemmas about the checks: what each of them lets through cannot
break the property, whatever the versions are. This is where the checks that see only
one aspect each are put together. `StateTypesStay` has to count: the check adds up the
states of the *worktree* without the lines just added, the property those of *HEAD*, and
`HabitStands` shows that the two agree as soon as no field was removed. `ProperGetsThrough` is the
other direction, one lemma for each group of checks; `DenseHasNoGap` is its only arithmetic.

**Value additions.** Assumed: plans are not empty and name each repository once, and a message does
not ask for a repository and exclude it. `WalkInv` adds to `TypeOK` what git and
GitHub look like (`GitInv`: what is at the remote was committed, what is up for review is at
the remote, once) and, for each task, that what its execution is about to do was done by no
earlier one (`EntryStands`), that a stop heard has ended the walk (`StopStands`), that
the edit on its way was built and is a draft if it must be (`EditStands`), and that the
results tell the truth (`ResultsStand`). `EntryStands` is the heart of the refinement: at
`push` the branch is committed and not out, because an execution that finds its branch
committed never gets past the build. Each step then is one `Advance` or a stutter.

**Plans, votes and thoughts.** Assumed: a scenario asks nobody twice, an answer is one or
two thoughts long, the values of a setting are no models. `VoteInv` is made of the invariants of the parts.
`StreamInv`: a viewer is in the map only while it is live and its channel is closed only after it was taken out
(`DoorsStand`), and on both ways to a screen, table behind queue and screen behind channel, the
thoughts are in order (`OrderStands`). `SaidInv` ties the stream to the calls, since a
thought that is stored is ahead of nothing its call has told; each step of a call is an
`Onward`, which keeps what was said before. `StageStands` says what a vote has when it is counted.

**The agent.** Assumed: servers have names of their own, and so have the tools of one server; the
numbers are naturals. `AgentInv` has the types, the owner of each name, the head of the conversation
and the window (`HistoryStands`), and `IdsStand`, on which `CallsArrive` rests: of all ids
a server has seen only the latest is waited for (`IdsOf`), and its answer comes once, from the pipe or
from a server that lives (`OnceOf`). So a line that comes late, twice or unasked is never taken for
the answer to another call. That each name finds its server is a fact about catalogues
(`NamesTellServers`, `OwnerFinds`): a name with no server in front belongs to one tool alone.
`SentFits` needs another one, about what a goal picks (`PickFills`): the walk over the ranked tools
keeps that what is taken costs at most the room, and that a tool passed over would not have fit behind
those taken before it, which are all no worse. That the tools can be ranked at all is an
induction over the parts of a catalogue, each of which has a worst tool (`RankedStands`, `WorstPlace`).

That the loop does not wait in vain is inductive with `AgentInv`: the request that goes out puts its id
with the server, which answers in order, so that the id moves from there to the pipe (`ServersMeet`), and the
loop takes away only lines with another id (`LoopMeets`). This is `WaitsForSomething`, from which `Arrives`
takes its last part, `AnswerIsToCome`. `EveryStepCounts` is the length of a run as a pair: the steps that are
left to the loop, seven a turn with the two calls that a turn of the model has at most, and below them what the
servers owe, a request counted twice since it becomes a line first. A step lowers the first; or it leaves it and
lowers the second, or a server dies, or speaks unasked, which `MaxLines` bounds.

**Editing.** Assumed: what is at HEAD and what a model writes are files, a plan is finitely many
changes. `HeadNamesStay` says of a file what the gate says of one write, and that is not the same:
`LostExports` looks at HEAD while the file has been written several times since. It is inductive
because each way of the coder to write is one of three (`CoderCodes`): nothing is written, what is written has passed
both gates, or a file is written where there was none, which passes only the first, and then HEAD
had no names there to lose. `SavedParses` also covers the plans, whose writes pass no gate at the end:
`PlanStands` shows that whatever comes out of `ApplyVariantPlan`, in whatever order the changes
went in, has as many braces open as what went in, parses if that did, and is the same file if nothing got in
(`Standing`), for any anchors, blocks and files. Each change keeps that (`ChangeStands`), because
`insertBreaksSyntax` is asked after each. The invariant is `EditInv`, which adds `PlanHolds`: in the hands of
plans the file is one, has the braces of HEAD, and parses in any language if HEAD does.

**Folds, sums and sequences.** The library's induction theorems cannot be used here, since they take an
operator as a parameter. Where a proof needs what a fold computes (the tools of several servers in a
row, the tokens of a conversation, the costs of tools, the changes of a plan, the states of a contract), it argues by a
smallest counterexample instead: `LeastNumber` gives the least number of a set of numbers, and the step below
it does the rest (`NumbersUpTo`, and `PartsOf` for the parts of a finite set). `FoldStands` uses it once
and for all: a fold over a finite set is a function on its parts that satisfies the equation of the fold.

Only model-checked:

- `BlockHitsItsPlaces`: the ladder of matchers searches and sorts (`SelectSeq`, `SortSeq`), which the
  provers do not know, and its two parts speak of likeness, which the constants give freely: that no copy is left and that a
  piece alike is the only one are true of the texts of the instance, where every search has a word in it,
  and not of every choice of constants;
- `PlanIsInItsPlace`: each anchor is looked for in the file that the changes before it have made. That this is
  the place it had in the file found is true where the blocks do not look like the anchors of others, as
  in the plans of the instance; it is not true of every plan, so there is nothing to prove without
  restricting the plans to those for which it is obvious;
- `VoteEnds`, `StaleEnds`, `RunEnds`, `Ends`, `ExecutionEnds` and `FreshTaskIsPicked`: liveness
  is out of reach for the provers, as is `ENABLED`. Of two of them the part that is not about fairness is
  proved: for `Ends` that no step goes round for nothing (`NoStepIsFree`), for `RunEnds` that every step
  counts and that the answer is to come (`EveryStepCounts`, `AnswerIsToCome`). What is left to TLC is that a
  step is possible until the end, and that the fair ones are taken.

## Not modelled

- *Knowledge services*: clients of other services; their answers are arbitrary here.
- *Bus, reporting, metrics, keys, pages, unlock page, Korean particles*: formatting,
  plain I/O and comparisons; nothing in the core depends on their state.
- *Prompts*, and which regions of a long file a model is shown (`regions.go`): they decide what
  a model says, and a model may say anything here.
- *Guard rules* (`guard/`): a list of patterns over paths.
- *Links between repositories made for a build* (`linkDependencies`): they change no file of
  the diff.
- *The older consensus* (`ConsensusProcess`): called by nobody.
- Failing database statements: the code mostly drops their errors, which the model would
  only repeat; the one that matters (`CreateTask` returning nil) is listed as a hazard.

What is only partly there: the execution of a task (without benchmarks, knowledge notes and
feedback texts), git and pull requests (without remote URLs, the links above and the text of a
pull request), the owner of a state (the tournament is any order of the candidates), editing
(without the readers of single languages) and the vote (without the older consensus). The
checks of a contract leave out options and maps.

## Plan

Every component that keeps state is modelled, and what its runs check is proved except for the
three groups above. What is left:

1. `Editing`: lemmas about single rungs of the ladder (a block that is applied word for word leaves the
   lines around it alone), for which the searches have to be written as sets of places.
2. Ranks for the other liveness properties, as `NoStepIsFree` and `EveryStepCounts` are for an execution
   and a run of the agent: the walk of `VariantFlow` and the calls of `PlanVote`.
3. An instance of `VariantFlow` with two tasks and no restart, for the pull requests of
   two tasks that add the same value.
