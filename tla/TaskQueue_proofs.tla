------------------------- MODULE TaskQueue_proofs -------------------------
(***************************************************************************)
(* Theorems about TaskQueue for every number of tasks, workers and         *)
(* repositories, every set of open doors and every bound.                  *)
(*                                                                         *)
(* The invariants of the runs are not inductive alone: they rest on what a *)
(* worker's locals hold at each place of its loop (TurnOK) and on the rows *)
(* of the table being its first `created` entries (RowsOK).                *)
(***************************************************************************)
EXTENDS TaskQueue, TLAPS

\* What a worker's locals hold at each place of its loop.
TurnOK ==
    \A w \in Worker :
        /\ wpc[w] \in Executing \cup {"chaining", "linking"} => wtask[w] \in Exists
        /\ wpc[w] \in {"chaining", "linking"} => wresult[w].chain >= 1
        /\ wpc[w] = "linking" => wchild[w] \in Exists

\* The rows of the table are 1..created; nothing is known of the others.
RowsOK ==
    /\ \A t \in Task : status[t] = "ABSENT" <=> t > created
    /\ \A t \in Task : t > created => root[t] = NoTask /\ parent[t] = NoTask
    /\ \A h \in handlers : h[2] \in Exists

IInv == TypeOK /\ TurnOK /\ RowsOK

\* The database is empty and every worker idle: the invariant holds at the start.
LEMMA InitIInv == Init => IInv
<1> SUFFICES ASSUME Init PROVE IInv
    OBVIOUS
<1> USE BoundsAssumption, NamesAssumption
<1>1. TypeOK
    BY DEF Init, TypeOK, Task, NoTask, Status, Executing, Between, Result, NoResult, Settled
<1>2. TurnOK
    BY DEF Init, TurnOK, Executing
<1>3. RowsOK
    BY DEF Init, RowsOK, Task
<1> QED
    BY <1>1, <1>2, <1>3 DEF IInv

LocalsTyped ==
    /\ wpc \in [Worker -> Executing \cup Between]
    /\ wtask \in [Worker -> Task \cup {NoTask}]
    /\ wapproved \in [Worker -> BOOLEAN]
    /\ wstopped \in [Worker -> BOOLEAN]
    /\ wrepo \in [Worker -> Repo \cup {NoRepo}]
    /\ wresult \in [Worker -> Result]
    /\ wchild \in [Worker -> Task \cup {NoTask}]

\* What a worker holds before its execution returns is a RunResult.
LEMMA NoResultIsResult == NoResult \in Result
    BY BoundsAssumption DEF NoResult, Result, Settled

\* The end of a turn leaves the locals typed.
LEMMA EndOfTurnTyped ==
    ASSUME LocalsTyped, NEW w \in Worker, EndOfTurn(w)
    PROVE  LocalsTyped'
<1>1. wpc' \in [Worker -> Executing \cup Between]
    BY DEF LocalsTyped, EndOfTurn, Between
<1>2. wtask' \in [Worker -> Task \cup {NoTask}] /\ wchild' \in [Worker -> Task \cup {NoTask}]
    BY DEF LocalsTyped, EndOfTurn
<1>3. wapproved' \in [Worker -> BOOLEAN] /\ wstopped' \in [Worker -> BOOLEAN]
    BY Zenon DEF LocalsTyped, EndOfTurn
<1>4. wrepo' \in [Worker -> Repo \cup {NoRepo}]
    BY DEF LocalsTyped, EndOfTurn
<1>5. wresult' \in [Worker -> Result]
    BY NoResultIsResult, Zenon DEF LocalsTyped, EndOfTurn
<1> QED
    BY <1>1, <1>2, <1>3, <1>4, <1>5 DEF LocalsTyped

\* Every way out of an execution returns one of the results of Result.
LEMMA ReturnShape ==
    ASSUME TypeOK, NEW w \in Worker,
           ReturnShipped(w) \/ ReturnVariant(w) \/ ReturnEarly(w)
             \/ ReturnFromRepo(w) \/ ReturnNameless(w)
    PROVE  /\ wpc[w] \in {"running", "working"}
           /\ \E r \in Repo \cup {NoRepo}, s \in Settled, n \in 0..MaxChain : Return(w, r, s, n)
<1> USE DEF Settled
<1>1. 0 \in 0..MaxChain
    BY BoundsAssumption
<1>2. wrepo[w] \in Repo \cup {NoRepo}
    BY DEF TypeOK
<1>3. CASE ReturnShipped(w)
    BY <1>1, <1>3, Zenon DEF ReturnShipped
<1>4. CASE ReturnVariant(w)
    BY <1>1, <1>4, Zenon DEF ReturnVariant
<1>5. CASE ReturnEarly(w)
    BY <1>1, <1>5, Zenon DEF ReturnEarly
<1>6. CASE ReturnFromRepo(w)
    BY <1>1, <1>2, <1>6, Zenon DEF ReturnFromRepo
<1>7. CASE ReturnNameless(w)
    BY <1>1, <1>7, Zenon DEF ReturnNameless
<1> QED
    BY <1>3, <1>4, <1>5, <1>6, <1>7

(* The steps of a worker keep the types. *)
LEMMA WorkerTypeOK ==
    ASSUME IInv, NEW w \in Worker, WorkerStep(w)
    PROVE  TypeOK'
<1> USE BoundsAssumption, NamesAssumption
<1> USE DEF IInv, TypeOK, dbVars, runVars, countVars, Goto, SetStatus, Task, NoTask,
            Executing, Between
<1>1. CASE PassGate(w) \/ NothingToClaim(w)
    BY <1>1 DEF PassGate, NothingToClaim
<1>2. CASE Claim(w)
  <2>1. PICK t \in Claimable : ClaimTask(w, t, "RUNNING")
      BY <1>2 DEF Claim
  <2>2. t \in Task
      BY DEF Claimable, Exists
  <2>3. wapproved' \in [Worker -> BOOLEAN]
    <3>1. (status[t] = "APPROVED") \in BOOLEAN
        OBVIOUS
    <3> QED
        BY <2>1, <3>1, Zenon DEF ClaimTask
  <2>4. approvedRuns' \in [Task -> Nat]
      BY <2>1, <2>2 DEF ClaimTask
  <2>5. status' \in [Task -> Status]
      BY <2>1, <2>2 DEF ClaimTask, Status
  <2>6. wpc' \in [Worker -> Executing \cup Between] /\ wtask' \in [Worker -> Task \cup {NoTask}]
      BY <2>1, <2>2 DEF ClaimTask
  <2>7. UNCHANGED <<created, repoName, root, parent, lock, cancels, wstopped, wrepo,
                   wresult, wchild, handlers, decisions, restarts, approvals>>
      BY <2>1 DEF ClaimTask
  <2> QED
      BY <2>3, <2>4, <2>5, <2>6, <2>7
<1>3. CASE RegisterCancel(w)
    BY <1>3 DEF RegisterCancel
<1>4. CASE \E r \in Repo : TryLock(w, r)
  <2>1. PICK r \in Repo : TryLock(w, r)
      BY <1>4
  <2>2. wtask[w] \in Task \cup {NoTask}
      OBVIOUS
  <2>3. lock' \in [Repo -> Task \cup {NoTask}]
    <3>1. lock' = [lock EXCEPT ![r] = wtask[w]] \/ lock' = lock
        BY <2>1, Zenon DEF TryLock
    <3> QED
        BY <2>2, <3>1
  <2>4. wrepo' \in [Worker -> Repo \cup {NoRepo}] /\ wpc' \in [Worker -> Executing \cup Between]
      BY <2>1 DEF TryLock
  <2> QED
      BY <2>1, <2>3, <2>4 DEF TryLock
<1>5. CASE RecordRepo(w)
    BY <1>5 DEF RecordRepo
<1>6. CASE ReturnShipped(w) \/ ReturnVariant(w) \/ ReturnEarly(w)
             \/ ReturnFromRepo(w) \/ ReturnNameless(w)
  <2>1. PICK r \in Repo \cup {NoRepo}, s \in Settled, n \in 0..MaxChain : Return(w, r, s, n)
      BY <1>6, ReturnShape
  <2>2. [repo |-> r, status |-> s, chain |-> n] \in Result
      BY DEF Result
  <2>3. wresult' \in [Worker -> Result]
      BY <2>1, <2>2, Zenon DEF Return
  <2>4. wapproved' \in [Worker -> BOOLEAN]
      BY <2>1, Zenon DEF Return
  <2>5. wrepo' \in [Worker -> Repo \cup {NoRepo}] /\ wpc' \in [Worker -> Executing \cup Between]
      BY <2>1 DEF Return
  <2> QED
      BY <2>1, <2>3, <2>4, <2>5 DEF Return
<1>7. CASE Unregister(w)
    BY <1>7 DEF Unregister
<1>8. CASE Unlock(w)
    BY <1>8 DEF Unlock
<1>9. CASE Report(w)
  <2>1. LocalsTyped'
    <3>1. CASE wresult[w].chain > 0
        BY <1>9, <3>1 DEF Report, AfterReport, LocalsTyped
    <3>2. CASE ~(wresult[w].chain > 0)
        BY <1>9, <3>2, EndOfTurnTyped DEF Report, AfterReport, LocalsTyped
    <3> QED
        BY <3>1, <3>2
  <2>2. status' \in [Task -> Status]
    <3>1. wresult[w].status \in Settled
        BY DEF Result
    <3> QED
        BY <1>9, <3>1 DEF Report, Settled, Status
  <2> QED
      BY <1>9, <2>1, <2>2 DEF Report, LocalsTyped
<1>10. CASE Chain(w)
  <2>1. created + 1 \in Task /\ created' \in 0..MaxTasks
      BY <1>10 DEF Chain, Insert
  <2>2. RootOf(w) \in Task
      BY <1>10 DEF Chain, RootOf, TurnOK, Exists
  <2>3. status' \in [Task -> Status] /\ root' \in [Task -> Task \cup {NoTask}]
      BY <1>10, <2>1, <2>2 DEF Chain, Insert, Status
  <2>4. wchild' \in [Worker -> Task \cup {NoTask}] /\ wpc' \in [Worker -> Executing \cup Between]
      BY <1>10, <2>1 DEF Chain
  <2> QED
      BY <1>10, <2>1, <2>3, <2>4 DEF Chain, Insert
<1>11. CASE ChainNoRoom(w)
    BY <1>11, EndOfTurnTyped DEF ChainNoRoom, LocalsTyped
<1>12. CASE Link(w)
  <2>1. wpc[w] = "linking" /\ wchild[w] \in Task /\ wresult[w].chain >= 1
      BY <1>12 DEF Link, LinkChild, TurnOK, Exists
  <2>2. parent' \in [Task -> Task \cup {NoTask}]
      BY <1>12, <2>1 DEF Link, LinkChild
  <2>3. LocalsTyped'
    <3>1. CASE wresult[w].chain = 1
        BY <1>12, <3>1, EndOfTurnTyped DEF Link, LinkChild, LocalsTyped
    <3>2. CASE wresult[w].chain # 1
      <4>1. [wresult[w] EXCEPT !.chain = @ - 1] \in Result
        <5>1. wresult[w] \in Result
            OBVIOUS
        <5>2. wresult[w].chain \in 0..MaxChain
            BY <5>1 DEF Result
        <5>3. wresult[w].chain - 1 \in 0..MaxChain
            BY <2>1, <3>2, <5>2
        <5> QED
            BY <5>1, <5>3 DEF Result
      <4>2. wresult' \in [Worker -> Result]
          BY <1>12, <3>2, <4>1 DEF Link, LinkChild
      <4> QED
          BY <1>12, <3>2, <4>2 DEF Link, LinkChild, LocalsTyped
    <3> QED
        BY <3>1, <3>2
  <2> QED
      BY <1>12, <2>2, <2>3 DEF Link, LinkChild, LocalsTyped
<1> QED
    BY <1>1, <1>2, <1>3, <1>4, <1>5, <1>6, <1>7, <1>8, <1>9, <1>10, <1>11, <1>12
    DEF WorkerStep

\* worker.Stop leaves the manager and the locals typed.
LEMMA StopEntryTyped ==
    ASSUME LocalsTyped, cancels \in [Task -> Worker \cup {NoWorker}],
           NEW t \in Task, StopEntry(t)
    PROVE  LocalsTyped' /\ cancels' \in [Task -> Worker \cup {NoWorker}]
<1>1. \A w \in Worker : (wstopped[w] \/ w = cancels[t]) \in BOOLEAN
    OBVIOUS
<1>2. wstopped' \in [Worker -> BOOLEAN]
    BY <1>1, Zenon DEF StopEntry
<1> QED
    BY <1>2 DEF StopEntry, LocalsTyped

\* Doors, half-done handlers, submissions and restarts keep the types.
LEMMA OtherTypeOK ==
    ASSUME IInv, Submit \/ Restart \/ \E t \in Task : HumanStep(t) \/ HandlerStep(t)
    PROVE  TypeOK'
<1> USE BoundsAssumption, NamesAssumption
<1> USE DEF IInv, TypeOK, dbVars, runVars, countVars, SetStatus, Task, NoTask
<1>1. CASE Submit
    BY <1>1, SMTT(30) DEF Submit, Insert, Status
<1>2. CASE Restart
  <2>1. status' \in [Task -> Status]
      BY <1>2 DEF Restart, Reborn, Status
  <2>2. LocalsTyped'
      BY <1>2, NoResultIsResult DEF Restart, Reborn, LocalsTyped, Between
  <2> QED
      BY <1>2, <2>1, <2>2 DEF Restart, Reborn, LocalsTyped
<1>3. ASSUME NEW t \in Task, HumanStep(t) PROVE TypeOK'
  <2> USE DEF Opens
  <2>0. \A door \in AllDoors : handlers \cup {<<door, t>>} \subseteq AllDoors \X Task
      OBVIOUS
  <2>a. decisions' \in 0..MaxDecisions
    <3>1. decisions < MaxDecisions /\ decisions' = decisions + 1
        BY <1>3 DEF HumanStep, ApiStop, DashStop, ApiApprove, DashApprove, DashReject
    <3> QED
        BY <3>1
  <2> HIDE DEF Opens
  <2>1. CASE ApiStop(t)
    <3>1. handlers' \subseteq AllDoors \X Task
        BY <2>0, <2>1 DEF ApiStop, AllDoors
    <3>2. LocalsTyped' /\ cancels' \in [Task -> Worker \cup {NoWorker}]
        BY <2>1, StopEntryTyped DEF ApiStop, LocalsTyped
    <3> QED
        BY <2>a, <2>1, <3>1, <3>2 DEF ApiStop, StopEntry, LocalsTyped
  <2>2. CASE DashStop(t)
    <3>1. handlers' \subseteq AllDoors \X Task
        BY <2>0, <2>2 DEF DashStop, AllDoors
    <3>2. status' \in [Task -> Status]
        BY <2>2 DEF DashStop, Status
    <3> QED
        BY <2>a, <2>2, <3>1, <3>2 DEF DashStop
  <2>3. CASE ApiApprove(t)
    <3>1. handlers' \subseteq AllDoors \X Task
        BY <2>0, <2>3 DEF ApiApprove, AllDoors
    <3> QED
        BY <2>a, <2>3, <3>1 DEF ApiApprove
  <2>4. CASE DashApprove(t)
    <3>1. status' \in [Task -> Status] /\ approvals' \in [Task -> Nat]
        BY <2>4 DEF DashApprove, WriteApproval, Status
    <3> QED
        BY <2>a, <2>4, <3>1 DEF DashApprove
  <2>5. CASE DashReject(t)
      BY <2>a, <2>5 DEF DashReject, Status
  <2> QED
      BY <1>3, <2>1, <2>2, <2>3, <2>4, <2>5 DEF HumanStep
<1>4. ASSUME NEW t \in Task, HandlerStep(t) PROVE TypeOK'
  <2>1. CASE ApiStopWrite(t)
      BY <1>4, <2>1 DEF ApiStopWrite, Status
  <2>2. CASE DashStopEntry(t)
    <3>1. LocalsTyped' /\ cancels' \in [Task -> Worker \cup {NoWorker}]
        BY <2>2, StopEntryTyped DEF DashStopEntry, LocalsTyped
    <3> QED
        BY <2>2, <3>1 DEF DashStopEntry, LocalsTyped
  <2>3. CASE ApiApproveWrite(t)
    <3>1. status' \in [Task -> Status] /\ approvals' \in [Task -> Nat]
        BY <2>3 DEF ApiApproveWrite, WriteApproval, Status
    <3> QED
        BY <2>3, <3>1 DEF ApiApproveWrite
  <2> QED
      BY <1>4, <2>1, <2>2, <2>3 DEF HandlerStep
<1> QED
    BY <1>1, <1>2, <1>3, <1>4

\* Only the worker that steps changes its locals, and the table only grows.
LEMMA WorkerTurnOK ==
    ASSUME IInv, NEW w \in Worker, WorkerStep(w)
    PROVE  TurnOK'
<1> USE BoundsAssumption
<1> USE DEF TurnOK, Exists, dbVars, runVars, countVars, Goto
<1>0. wpc \in [Worker -> Executing \cup Between] /\ created \in Nat
    BY DEF IInv, TypeOK
<1>t. wtask \in [Worker -> Task \cup {NoTask}] /\ wchild \in [Worker -> Task \cup {NoTask}]
    BY DEF IInv, TypeOK
<1>r. wresult \in [Worker -> Result]
    BY DEF IInv, TypeOK
<1>i. TurnOK
    BY DEF IInv
<1>1. CASE PassGate(w) \/ NothingToClaim(w)
    BY <1>0, <1>i, <1>1 DEF PassGate, NothingToClaim, Executing
<1>2. CASE Claim(w)
    BY <1>0, <1>t, <1>i, <1>2 DEF Claim, ClaimTask, Claimable, Executing
<1>3. CASE RegisterCancel(w) \/ RecordRepo(w) \/ Unregister(w) \/ Unlock(w)
    BY <1>0, <1>i, <1>3 DEF RegisterCancel, RecordRepo, Unregister, Unlock, Executing
<1>4. CASE \E r \in Repo : TryLock(w, r)
    BY <1>0, <1>i, <1>4 DEF TryLock, Executing
<1>5. CASE ReturnShipped(w) \/ ReturnVariant(w) \/ ReturnEarly(w)
             \/ ReturnFromRepo(w) \/ ReturnNameless(w)
  <2>1. PICK r \in Repo \cup {NoRepo}, s \in Settled, n \in 0..MaxChain : Return(w, r, s, n)
      BY <1>5, ReturnShape DEF IInv
  <2>2. wpc[w] \in {"running", "working"}
      BY <1>5, ReturnShape DEF IInv
  <2> QED
      BY <1>0, <1>r, <1>i, <2>1, <2>2 DEF Return, Executing
<1>6. CASE Report(w)
  <2>1. CASE wresult[w].chain > 0
    <3>1. wresult[w].chain \in 0..MaxChain
        BY <1>r DEF Result
    <3> QED
        BY <1>0, <1>i, <1>6, <2>1, <3>1 DEF Report, AfterReport, Executing
  <2>2. CASE ~(wresult[w].chain > 0)
      BY <1>0, <1>t, <1>r, <1>i, <1>6, <2>2 DEF Report, AfterReport, EndOfTurn, Executing
  <2> QED
      BY <2>1, <2>2
<1>7. CASE Chain(w)
    BY <1>0, <1>t, <1>i, <1>7 DEF Chain, Insert, Executing
<1>8. CASE ChainNoRoom(w)
    BY <1>0, <1>t, <1>r, <1>i, <1>8 DEF ChainNoRoom, EndOfTurn, Executing
<1>9. CASE Link(w)
  <2>1. CASE wresult[w].chain = 1
      BY <1>0, <1>t, <1>r, <1>i, <1>9, <2>1 DEF Link, LinkChild, EndOfTurn, Executing
  <2>2. CASE wresult[w].chain # 1
    <3>1. wresult[w].chain \in 0..MaxChain
        BY <1>r DEF Result
    <3>2. wresult[w].chain - 1 >= 1
        BY <1>i, <1>9, <2>2, <3>1 DEF Link, LinkChild
    <3>3. wresult'[w].chain >= 1 /\ \A v \in Worker : v # w => wresult'[v] = wresult[v]
        BY <1>r, <1>9, <2>2, <3>2 DEF Link, LinkChild, Result
    <3> QED
        BY <1>0, <1>i, <1>9, <2>2, <3>3 DEF Link, LinkChild, Executing
  <2> QED
      BY <2>1, <2>2
<1> QED
    BY <1>1, <1>2, <1>3, <1>4, <1>5, <1>6, <1>7, <1>8, <1>9 DEF WorkerStep

\* A restart leaves no turn; nothing else outside the workers reaches their places.
LEMMA OtherTurnOK ==
    ASSUME IInv, Submit \/ Restart \/ \E t \in Task : HumanStep(t) \/ HandlerStep(t)
    PROVE  TurnOK'
<1> USE BoundsAssumption
<1> USE DEF TurnOK, Exists, dbVars, runVars, countVars
<1>0. created \in Nat
    BY DEF IInv, TypeOK
<1>i. TurnOK
    BY DEF IInv
<1>1. CASE Submit
    BY <1>0, <1>i, <1>1 DEF Submit, Insert
<1>2. CASE Restart
    BY <1>2 DEF Restart, Reborn, Executing
<1>3. ASSUME NEW t \in Task, HumanStep(t) PROVE TurnOK'
    BY <1>i, <1>3 DEF HumanStep, ApiStop, DashStop, ApiApprove, DashApprove, DashReject, StopEntry
<1>4. ASSUME NEW t \in Task, HandlerStep(t) PROVE TurnOK'
    BY <1>i, <1>4 DEF HandlerStep, ApiStopWrite, DashStopEntry, ApiApproveWrite, StopEntry
<1> QED
    BY <1>1, <1>2, <1>3, <1>4
\* The steps of Next that insert no row and touch neither parents nor statuses.
Quiet(w) ==
    \/ PassGate(w) \/ NothingToClaim(w) \/ RegisterCancel(w)
    \/ \E r \in Repo : TryLock(w, r)
    \/ RecordRepo(w)
    \/ ReturnShipped(w) \/ ReturnVariant(w) \/ ReturnEarly(w)
    \/ ReturnFromRepo(w) \/ ReturnNameless(w)
    \/ Unregister(w) \/ Unlock(w) \/ ChainNoRoom(w)

\* Rows are inserted at the end, and only rows of the table are written.
LEMMA NextRowsOK ==
    ASSUME IInv, Next
    PROVE  RowsOK'
<1> USE BoundsAssumption
<1> USE DEF RowsOK, Exists, dbVars, runVars, countVars, Task, NoTask, SetStatus
<1>i. IInv
    OBVIOUS
<1>0. /\ created \in Nat
      /\ status \in [Task -> Status]
      /\ root \in [Task -> Task \cup {NoTask}]
      /\ parent \in [Task -> Task \cup {NoTask}]
      /\ RowsOK
      /\ TurnOK
    BY DEF IInv, TypeOK
<1> HIDE DEF IInv
<1>1. ASSUME NEW w \in Worker, Quiet(w) PROVE RowsOK'
  <2>1. UNCHANGED <<created, status, root, parent, handlers>>
      BY <1>1 DEF Quiet, PassGate, NothingToClaim, RegisterCancel, TryLock, RecordRepo,
         ReturnShipped, ReturnVariant, ReturnEarly, ReturnFromRepo, ReturnNameless, Return,
         Unregister, Unlock, ChainNoRoom
  <2> QED
      BY <1>0, <2>1
<1>2. ASSUME NEW w \in Worker, Claim(w) PROVE RowsOK'
    BY <1>0, <1>2 DEF Claim, ClaimTask, Claimable
<1>3. ASSUME NEW w \in Worker, Report(w) PROVE RowsOK'
  <2>1. wresult[w].status \in Settled /\ wtask[w] \in Exists
      BY <1>i, <1>0, <1>3 DEF IInv, TypeOK, Result, TurnOK, Report, Executing
  <2> QED
      BY <1>0, <1>3, <2>1 DEF Report, Settled
<1>4. ASSUME NEW w \in Worker, Chain(w) PROVE RowsOK'
    BY <1>0, <1>4 DEF Chain, Insert
<1>5. ASSUME NEW w \in Worker, Link(w) PROVE RowsOK'
    BY <1>0, <1>5 DEF Link, LinkChild, TurnOK
<1>6. CASE Submit
    BY <1>0, <1>6 DEF Submit, Insert
<1>7. CASE Restart
    BY <1>0, <1>7 DEF Restart, Reborn
<1>8. ASSUME NEW t \in Task, HumanStep(t) PROVE RowsOK'
  <2>1. t \in Exists /\ UNCHANGED <<created, root, parent>>
      BY <1>8 DEF HumanStep, ApiStop, DashStop, ApiApprove, DashApprove, DashReject, Opens
  <2>2. \A h \in handlers' : h[2] \in Exists
      BY <1>0, <1>8, <2>1 DEF HumanStep, ApiStop, DashStop, ApiApprove, DashApprove, DashReject
  <2>3. status' = status \/ \E s \in {"CANCELLED", "APPROVED", "PENDING"} :
                              status' = [status EXCEPT ![t] = s]
      BY <1>8 DEF HumanStep, ApiStop, DashStop, ApiApprove, DashApprove, DashReject,
                  WriteApproval
  <2>4. \A u \in Task : status'[u] = "ABSENT" <=> status[u] = "ABSENT"
      BY <1>0, <2>1, <2>3, SMTT(30)
  <2> QED
      BY <1>0, <2>1, <2>2, <2>4
<1>9. ASSUME NEW t \in Task, HandlerStep(t) PROVE RowsOK'
  <2>1. t \in Exists /\ UNCHANGED <<created, root, parent>>
      BY <1>0, <1>9 DEF HandlerStep, ApiStopWrite, DashStopEntry, ApiApproveWrite
  <2>2. handlers' \subseteq handlers
      BY <1>9 DEF HandlerStep, ApiStopWrite, DashStopEntry, ApiApproveWrite
  <2>3. status' = status \/ \E s \in {"CANCELLED", "APPROVED"} :
                              status' = [status EXCEPT ![t] = s]
      BY <1>9 DEF HandlerStep, ApiStopWrite, DashStopEntry, ApiApproveWrite, WriteApproval
  <2>4. \A u \in Task : status'[u] = "ABSENT" <=> status[u] = "ABSENT"
      BY <1>0, <2>1, <2>3, SMTT(30)
  <2> QED
      BY <1>0, <2>1, <2>2, <2>4
<1> QED
    BY <1>1, <1>2, <1>3, <1>4, <1>5, <1>6, <1>7, <1>8, <1>9 DEF Next, WorkerStep, Quiet

\* The three parts of the inductive invariant hold for ever.
THEOREM Inductive == Spec => []IInv
<1>1. IInv /\ [Next]_vars => IInv'
  <2> SUFFICES ASSUME IInv, [Next]_vars PROVE IInv'
      OBVIOUS
  <2>1. CASE UNCHANGED vars
    <3>1. TypeOK'
        BY <2>1 DEF IInv, TypeOK, vars, dbVars, runVars, countVars
    <3>2. TurnOK' /\ RowsOK'
        BY <2>1 DEF IInv, TurnOK, RowsOK, Exists, vars, dbVars, runVars, countVars
    <3> QED
        BY <3>1, <3>2 DEF IInv
  <2>2. CASE Next
    <3>1. TypeOK' /\ TurnOK'
        BY <2>2, WorkerTypeOK, OtherTypeOK, WorkerTurnOK, OtherTurnOK DEF Next
    <3>2. RowsOK'
        BY <2>2, NextRowsOK
    <3> QED
        BY <3>1, <3>2 DEF IInv
  <2> QED
      BY <2>1, <2>2
<1> QED
    BY InitIInv, <1>1, PTL DEF Spec

\* Every state of every instance is typed: the statuses, locks, entries of the
\* manager and locals of the workers are what the code declares them to be.
THEOREM TypeCorrect == Spec => []TypeOK
<1>1. IInv => TypeOK
    BY DEF IInv
<1> QED
    BY Inductive, <1>1, PTL

-----------------------------------------------------------------------------
(* A status of RUNNING has a worker behind it.                              *)

\* No step leaves a RUNNING task without the worker that executes it.
LEMMA RunningIsHeldStep ==
    ASSUME IInv, RunningIsHeld, Next
    PROVE  RunningIsHeld'
<1> USE DEF RunningIsHeld, SetStatus, Goto
<1>i. IInv /\ RunningIsHeld
    OBVIOUS
<1>0. /\ wpc \in [Worker -> Executing \cup Between]
      /\ wtask \in [Worker -> Task \cup {NoTask}]
      /\ status \in [Task -> Status]
    BY DEF IInv, TypeOK
<1>1. ASSUME NEW w \in Worker, Quiet(w) PROVE RunningIsHeld'
  <2>1. /\ status' = status
        /\ \A v \in Worker : wpc[v] \in Executing =>
               wpc'[v] \in Executing /\ wtask'[v] = wtask[v]
    <3> USE <1>0, <1>1 DEF Executing, dbVars
    <3>1. CASE PassGate(w) \/ NothingToClaim(w) \/ RegisterCancel(w)
        BY <3>1 DEF PassGate, NothingToClaim, RegisterCancel
    <3>2. CASE RecordRepo(w) \/ Unregister(w) \/ Unlock(w)
        BY <3>2 DEF RecordRepo, Unregister, Unlock
    <3>3. CASE \E r \in Repo : TryLock(w, r)
        BY <3>3 DEF TryLock
    <3>4. CASE ReturnShipped(w) \/ ReturnVariant(w) \/ ReturnEarly(w)
                 \/ ReturnFromRepo(w) \/ ReturnNameless(w)
      <4>1. PICK r \in Repo \cup {NoRepo}, s \in Settled, n \in 0..MaxChain : Return(w, r, s, n)
          BY <1>i, <3>4, ReturnShape DEF IInv
      <4> QED
          BY <4>1 DEF Return
    <3>5. CASE ChainNoRoom(w)
        BY <3>5 DEF ChainNoRoom, EndOfTurn
    <3> QED
        BY <3>1, <3>2, <3>3, <3>4, <3>5 DEF Quiet
  <2> QED
      BY <1>i, <2>1
<1>2. ASSUME NEW w \in Worker, Claim(w) PROVE RunningIsHeld'
  <2>1. PICK t \in Claimable : ClaimTask(w, t, "RUNNING")
      BY <1>2 DEF Claim
  <2>2. wpc'[w] \in Executing /\ wtask'[w] = t
      BY <1>0, <2>1 DEF ClaimTask, Executing
  <2>3. \A v \in Worker \ {w} : wpc'[v] = wpc[v] /\ wtask'[v] = wtask[v]
      BY <1>0, <2>1 DEF ClaimTask
  <2>4. wpc[w] \notin Executing
      BY <1>2 DEF Claim, Executing
  <2>5. \A u \in Task : u # t => status'[u] = status[u]
      BY <1>0, <2>1 DEF ClaimTask
  <2> QED
      BY <1>i, <2>2, <2>3, <2>4, <2>5
<1>3. ASSUME NEW w \in Worker, Report(w) PROVE RunningIsHeld'
  <2>1. wresult[w].status # "RUNNING"
      BY <1>i DEF IInv, TypeOK, Result, Settled
  <2>2. \A v \in Worker \ {w} : wpc'[v] = wpc[v] /\ wtask'[v] = wtask[v]
      BY <1>0, <1>3 DEF Report, AfterReport, EndOfTurn
  <2>3. \A t \in Task : IF t = wtask[w] THEN status'[t] # "RUNNING" ELSE status'[t] = status[t]
      BY <1>0, <1>3, <2>1 DEF Report
  <2> QED
      BY <1>i, <2>2, <2>3
<1>4. ASSUME NEW w \in Worker, Chain(w) \/ Link(w) PROVE RunningIsHeld'
  <2>1. \A v \in Worker : wpc[v] \in Executing => wpc'[v] = wpc[v] /\ wtask'[v] = wtask[v]
      BY <1>0, <1>4 DEF Chain, Link, LinkChild, EndOfTurn, Executing
  <2>2. \A t \in Task : status'[t] = "RUNNING" => status[t] = "RUNNING"
      BY <1>0, <1>4 DEF Chain, Link, LinkChild, Insert
  <2> QED
      BY <1>i, <2>1, <2>2
<1>5. CASE Submit
    BY <1>i, <1>0, <1>5 DEF Submit, Insert, runVars
<1>6. CASE Restart
    BY <1>0, <1>6 DEF Restart, Reborn
<1>7. ASSUME NEW t \in Task, HumanStep(t) \/ HandlerStep(t) PROVE RunningIsHeld'
  <2>1. wpc' = wpc /\ wtask' = wtask
      BY <1>7 DEF HumanStep, ApiStop, DashStop, ApiApprove, DashApprove, DashReject, HandlerStep,
                  ApiStopWrite, DashStopEntry, ApiApproveWrite, StopEntry, runVars
  <2>2. status' = status \/ \E s \in {"CANCELLED", "APPROVED", "PENDING"} :
                              status' = [status EXCEPT ![t] = s]
      BY <1>7 DEF HumanStep, ApiStop, DashStop, ApiApprove, DashApprove, DashReject, HandlerStep,
                  ApiStopWrite, DashStopEntry, ApiApproveWrite, WriteApproval, dbVars
  <2>3. \A u \in Task : status'[u] = "RUNNING" => status[u] = "RUNNING"
      BY <1>0, <2>2
  <2> QED
      BY <1>i, <2>1, <2>3
<1> QED
    BY <1>1, <1>2, <1>3, <1>4, <1>5, <1>6, <1>7 DEF Next, WorkerStep, Quiet

\* Nothing is RUNNING without a worker that executes it, whatever humans do at the
\* doors and whenever the process dies.
THEOREM RunningHeld == Spec => []RunningIsHeld
<1>1. Init => RunningIsHeld
    BY DEF Init, RunningIsHeld
<1>2. IInv /\ RunningIsHeld /\ [Next]_vars => RunningIsHeld'
  <2>1. ASSUME RunningIsHeld, UNCHANGED vars PROVE RunningIsHeld'
      BY <2>1 DEF RunningIsHeld, vars, dbVars, runVars
  <2> QED
      BY <2>1, RunningIsHeldStep
<1> QED
    BY Inductive, <1>1, <1>2, PTL DEF Spec

-----------------------------------------------------------------------------
(* The manager's entries.                                                   *)

\* No step leaves an entry of the manager behind the execution it belongs to.
LEMMA CancelStep ==
    ASSUME IInv, CancelReachesItsRun, Next
    PROVE  CancelReachesItsRun'
<1> USE NamesAssumption
<1> USE DEF CancelReachesItsRun, Goto
<1>i. IInv /\ CancelReachesItsRun
    OBVIOUS
<1>0. /\ wpc \in [Worker -> Executing \cup Between]
      /\ wtask \in [Worker -> Task \cup {NoTask}]
      /\ cancels \in [Task -> Worker \cup {NoWorker}]
    BY DEF IInv, TypeOK
\* A worker whose turn is over, or not yet registered, has no entry.
<1>1. ASSUME NEW w \in Worker, wpc[w] \notin Stoppable, cancels' = cancels,
             \A v \in Worker \ {w} : wpc'[v] = wpc[v] /\ wtask'[v] = wtask[v]
      PROVE  CancelReachesItsRun'
    BY <1>i, <1>1
\* A worker that stays where it can be stopped keeps its task.
<1>2. ASSUME NEW w \in Worker, wpc'[w] \in Stoppable, cancels' = cancels, wtask' = wtask,
             \A v \in Worker \ {w} : wpc'[v] = wpc[v]
      PROVE  CancelReachesItsRun'
    BY <1>i, <1>2
<1>3. ASSUME NEW w \in Worker,
             PassGate(w) \/ NothingToClaim(w) \/ Claim(w) \/ Unlock(w) \/ Report(w)
               \/ Chain(w) \/ ChainNoRoom(w) \/ Link(w)
      PROVE  CancelReachesItsRun'
  <2>1. wpc[w] \notin Stoppable /\ cancels' = cancels
      BY <1>3 DEF PassGate, NothingToClaim, Claim, ClaimTask, Unlock, Report, Chain,
                  ChainNoRoom, Link, LinkChild, Stoppable
  <2>2. \A v \in Worker \ {w} : wpc'[v] = wpc[v] /\ wtask'[v] = wtask[v]
      BY <1>0, <1>3 DEF PassGate, NothingToClaim, Claim, ClaimTask, Unlock, Report, AfterReport,
                  EndOfTurn, Chain, ChainNoRoom, Link, LinkChild
  <2> QED
      BY <1>1, <2>1, <2>2
<1>4. ASSUME NEW w \in Worker, RecordRepo(w) \/ \E r \in Repo : TryLock(w, r)
      PROVE  CancelReachesItsRun'
  <2>1. wpc'[w] \in Stoppable /\ cancels' = cancels /\ wtask' = wtask
      BY <1>0, <1>4 DEF RecordRepo, TryLock, Stoppable
  <2>2. \A v \in Worker \ {w} : wpc'[v] = wpc[v]
      BY <1>0, <1>4 DEF RecordRepo, TryLock
  <2> QED
      BY <1>2, <2>1, <2>2
<1>5. ASSUME NEW w \in Worker,
             ReturnShipped(w) \/ ReturnVariant(w) \/ ReturnEarly(w)
               \/ ReturnFromRepo(w) \/ ReturnNameless(w)
      PROVE  CancelReachesItsRun'
  <2>1. PICK r \in Repo \cup {NoRepo}, s \in Settled, n \in 0..MaxChain : Return(w, r, s, n)
      BY <1>i, <1>5, ReturnShape DEF IInv
  <2> QED
      BY <1>0, <1>2, <2>1 DEF Return, Stoppable
<1>6. ASSUME NEW w \in Worker, RegisterCancel(w) PROVE CancelReachesItsRun'
  <2>1. wpc[w] = "claimed" /\ wpc' = [wpc EXCEPT ![w] = "running"] /\ wtask' = wtask
      BY <1>6 DEF RegisterCancel
  <2>2. cancels' = [cancels EXCEPT ![wtask[w]] = w]
      BY <1>6 DEF RegisterCancel
  <2> QED
      BY <1>i, <1>0, <2>1, <2>2 DEF Stoppable
<1>7. ASSUME NEW w \in Worker, Unregister(w) PROVE CancelReachesItsRun'
  <2>1. wpc[w] = "returned" /\ wpc' = [wpc EXCEPT ![w] = "unlocking"] /\ wtask' = wtask
      BY <1>7 DEF Unregister
  <2>2. cancels' = [cancels EXCEPT ![wtask[w]] = NoWorker]
      BY <1>7 DEF Unregister
  <2> QED
      BY <1>i, <1>0, <2>1, <2>2 DEF Stoppable
<1>8. CASE Submit
    BY <1>i, <1>8 DEF Submit, runVars
<1>9. CASE Restart
    BY <1>9 DEF Restart, Reborn
<1>10. ASSUME NEW t \in Task, HumanStep(t) \/ HandlerStep(t) PROVE CancelReachesItsRun'
  <2>1. wpc' = wpc /\ wtask' = wtask
      BY <1>10 DEF HumanStep, ApiStop, DashStop, ApiApprove, DashApprove, DashReject, HandlerStep,
                  ApiStopWrite, DashStopEntry, ApiApproveWrite, StopEntry, runVars
  <2>2. cancels' = cancels \/ cancels' = [cancels EXCEPT ![t] = NoWorker]
      BY <1>10 DEF HumanStep, ApiStop, DashStop, ApiApprove, DashApprove, DashReject, HandlerStep,
                  ApiStopWrite, DashStopEntry, ApiApproveWrite, StopEntry
  <2> QED
      BY <1>i, <1>0, <2>1, <2>2
<1> QED
    BY <1>3, <1>4, <1>5, <1>6, <1>7, <1>8, <1>9, <1>10 DEF Next, WorkerStep

\* A stop never reaches another execution than one of the task it names.
THEOREM CancelReaches == Spec => []CancelReachesItsRun
<1>1. Init => CancelReachesItsRun
    BY NamesAssumption DEF Init, CancelReachesItsRun
<1>2. IInv /\ CancelReachesItsRun /\ [Next]_vars => CancelReachesItsRun'
  <2>1. ASSUME CancelReachesItsRun, UNCHANGED vars PROVE CancelReachesItsRun'
      BY <2>1 DEF CancelReachesItsRun, vars, runVars
  <2> QED
      BY <2>1, CancelStep
<1> QED
    BY Inductive, <1>1, <1>2, PTL DEF Spec
-----------------------------------------------------------------------------
(* Approvals.                                                               *)

\* What t has used of its approvals: the approved runs, and one that waits.
Used(t) == approvedRuns[t] + (IF status[t] = "APPROVED" THEN 1 ELSE 0)

\* A claim spends one approval, and nothing else makes a task APPROVED but a human.
LEMMA ApprovalStep ==
    ASSUME IInv, ApprovalBudget, Next
    PROVE  ApprovalBudget'
<1> USE DEF SetStatus
<1>i. IInv /\ \A t \in Task : Used(t) <= approvals[t]
    BY DEF ApprovalBudget, Used
<1>0. /\ status \in [Task -> Status]
      /\ approvals \in [Task -> Nat]
      /\ approvedRuns \in [Task -> Nat]
    BY DEF IInv, TypeOK
<1> SUFFICES ASSUME NEW t \in Task PROVE approvedRuns'[t]
                + (IF status'[t] = "APPROVED" THEN 1 ELSE 0) <= approvals'[t]
    BY DEF ApprovalBudget
<1>a. Used(t) <= approvals[t] /\ approvals[t] \in Nat /\ approvedRuns[t] \in Nat
    BY <1>i, <1>0
\* A step that approves nothing and executes nothing as approved.
<1>1. ASSUME UNCHANGED <<approvals, approvedRuns>>, status'[t] = "APPROVED" => status[t] = "APPROVED"
      PROVE  approvedRuns'[t] + (IF status'[t] = "APPROVED" THEN 1 ELSE 0) <= approvals'[t]
    BY <1>a, <1>1 DEF Used
<1>2. ASSUME NEW w \in Worker, Claim(w)
      PROVE  approvedRuns'[t] + (IF status'[t] = "APPROVED" THEN 1 ELSE 0) <= approvals'[t]
  <2>1. PICK u \in Claimable : ClaimTask(w, u, "RUNNING")
      BY <1>2 DEF Claim
  <2>2. approvals' = approvals
      BY <2>1 DEF ClaimTask
  <2>3. CASE u = t
    <3>1. status'[t] = "RUNNING"
        BY <1>0, <2>1, <2>3 DEF ClaimTask
    <3>2. approvedRuns'[t] = IF status[t] = "APPROVED" THEN approvedRuns[t] + 1 ELSE approvedRuns[t]
        BY <1>0, <2>1, <2>3 DEF ClaimTask
    <3> QED
        BY <1>a, <2>2, <3>1, <3>2 DEF Used
  <2>4. CASE u # t
    <3>1. status'[t] = status[t] /\ approvedRuns'[t] = approvedRuns[t]
        BY <1>0, <2>1, <2>4 DEF ClaimTask
    <3> QED
        BY <1>a, <2>2, <3>1 DEF Used
  <2> QED
      BY <2>3, <2>4
<1>3. ASSUME NEW w \in Worker, Report(w)
      PROVE  approvedRuns'[t] + (IF status'[t] = "APPROVED" THEN 1 ELSE 0) <= approvals'[t]
  <2>1. wresult[w].status # "APPROVED"
      BY <1>i DEF IInv, TypeOK, Result, Settled
  <2> QED
      BY <1>0, <1>1, <1>3, <2>1 DEF Report, countVars
<1>4. ASSUME NEW w \in Worker, WorkerStep(w), ~Claim(w), ~Report(w)
      PROVE  approvedRuns'[t] + (IF status'[t] = "APPROVED" THEN 1 ELSE 0) <= approvals'[t]
  <2>1. UNCHANGED <<approvals, approvedRuns>>
      BY <1>4 DEF WorkerStep, PassGate, NothingToClaim, RegisterCancel, TryLock, RecordRepo,
         ReturnShipped, ReturnVariant, ReturnEarly, ReturnFromRepo, ReturnNameless, Return,
         Unregister, Unlock, Chain, ChainNoRoom, Link, LinkChild, countVars
  <2>2. status' = status \/ status' = [status EXCEPT ![created + 1] = "PENDING"]
      BY <1>4 DEF WorkerStep, PassGate, NothingToClaim, RegisterCancel, TryLock, RecordRepo,
         ReturnShipped, ReturnVariant, ReturnEarly, ReturnFromRepo, ReturnNameless, Return,
         Unregister, Unlock, Chain, ChainNoRoom, Link, LinkChild, Insert, dbVars
  <2> QED
      BY <1>0, <1>1, <2>1, <2>2
<1>5. CASE Submit \/ Restart
    BY <1>0, <1>1, <1>5 DEF Submit, Insert, Restart, Reborn, countVars
<1>6. ASSUME NEW u \in Task, HumanStep(u) \/ HandlerStep(u)
      PROVE  approvedRuns'[t] + (IF status'[t] = "APPROVED" THEN 1 ELSE 0) <= approvals'[t]
  <2>1. CASE DashApprove(u) \/ ApiApproveWrite(u)
    <3>1. approvedRuns' = approvedRuns /\ approvals' = [approvals EXCEPT ![u] = @ + 1]
        BY <2>1 DEF DashApprove, ApiApproveWrite, WriteApproval, countVars
    <3>2. status' = [status EXCEPT ![u] = "APPROVED"]
        BY <2>1 DEF DashApprove, ApiApproveWrite, WriteApproval
    <3>3. CASE u = t
        BY <1>0, <1>a, <3>1, <3>3 DEF Used
    <3>4. CASE u # t
        BY <1>0, <1>a, <3>1, <3>2, <3>4 DEF Used
    <3> QED
        BY <3>3, <3>4
  <2>2. CASE ~(DashApprove(u) \/ ApiApproveWrite(u))
    <3>1. UNCHANGED <<approvals, approvedRuns>>
        BY <1>6, <2>2 DEF HumanStep, ApiStop, DashStop, ApiApprove, DashReject, HandlerStep,
                          ApiStopWrite, DashStopEntry, countVars
    <3>2. status' = status \/ \E s \in {"CANCELLED", "PENDING"} : status' = [status EXCEPT ![u] = s]
        BY <1>6, <2>2 DEF HumanStep, ApiStop, DashStop, ApiApprove, DashReject, HandlerStep,
                          ApiStopWrite, DashStopEntry, dbVars
    <3> QED
        BY <1>0, <1>1, <3>1, <3>2
  <2> QED
      BY <2>1, <2>2
<1> QED
    BY <1>2, <1>3, <1>4, <1>5, <1>6 DEF Next

\* An approval pays for one execution, for any number of workers and any pattern of
\* crashes: ResetRunningToPending never brings an approval back.
THEOREM ApprovalSpentOnce == Spec => []ApprovalBudget
<1>1. Init => ApprovalBudget
    BY DEF Init, ApprovalBudget
<1>2. IInv /\ ApprovalBudget /\ [Next]_vars => ApprovalBudget'
  <2>1. ASSUME ApprovalBudget, UNCHANGED vars PROVE ApprovalBudget'
      BY <2>1 DEF ApprovalBudget, vars, dbVars, countVars
  <2> QED
      BY <2>1, ApprovalStep
<1> QED
    BY Inductive, <1>1, <1>2, PTL DEF Spec


-----------------------------------------------------------------------------
(* Executions, where only stops are at the doors.                           *)

StopDoors == {"api_stop", "dash_stop"}

\* What is executed is in no queue: only a rejection or an approval would put it there.
ExecutedLeftQueue == \A w \in Worker : wpc[w] \in Executing => status[wtask[w]] \notin Ready

\* OneRunPerTask and StopReachesEveryRun, strengthened: no other handler is under way.
StopsOnly ==
    /\ \A h \in handlers : h[1] \in StopDoors
    /\ ExecutedLeftQueue /\ OneRunPerTask /\ StopReachesEveryRun

\* A worker that enters no execution and leaves alone what it could be stopped by.
LEMMA StopsKept ==
    ASSUME IInv, StopsOnly, NEW w \in Worker, handlers' \subseteq handlers,
           \A t \in Task : status'[t] \in Ready => status[t] \in Ready \/ t \notin Exists,
           \A v \in Worker \ {w} : wpc'[v] = wpc[v] /\ wtask'[v] = wtask[v] /\ wstopped'[v] = wstopped[v],
           wpc'[w] \in Executing => wpc[w] \in Executing /\ wtask'[w] = wtask[w],
           wpc'[w] \in Stoppable => wpc[w] \in Stoppable /\ wstopped'[w] = wstopped[w],
           cancels' = cancels
    PROVE  StopsOnly'
<1>1. \A v \in Worker : wpc[v] \in Executing => wtask[v] \in Task /\ wtask[v] \in Exists
    BY DEF IInv, TypeOK, TurnOK, Exists, Task, NoTask
<1>2. \A v \in Worker : wpc'[v] \in Executing => wpc[v] \in Executing /\ wtask'[v] = wtask[v]
    OBVIOUS
<1>3. ExecutedLeftQueue'
    BY <1>1, <1>2 DEF StopsOnly, ExecutedLeftQueue
<1>4. OneRunPerTask'
    BY <1>2 DEF StopsOnly, OneRunPerTask
<1>5. StopReachesEveryRun'
    BY <1>2 DEF StopsOnly, StopReachesEveryRun, Stoppable, Executing
<1> QED
    BY <1>3, <1>4, <1>5 DEF StopsOnly

\* The steps of a worker.
LEMMA WorkerStopsOnly ==
    ASSUME IInv, StopsOnly, NEW w \in Worker, WorkerStep(w)
    PROVE  StopsOnly'
<1> USE DEF Goto, SetStatus
<1>0. /\ wpc \in [Worker -> Executing \cup Between]
      /\ wtask \in [Worker -> Task \cup {NoTask}]
      /\ wstopped \in [Worker -> BOOLEAN]
      /\ status \in [Task -> Status]
      /\ cancels \in [Task -> Worker \cup {NoWorker}]
      /\ created \in Nat
      /\ TurnOK
    BY DEF IInv, TypeOK
<1>i. StopsOnly /\ IInv
    OBVIOUS
<1>e. \A v \in Worker : wpc[v] \in Executing => wtask[v] \in Task
    BY DEF IInv, TypeOK, TurnOK, Exists, Task, NoTask
\* The steps of Quiet but two keep the entries.
<1>1. ASSUME PassGate(w) \/ NothingToClaim(w) \/ RecordRepo(w) \/ Unlock(w) \/ ChainNoRoom(w)
               \/ \E r \in Repo : TryLock(w, r)
      PROVE  StopsOnly'
  <2> USE <1>0, <1>1 DEF PassGate, NothingToClaim, RecordRepo, Unlock, ChainNoRoom, TryLock, EndOfTurn
  <2>1. UNCHANGED <<status, handlers, cancels>>
      BY DEF dbVars
  <2>2. \A v \in Worker \ {w} : wpc'[v] = wpc[v] /\ wtask'[v] = wtask[v] /\ wstopped'[v] = wstopped[v]
      OBVIOUS
  <2>3. /\ wpc'[w] \in Executing => wpc[w] \in Executing /\ wtask'[w] = wtask[w]
        /\ wpc'[w] \in Stoppable => wpc[w] \in Stoppable /\ wstopped'[w] = wstopped[w]
      BY DEF Executing, Stoppable
  <2> QED
      BY <1>i, <2>1, <2>2, <2>3, StopsKept
<1>2. ASSUME ReturnShipped(w) \/ ReturnVariant(w) \/ ReturnEarly(w)
               \/ ReturnFromRepo(w) \/ ReturnNameless(w)
      PROVE  StopsOnly'
  <2>1. /\ wpc[w] \in {"running", "working"}
        /\ \E r \in Repo \cup {NoRepo}, s \in Settled, n \in 0..MaxChain : Return(w, r, s, n)
      BY <1>2, ReturnShape DEF IInv
  <2>2. wpc' = [wpc EXCEPT ![w] = "returned"] /\ UNCHANGED <<status, handlers, cancels, wtask, wstopped>>
      BY <2>1 DEF Return, dbVars
  <2>3. wpc[w] \in Executing /\ wpc[w] \in Stoppable
      BY <2>1 DEF Executing, Stoppable
  <2> QED
      BY <1>0, <1>i, <2>2, <2>3, StopsKept
<1>3. ASSUME Report(w) \/ Chain(w) \/ Link(w) PROVE StopsOnly'
  <2> USE <1>0, <1>3 DEF Report, AfterReport, Chain, Link, LinkChild, EndOfTurn
  <2>1. UNCHANGED <<handlers, cancels>>
      OBVIOUS
  <2>2. \A v \in Worker \ {w} : wpc'[v] = wpc[v] /\ wtask'[v] = wtask[v] /\ wstopped'[v] = wstopped[v]
      OBVIOUS
  <2>3. wpc'[w] \notin Executing /\ wpc'[w] \notin Stoppable
      BY DEF Executing, Stoppable
  <2>4. \A t \in Task : status'[t] \in Ready => status[t] \in Ready \/ t \notin Exists
    <3>1. CASE Report(w)
      <4>1. wresult[w].status \notin Ready
          BY <1>i DEF IInv, TypeOK, Result, Settled, Ready
      <4> QED
          BY <3>1, <4>1
    <3>2. CASE Chain(w)
        BY <3>2 DEF Insert, Exists
    <3>3. CASE Link(w)
        BY <3>3
    <3> QED
        BY <3>1, <3>2, <3>3
  <2> QED
      BY <1>i, <2>1, <2>2, <2>3, <2>4, StopsKept
<1>4. ASSUME Claim(w) PROVE StopsOnly'
  <2>1. PICK t \in Claimable : ClaimTask(w, t, "RUNNING")
      BY <1>4 DEF Claim
  <2>2. wpc[w] \notin Executing /\ t \in Task /\ status[t] \in Ready
      BY <1>i, <1>4, <2>1, BoundsAssumption DEF Claim, Executing, Claimable, Exists, IInv, TypeOK, Task
  <2>3. /\ wpc' = [wpc EXCEPT ![w] = "claimed"] /\ wtask' = [wtask EXCEPT ![w] = t]
        /\ status' = [status EXCEPT ![t] = "RUNNING"]
        /\ UNCHANGED <<handlers, cancels, wstopped>>
      BY <2>1 DEF ClaimTask
  <2>4. \A v \in Worker : wpc[v] \in Executing => wtask[v] # t
      BY <1>i, <2>2 DEF StopsOnly, ExecutedLeftQueue
  <2>5. \A v \in Worker \ {w} : wpc'[v] = wpc[v] /\ wtask'[v] = wtask[v]
      BY <1>0, <2>3
  <2>6. wpc'[w] = "claimed" /\ wtask'[w] = t
      BY <1>0, <2>3
  <2>7. \A u \in Task : status'[u] \in Ready => status[u] \in Ready /\ u # t
      BY <1>0, <2>2, <2>3 DEF Ready
  <2>8. ExecutedLeftQueue'
    <3> SUFFICES ASSUME NEW v \in Worker, wpc'[v] \in Executing
                 PROVE  status'[wtask'[v]] \notin Ready
        BY DEF ExecutedLeftQueue
    <3>1. CASE v = w
        BY <1>0, <2>2, <2>3, <2>6, <2>7, <3>1
    <3>2. CASE v # w
        BY <1>i, <1>e, <2>5, <2>7, <3>2 DEF StopsOnly, ExecutedLeftQueue
    <3> QED
        BY <3>1, <3>2
  <2>9. OneRunPerTask'
      BY <1>i, <2>4, <2>5, <2>6 DEF StopsOnly, OneRunPerTask
  <2>10. StopReachesEveryRun'
      BY <1>i, <2>3, <2>5, <2>6 DEF StopsOnly, StopReachesEveryRun, Stoppable
  <2> QED
      BY <1>i, <2>3, <2>8, <2>9, <2>10 DEF StopsOnly
<1>5. ASSUME RegisterCancel(w) \/ Unregister(w) PROVE StopsOnly'
  <2>1. /\ wpc[w] \in Executing /\ wtask[w] \in Task
        /\ UNCHANGED <<status, handlers, wtask>>
        /\ \A v \in Worker \ {w} : wpc'[v] = wpc[v] /\ wstopped'[v] = wstopped[v]
        /\ wpc'[w] \in Executing
      BY <1>0, <1>e, <1>5 DEF RegisterCancel, Unregister, Executing, dbVars
  <2>2. \A t \in Task \ {wtask[w]} : cancels'[t] = cancels[t]
      BY <1>0, <1>5, <2>1 DEF RegisterCancel, Unregister
  <2>3. \A v \in Worker \ {w} : wpc[v] \in Stoppable => wtask[v] \in Task \ {wtask[w]}
      BY <1>i, <1>e, <2>1 DEF StopsOnly, OneRunPerTask, Stoppable, Executing
  <2>4. wpc'[w] \in Stoppable => cancels'[wtask[w]] = w
      BY <1>0, <1>5, <2>1 DEF RegisterCancel, Unregister, Stoppable
  <2>5. StopReachesEveryRun'
    <3> SUFFICES ASSUME NEW v \in Worker, wpc'[v] \in Stoppable
                 PROVE  wstopped'[v] \/ cancels'[wtask'[v]] = v
        BY DEF StopReachesEveryRun
    <3>1. CASE v = w
        BY <2>1, <2>4, <3>1
    <3>2. CASE v # w
        BY <1>i, <2>1, <2>2, <2>3, <3>2 DEF StopsOnly, StopReachesEveryRun
    <3> QED
        BY <3>1, <3>2
  <2>6. ExecutedLeftQueue' /\ OneRunPerTask'
      BY <1>i, <2>1 DEF StopsOnly, ExecutedLeftQueue, OneRunPerTask
  <2> QED
      BY <1>i, <2>1, <2>5, <2>6 DEF StopsOnly
<1> QED
    BY <1>1, <1>2, <1>3, <1>4, <1>5 DEF WorkerStep

\* A stop, its second half, a submission and a restart.
LEMMA OtherStopsOnly ==
    ASSUME IInv, StopsOnly, Door \subseteq StopDoors,
           Submit \/ Restart \/ \E t \in Task : HumanStep(t) \/ HandlerStep(t)
    PROVE  StopsOnly'
<1> USE DEF SetStatus
<1>0. /\ wpc \in [Worker -> Executing \cup Between]
      /\ wtask \in [Worker -> Task \cup {NoTask}]
      /\ status \in [Task -> Status]
      /\ cancels \in [Task -> Worker \cup {NoWorker}]
      /\ created \in Nat
    BY DEF IInv, TypeOK
<1>i. StopsOnly /\ IInv
    OBVIOUS
<1>e. \A v \in Worker : wpc[v] \in Executing => wtask[v] \in Task /\ wtask[v] \in Exists
    BY DEF IInv, TypeOK, TurnOK, Exists, Task, NoTask
<1>1. CASE Restart
  <2>1. handlers' = {} /\ \A w \in Worker : wpc'[w] = "idle"
      BY <1>1 DEF Restart, Reborn
  <2> QED
      BY <2>1 DEF StopsOnly, ExecutedLeftQueue, OneRunPerTask, StopReachesEveryRun, Executing, Stoppable
<1>2. CASE Submit
  <2>1. UNCHANGED <<wpc, wtask, wstopped, cancels, handlers>>
      BY <1>2 DEF Submit, runVars
  <2>2. \A t \in Task : t \in Exists => status'[t] = status[t]
      BY <1>0, <1>2 DEF Submit, Insert, Exists
  <2>3. ExecutedLeftQueue'
      BY <1>i, <1>e, <2>1, <2>2 DEF StopsOnly, ExecutedLeftQueue
  <2>4. OneRunPerTask' /\ StopReachesEveryRun'
      BY <1>i, <2>1 DEF StopsOnly, OneRunPerTask, StopReachesEveryRun
  <2> QED
      BY <1>i, <2>1, <2>3, <2>4 DEF StopsOnly
<1>3. ASSUME NEW t \in Task, HumanStep(t) \/ HandlerStep(t) PROVE StopsOnly'
  <2>1. ApiStop(t) \/ DashStop(t) \/ ApiStopWrite(t) \/ DashStopEntry(t)
    <3>1. ~ApiApprove(t) /\ ~DashApprove(t) /\ ~DashReject(t)
        BY DEF ApiApprove, DashApprove, DashReject, Opens, StopDoors
    <3>2. ~ApiApproveWrite(t)
      <4>1. <<"api_approve", t>>[1] \notin StopDoors
          BY DEF StopDoors
      <4> QED
          BY <1>i, <4>1 DEF StopsOnly, ApiApproveWrite
    <3> QED
        BY <1>3, <3>1, <3>2 DEF HumanStep, HandlerStep
  <2>2. \A h \in handlers' : h[1] \in StopDoors
    <3>1. handlers' \subseteq handlers \cup {<<"api_stop", t>>, <<"dash_stop", t>>}
        BY <2>1 DEF ApiStop, DashStop, ApiStopWrite, DashStopEntry
    <3> QED
        BY <1>i, <3>1 DEF StopsOnly, StopDoors
  <2>3. wpc' = wpc /\ wtask' = wtask
      BY <2>1 DEF ApiStop, DashStop, ApiStopWrite, DashStopEntry, StopEntry, runVars
  <2>4. status' = status \/ status' = [status EXCEPT ![t] = "CANCELLED"]
      BY <2>1 DEF ApiStop, DashStop, ApiStopWrite, DashStopEntry, dbVars
  <2>5. \A u \in Task : status'[u] \in Ready => status[u] \in Ready
      BY <1>0, <2>4 DEF Ready
  <2>6. ExecutedLeftQueue'
      BY <1>i, <1>e, <2>3, <2>5 DEF StopsOnly, ExecutedLeftQueue
  <2>7. OneRunPerTask'
      BY <1>i, <2>3 DEF StopsOnly, OneRunPerTask
  <2>8. StopReachesEveryRun'
    <3> SUFFICES ASSUME NEW w \in Worker, wpc[w] \in Stoppable
                 PROVE  wstopped'[w] \/ cancels'[wtask[w]] = w
        BY <2>3 DEF StopReachesEveryRun
    <3>1. wtask[w] \in Task /\ (wstopped[w] \/ cancels[wtask[w]] = w)
        BY <1>i, <1>e DEF StopsOnly, StopReachesEveryRun, Stoppable, Executing
    <3>2. CASE UNCHANGED <<wstopped, cancels>>
        BY <3>1, <3>2
    <3>3. CASE StopEntry(t)
        BY <1>0, <3>1, <3>3 DEF StopEntry
    <3> QED
        BY <2>1, <3>2, <3>3 DEF ApiStop, DashStop, ApiStopWrite, DashStopEntry, runVars
  <2> QED
      BY <2>2, <2>6, <2>7, <2>8 DEF StopsOnly
<1> QED
    BY <1>1, <1>2, <1>3

\* As long as humans only stop tasks, that stays so.
LEMMA StopsOnlyHolds ==
    ASSUME Door \subseteq StopDoors
    PROVE  Spec => []StopsOnly
<1>1. Init => StopsOnly
    BY DEF Init, StopsOnly, ExecutedLeftQueue, OneRunPerTask, StopReachesEveryRun, Executing, Stoppable
<1>2. IInv /\ StopsOnly /\ [Next]_vars => StopsOnly'
  <2>1. ASSUME StopsOnly, UNCHANGED vars PROVE StopsOnly'
      BY <2>1 DEF StopsOnly, ExecutedLeftQueue, OneRunPerTask, StopReachesEveryRun, vars, dbVars, runVars
  <2> QED
      BY <2>1, WorkerStopsOnly, OtherStopsOnly DEF Next
<1> QED
    BY Inductive, <1>1, <1>2, PTL DEF Spec

\* Where humans can only stop, no task is executed by two workers, however claims, stops
\* and restarts interleave: it takes a rejection or an approval of a running task.
THEOREM OneRun ==
    ASSUME Door \subseteq StopDoors
    PROVE  Spec => []OneRunPerTask
<1>1. StopsOnly => OneRunPerTask
    BY DEF StopsOnly
<1> QED
    BY StopsOnlyHolds, <1>1, PTL

\* There, a stop finds every execution: what the manager cannot cancel any more is
\* cancelled already.
THEOREM StopReaches ==
    ASSUME Door \subseteq StopDoors
    PROVE  Spec => []StopReachesEveryRun
<1>1. StopsOnly => StopReachesEveryRun
    BY DEF StopsOnly
<1> QED
    BY StopsOnlyHolds, <1>1, PTL

-----------------------------------------------------------------------------
(* Families.                                                                *)

\* FamilyIsFlat, strengthened: a link, once it is written, names the stored root.
Flat ==
    /\ \A c \in Task : root[c] # NoTask => root[c] < c /\ root[root[c]] = NoTask
    /\ \A c \in Task : parent[c] \in {NoTask, root[c]}

\* A new row is linked to a root, and roots are never linked themselves.
LEMMA FlatStep ==
    ASSUME IInv, Flat, Next
    PROVE  Flat'
<1> USE BoundsAssumption DEF Task, NoTask
<1>i. IInv /\ Flat
    OBVIOUS
<1>0. /\ root \in [Task -> Task \cup {NoTask}]
      /\ parent \in [Task -> Task \cup {NoTask}]
      /\ created \in Nat
      /\ RowsOK /\ TurnOK
    BY DEF IInv, TypeOK
\* A new row under nobody or under a root.
<1>1. ASSUME NEW r \in Task \cup {NoTask}, r # NoTask => r \in Exists /\ root[r] = NoTask,
             Insert(r), parent' = parent
      PROVE  Flat'
  <2>1. root' = [root EXCEPT ![created + 1] = r] /\ created + 1 \in Task
      BY <1>0, <1>1 DEF Insert
  <2>2. root[created + 1] = NoTask /\ parent[created + 1] = NoTask
      BY <1>0, <2>1 DEF RowsOK
  <2>3. \A c \in Task : root[c] # created + 1
      BY <1>i, <1>0, <2>2 DEF RowsOK, Flat
  <2>4. \A c \in Task : root'[c] # NoTask => root'[c] < c /\ root'[root'[c]] = NoTask
      BY <1>i, <1>0, <1>1, <2>1, <2>2, <2>3 DEF Flat, Exists
  <2>5. \A c \in Task : parent'[c] \in {NoTask, root'[c]}
      BY <1>i, <1>0, <1>1, <2>1, <2>2 DEF Flat
  <2> QED
      BY <2>4, <2>5 DEF Flat
<1>2. ASSUME NEW w \in Worker, Chain(w) PROVE Flat'
  <2>1. wtask[w] \in Exists /\ wtask[w] \in Task
      BY <1>0, <1>2 DEF TurnOK, Chain, Exists, IInv, TypeOK
  <2>2. RootOf(w) \in Exists /\ root[RootOf(w)] = NoTask /\ RootOf(w) \in Task
      BY <1>i, <1>0, <2>1 DEF RootOf, Flat, Exists
  <2> QED
      BY <1>1, <1>2, <2>2 DEF Chain
<1>3. CASE Submit
    BY <1>1, <1>3 DEF Submit
<1>4. ASSUME NEW w \in Worker, Link(w) PROVE Flat'
  <2>1. root' = root /\ parent' = [parent EXCEPT ![wchild[w]] = root[wchild[w]]]
      BY <1>4 DEF Link, LinkChild
  <2> QED
      BY <1>i, <1>0, <2>1 DEF Flat
<1>5. ASSUME UNCHANGED <<root, parent>> PROVE Flat'
    BY <1>i, <1>5 DEF Flat
<1>6. ASSUME NEW w \in Worker, WorkerStep(w), ~Chain(w), ~Link(w) PROVE UNCHANGED <<root, parent>>
    BY <1>6 DEF WorkerStep, PassGate, NothingToClaim, Claim, ClaimTask, RegisterCancel, TryLock,
       RecordRepo, ReturnShipped, ReturnVariant, ReturnEarly, ReturnFromRepo, ReturnNameless, Return,
       Unregister, Unlock, Report, ChainNoRoom, dbVars
<1>7. ASSUME NEW t \in Task, HumanStep(t) \/ HandlerStep(t) PROVE UNCHANGED <<root, parent>>
    BY <1>7 DEF HumanStep, ApiStop, DashStop, ApiApprove, DashApprove, DashReject, HandlerStep,
                ApiStopWrite, DashStopEntry, ApiApproveWrite, dbVars
<1>8. CASE Restart
    BY <1>5, <1>8 DEF Restart, Reborn
<1> QED
    BY <1>2, <1>3, <1>4, <1>5, <1>6, <1>7, <1>8 DEF Next

\* However long a chain reaction gets, its tasks stay one level under the root that
\* a human submitted.
THEOREM FamilyFlat == Spec => []FamilyIsFlat
<1>1. Init => Flat
    BY DEF Init, Flat, NoTask
<1>2. IInv /\ Flat /\ [Next]_vars => Flat'
  <2>1. ASSUME Flat, UNCHANGED vars PROVE Flat'
      BY <2>1 DEF Flat, vars, dbVars
  <2> QED
      BY <2>1, FlatStep
<1>3. IInv /\ Flat => FamilyIsFlat
    BY BoundsAssumption, ZenonT(40) DEF IInv, TypeOK, Flat, FamilyIsFlat, Task, NoTask
<1> QED
    BY Inductive, <1>1, <1>2, <1>3, PTL DEF Spec
-----------------------------------------------------------------------------
(* TaskQueue implements TaskLifecycle: `live` is read off the places of the *)
(* workers.                                                                 *)

\* The empty queue is the empty life cycle.
LEMMA RefinementInit == Init => Lifecycle!LifecycleInit
    BY DEF Init, live, Executing, Lifecycle!LifecycleInit

\* A step that moves no worker in or out of an execution leaves `live` as it is.
LEMMA SameLive ==
    ASSUME \A v \in Worker : /\ wpc'[v] \in Executing <=> wpc[v] \in Executing
                             /\ wpc[v] \in Executing => wtask'[v] = wtask[v]
    PROVE  live' = live
<1>1. ASSUME NEW t \in Task
      PROVE  {w \in Worker : wpc'[w] \in Executing /\ wtask'[w] = t}
               = {w \in Worker : wpc[w] \in Executing /\ wtask[w] = t}
  <2>1. \A w \in Worker : (wpc'[w] \in Executing /\ wtask'[w] = t)
                              <=> (wpc[w] \in Executing /\ wtask[w] = t)
      OBVIOUS
  <2> QED
      BY <2>1, Zenon
<1> QED
    BY <1>1, Zenon DEF live

\* The quiet steps of a worker stutter.
LEMMA QuietStutters ==
    ASSUME IInv, NEW w \in Worker, Quiet(w)
    PROVE  status' = status /\ live' = live
<1> USE DEF Executing, Goto
<1>0. /\ wpc \in [Worker -> Executing \cup Between]
      /\ wtask \in [Worker -> Task \cup {NoTask}]
    BY DEF IInv, TypeOK
<1> HIDE DEF Executing
<1>a. status' = status
    BY DEF Quiet, PassGate, NothingToClaim, RegisterCancel, TryLock, RecordRepo,
         ReturnShipped, ReturnVariant, ReturnEarly, ReturnFromRepo, ReturnNameless, Return,
         Unregister, Unlock, ChainNoRoom, dbVars
<1>b. \A v \in Worker : /\ wpc'[v] \in Executing <=> wpc[v] \in Executing
                        /\ wpc[v] \in Executing => wtask'[v] = wtask[v]
  <2> USE <1>0
  <2>1. CASE PassGate(w) \/ NothingToClaim(w) \/ RegisterCancel(w)
      BY <2>1 DEF PassGate, NothingToClaim, RegisterCancel, Executing
  <2>2. CASE RecordRepo(w) \/ Unregister(w) \/ Unlock(w)
      BY <2>2 DEF RecordRepo, Unregister, Unlock, Executing
  <2>3. CASE \E r \in Repo : TryLock(w, r)
      BY <2>3 DEF TryLock, Executing
  <2>4. CASE ReturnShipped(w) \/ ReturnVariant(w) \/ ReturnEarly(w)
               \/ ReturnFromRepo(w) \/ ReturnNameless(w)
    <3>1. PICK r \in Repo \cup {NoRepo}, s \in Settled, n \in 0..MaxChain : Return(w, r, s, n)
        BY <2>4, ReturnShape DEF IInv
    <3>2. wpc[w] \in {"running", "working"}
        BY <2>4, ReturnShape DEF IInv
    <3> QED
        BY <3>1, <3>2 DEF Return, Executing
  <2>5. CASE ChainNoRoom(w)
      BY <2>5 DEF ChainNoRoom, EndOfTurn, Executing
  <2> QED
      BY <2>1, <2>2, <2>3, <2>4, <2>5 DEF Quiet
<1> QED
    BY <1>a, <1>b, SameLive

\* Every step of the queue is a step of the life cycle or leaves it unchanged.
LEMMA RefinementStep ==
    ASSUME IInv, [Next]_vars
    PROVE  [Lifecycle!LifecycleNext]_(Lifecycle!lifecycleVars)
<1> USE BoundsAssumption
<1> USE DEF Goto, SetStatus
<1>i. IInv
    OBVIOUS
<1>0. /\ wpc \in [Worker -> Executing \cup Between]
      /\ wtask \in [Worker -> Task \cup {NoTask}]
      /\ status \in [Task -> Status]
      /\ created \in 0..MaxTasks
      /\ RowsOK /\ TurnOK
    BY DEF IInv, TypeOK
<1>1. ASSUME status' = status, live' = live
      PROVE  [Lifecycle!LifecycleNext]_(Lifecycle!lifecycleVars)
    BY <1>1 DEF Lifecycle!lifecycleVars
<1>2. CASE UNCHANGED vars
  <2>1. status' = status /\ wpc' = wpc /\ wtask' = wtask
      BY <1>2 DEF vars, dbVars, runVars
  <2> QED
      BY <1>1, <2>1, SameLive
<1>3. ASSUME NEW w \in Worker, Quiet(w)
      PROVE  [Lifecycle!LifecycleNext]_(Lifecycle!lifecycleVars)
    BY <1>1, <1>3, QuietStutters
<1>4. ASSUME NEW w \in Worker, Claim(w) PROVE Lifecycle!LifecycleNext
  <2>1. PICK t \in Claimable : ClaimTask(w, t, "RUNNING")
      BY <1>4 DEF Claim
  <2>2. t \in Task /\ status[t] \in Lifecycle!Claimable
      BY <1>0, <2>1 DEF Claimable, Exists, Task, Ready, Lifecycle!Claimable
  <2>3. \A u \in Task : w \notin live[u]
      BY <1>4 DEF Claim, live, Executing
  <2>4. live' = [live EXCEPT ![t] = @ \cup {w}]
    <3>1. /\ wpc'[w] \in Executing /\ wtask'[w] = t /\ wpc[w] \notin Executing
          /\ \A v \in Worker \ {w} : wpc'[v] = wpc[v] /\ wtask'[v] = wtask[v]
        BY <1>0, <1>4, <2>1 DEF Claim, ClaimTask, Executing
    <3> QED
        BY <2>2, <3>1, ZenonT(40) DEF live
  <2>5. Lifecycle!Pick(t, w)
      BY <2>1, <2>2, <2>3, <2>4 DEF Lifecycle!Pick, ClaimTask
  <2> QED
      BY <2>2, <2>5 DEF Lifecycle!LifecycleNext
<1>5. ASSUME NEW w \in Worker, Report(w) PROVE Lifecycle!LifecycleNext
  <2>1. wpc[w] \in Executing /\ wtask[w] \in Task
      BY <1>0, <1>5 DEF Report, Executing, TurnOK, Exists, IInv, TypeOK, Task
  <2>2. /\ wpc'[w] \notin Executing
        /\ \A v \in Worker \ {w} : wpc'[v] = wpc[v] /\ wtask'[v] = wtask[v]
      BY <1>0, <1>5 DEF Report, AfterReport, EndOfTurn, Executing
  <2>3. live' = [live EXCEPT ![wtask[w]] = @ \ {w}]
      BY <2>1, <2>2 DEF live
  <2>4. w \in live[wtask[w]]
      BY <2>1 DEF live
  <2>5. wresult[w].status \in Lifecycle!Settled
      BY <1>i DEF IInv, TypeOK, Result, Settled, Lifecycle!Settled
  <2>6. Lifecycle!Settle(wtask[w], w)
      BY <1>5, <2>3, <2>4, <2>5 DEF Lifecycle!Settle, Report
  <2> QED
      BY <2>1, <2>6 DEF Lifecycle!LifecycleNext
\* A new row.
<1>6. ASSUME NEW r, Insert(r), live' = live PROVE Lifecycle!LifecycleNext
  <2>1. created + 1 \in Task /\ status[created + 1] = "ABSENT"
      BY <1>0, <1>6 DEF Insert, RowsOK, Task, IInv, TypeOK
  <2>2. Lifecycle!Enter(created + 1)
      BY <1>6, <2>1 DEF Insert, Lifecycle!Enter
  <2> QED
      BY <2>1, <2>2 DEF Lifecycle!LifecycleNext
<1>7. ASSUME NEW w \in Worker, Chain(w) PROVE Lifecycle!LifecycleNext
  <2>1. live' = live
      BY <1>0, <1>7, SameLive DEF Chain, Executing
  <2> QED
      BY <1>6, <1>7, <2>1 DEF Chain
<1>8. ASSUME NEW w \in Worker, Link(w)
      PROVE  [Lifecycle!LifecycleNext]_(Lifecycle!lifecycleVars)
  <2>1. live' = live
      BY <1>0, <1>8, SameLive DEF Link, LinkChild, EndOfTurn, Executing
  <2> QED
      BY <1>1, <1>8, <2>1 DEF Link, LinkChild
<1>9. CASE Submit
    BY <1>6, <1>9 DEF Submit, live, runVars
<1>10. CASE Restart
  <2>1. live' = [t \in Task |-> {}]
      BY <1>10 DEF Restart, Reborn, live, Executing
  <2>2. Lifecycle!Reboot
      BY <1>10, <2>1 DEF Restart, Reborn, Lifecycle!Reboot
  <2> QED
      BY <2>2 DEF Lifecycle!LifecycleNext
<1>11. ASSUME NEW t \in Task, HumanStep(t) \/ HandlerStep(t)
      PROVE  [Lifecycle!LifecycleNext]_(Lifecycle!lifecycleVars)
  <2>1. live' = live
    <3>1. wpc' = wpc /\ wtask' = wtask
        BY <1>11 DEF HumanStep, ApiStop, DashStop, ApiApprove, DashApprove, DashReject, HandlerStep,
                    ApiStopWrite, DashStopEntry, ApiApproveWrite, StopEntry, runVars
    <3> QED
        BY <3>1, SameLive
  <2>2. t \in Exists
      BY <1>0, <1>11 DEF HumanStep, ApiStop, DashStop, ApiApprove, DashApprove, DashReject, Opens,
                  HandlerStep, ApiStopWrite, DashStopEntry, ApiApproveWrite, RowsOK
  <2>3. status[t] # "ABSENT"
      BY <1>0, <2>2 DEF RowsOK, Exists
  <2>4. status' = status \/ \E s \in Lifecycle!Verdict : status' = [status EXCEPT ![t] = s]
      BY <1>11 DEF HumanStep, ApiStop, DashStop, ApiApprove, DashApprove, DashReject, HandlerStep,
                  ApiStopWrite, DashStopEntry, ApiApproveWrite, WriteApproval, dbVars,
                  Lifecycle!Verdict
  <2>5. CASE status' = status
      BY <1>1, <2>1, <2>5
  <2>6. CASE \E s \in Lifecycle!Verdict : status' = [status EXCEPT ![t] = s]
    <3>1. Lifecycle!Decide(t)
        BY <2>1, <2>3, <2>6 DEF Lifecycle!Decide
    <3> QED
        BY <3>1 DEF Lifecycle!LifecycleNext
  <2> QED
      BY <2>4, <2>5, <2>6
<1> QED
    BY <1>2, <1>3, <1>4, <1>5, <1>7, <1>8, <1>9, <1>10, <1>11 DEF Next, WorkerStep, Quiet

\* The queue, its workers, its doors and its restarts implement the life cycle of a
\* task, for all values of the constants.
THEOREM QueueImplementsLifecycle == Spec => ImplementsLifecycle
<1> QED
    BY Inductive, RefinementInit, RefinementStep, PTL
    DEF Spec, ImplementsLifecycle, Lifecycle!LifecycleSpec
=============================================================================
