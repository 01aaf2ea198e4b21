--------------------------- MODULE TaskLifecycle ---------------------------
(***************************************************************************)
(* What the service promises about one task, seen from outside: a status   *)
(* and the set of workers that are executing the task right now.           *)
(*                                                                         *)
(* The human doors may write a status at any moment, also while the task   *)
(* is being executed (internal/web and internal/api do), so a task may be  *)
(* executed by more than one worker.  What never happens is a task that is *)
(* marked RUNNING although nobody executes it: such a task would be        *)
(* invisible to every worker for ever.                                     *)
(*                                                                         *)
(* TaskQueue implements this module.                                       *)
(***************************************************************************)
EXTENDS Naturals

CONSTANTS
    Task,       \* every task the database can hold
    Worker      \* the worker goroutines

VARIABLES
    status,     \* status[t]: the status column, "ABSENT" before the task is created
    live        \* live[t]: the workers that claimed t and have not settled it

lifecycleVars == <<status, live>>

Status ==
    {"ABSENT", "PENDING", "RUNNING", "WAITING_APPROVAL",
     "APPROVED", "COMPLETED", "FAILED", "CANCELLED"}

Claimable == {"PENDING", "APPROVED"}

\* What a worker writes when an execution ends.
Settled == {"COMPLETED", "FAILED", "WAITING_APPROVAL"}

\* What a human may write into a task through a door.
Verdict == {"APPROVED", "CANCELLED", "PENDING"}

LifecycleTypeOK ==
    /\ status \in [Task -> Status]
    /\ live \in [Task -> SUBSET Worker]

LifecycleInit ==
    /\ status = [t \in Task |-> "ABSENT"]
    /\ live = [t \in Task |-> {}]

Enter(t) ==
    /\ status[t] = "ABSENT"
    /\ status' = [status EXCEPT ![t] = "PENDING"]
    /\ UNCHANGED live

\* A worker executes one task at a time.
Pick(t, w) ==
    /\ status[t] \in Claimable
    /\ \A u \in Task : w \notin live[u]
    /\ status' = [status EXCEPT ![t] = "RUNNING"]
    /\ live' = [live EXCEPT ![t] = @ \cup {w}]

Settle(t, w) ==
    /\ w \in live[t]
    /\ \E s \in Settled : status' = [status EXCEPT ![t] = s]
    /\ live' = [live EXCEPT ![t] = @ \ {w}]

Decide(t) ==
    /\ status[t] # "ABSENT"
    /\ \E v \in Verdict : status' = [status EXCEPT ![t] = v]
    /\ UNCHANGED live

\* The process dies and starts again: what was running goes back to the queue.
Reboot ==
    /\ status' = [t \in Task |->
                    IF status[t] = "RUNNING" THEN "PENDING" ELSE status[t]]
    /\ live' = [t \in Task |-> {}]

LifecycleNext ==
    \/ \E t \in Task : Enter(t) \/ Decide(t)
    \/ \E t \in Task, w \in Worker : Pick(t, w) \/ Settle(t, w)
    \/ Reboot

LifecycleSpec == LifecycleInit /\ [][LifecycleNext]_lifecycleVars
=============================================================================
