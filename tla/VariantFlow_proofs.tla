------------------------- MODULE VariantFlow_proofs -------------------------
(***************************************************************************)
(* Theorems about VariantFlow, for any number of tasks, repositories,      *)
(* plans, messages, executions and restarts.                               *)
(***************************************************************************)
EXTENDS VariantFlow, TLAPS

Result == [repo : Repo, kind : Kind, draft : BOOLEAN]

AtEntry == {"plan", "tree", "edit", "commit", "push", "open"}
Coming == {"commit", "push", "open"}

\* An execution that is at an entry is within its plan.
InPlan(t) == pc[t] \in AtEntry => pos[t] \in DOMAIN plan

\* From the commit on, what an execution is about to do has not been done, in no
\* earlier execution either.
EntryStands(t) ==
    LET r == This(t).repo IN
    /\ pc[t] = "edit" => branch[t][r] # "none"
    /\ pc[t] = "commit" => branch[t][r] = "base"
    /\ pc[t] = "push" => branch[t][r] = "edited" /\ ~pushed[t][r]
    /\ pc[t] = "open" => pushed[t][r] /\ ~\E p \in prs : p.task = t /\ p.repo = r

\* A stop that was heard has broken the walk off.
StopStands(t) == stopped[t] => pc[t] \in {"stop", "over", "waiting"}

\* The edit on its way was built, and is a draft if it must be.
DraftIfMust(e) == e.looked => "wrong" \notin e.errs /\ ("missing" \in e.errs => e.draft)
EditStands(t) ==
    pc[t] \in Coming => DraftIfMust(work[t]) /\ (Blockers(t) # {} => work[t].draft)

\* What the results say is so.
ResultsStand(t) ==
    /\ \A i, j \in DOMAIN out[t] :
        i < j /\ out[t][j].kind = "opened" /\ IsBlocker(out[t][i]) => out[t][j].draft
    /\ \A i \in DOMAIN out[t] :
        /\ out[t][i].kind \in {"known", "opened"} => IsOpen(out[t][i].repo)
        /\ out[t][i].kind = "compare" => pushed[t][out[t][i].repo]
    /\ pc[t] = "over" /\ end[t] = "completed" => HasOutcome(t)

TaskInv(t) ==
    InPlan(t) /\ EntryStands(t) /\ StopStands(t) /\ EditStands(t) /\ ResultsStand(t)

\* What is at the remote has been committed, and what is up for review is at the
\* remote, once, and as a draft if it must be.
GitInv ==
    /\ \A t \in Task, r \in Repo : pushed[t][r] => branch[t][r] = "edited"
    /\ \A p \in prs : pushed[p.task][p.repo]
    /\ \A p \in prs : p.edit.looked =>
        "wrong" \notin p.edit.errs /\ ("missing" \in p.edit.errs => p.asked)
    /\ OnePRPerTask

WalkInv == TypeOK /\ GitInv /\ \A t \in Task : TaskInv(t)
-----------------------------------------------------------------------------
(* Lemmas.                                                                 *)

\* The entry an execution is at names a repository.
LEMMA EntryHasRepo ==
    ASSUME WalkInv, NEW t \in Task, pc[t] \in AtEntry
    PROVE  This(t).repo \in Repo /\ pos[t] \in DOMAIN plan /\ pos[t] + 1 \in Nat \ {0}
<1>1. pos[t] \in DOMAIN plan /\ plan \in Seq(Entry)
  BY VariantAssumption DEF WalkInv, TypeOK, TaskInv, InPlan
<1>2. plan[pos[t]] \in Entry
  BY <1>1
<1>3. pos[t] \in Nat \ {0}
  BY DEF WalkInv, TypeOK
<1> QED
  BY <1>1, <1>2, <1>3 DEF This, Entry

\* An index that is not beyond the end.
LEMMA WithinSeq ==
    ASSUME NEW S, NEW s \in Seq(S), NEW i \in Nat \ {0}, i <= Len(s)
    PROVE  i \in DOMAIN s
OBVIOUS

\* A position that starts anew or goes on by one.
LEMMA PosMoves ==
    ASSUME NEW f \in [Task -> Nat \ {0}], NEW t \in Task
    PROVE  /\ f[t] \in Nat \ {0} /\ f[t] + 1 \in Nat \ {0}
           /\ [f EXCEPT ![t] = 1] \in [Task -> Nat \ {0}]
           /\ [f EXCEPT ![t] = f[t] + 1] \in [Task -> Nat \ {0}]
OBVIOUS

\* What happens to one task leaves what is known of the others.
LEMMA OthersKept ==
    ASSUME WalkInv, NEW t \in Task, NEW u \in Task \ {t}, plan' = plan,
           prs \subseteq prs', \A p \in prs' \ prs : p.task = t,
           pc'[u] = pc[u], pos'[u] = pos[u], out'[u] = out[u], work'[u] = work[u],
           stopped'[u] = stopped[u], end'[u] = end[u],
           branch'[u] = branch[u], pushed'[u] = pushed[u]
    PROVE  TaskInv(u)'
<1>1. TaskInv(u)
  BY DEF WalkInv
<1>2. InPlan(u)' /\ StopStands(u)'
  BY <1>1 DEF TaskInv, InPlan, StopStands
<1>3. EntryStands(u)'
  BY <1>1 DEF TaskInv, EntryStands, This
<1>4. \A res : IsBlocker(res)' <=> IsBlocker(res)
  BY DEF IsBlocker
<1>5. EditStands(u)'
  BY <1>1, <1>4 DEF TaskInv, EditStands, DraftIfMust, Blockers
<1>6. \A r : IsOpen(r) => IsOpen(r)'
  BY DEF IsOpen
<1>7. ResultsStand(u)'
  BY <1>1, <1>4, <1>6 DEF TaskInv, ResultsStand, HasOutcome
<1> QED
  BY <1>2, <1>3, <1>5, <1>7 DEF TaskInv

\* A step of one task that touches neither the plan nor git, and appends no result.
LEMMA QuietKept ==
    ASSUME WalkInv, NEW t \in Task, TypeOK',
           UNCHANGED <<plan, branch, pushed, prs>>,
           \A u \in Task \ {t} :
               /\ pc'[u] = pc[u] /\ pos'[u] = pos[u] /\ out'[u] = out[u] /\ work'[u] = work[u]
               /\ stopped'[u] = stopped[u] /\ end'[u] = end[u],
           InPlan(t)', pc'[t] \notin {"edit"} \cup Coming, StopStands(t)',
           out'[t] \in {out[t], <<>>},
           pc'[t] = "over" /\ end'[t] = "completed" => HasOutcome(t)'
    PROVE  WalkInv'
<1>1. GitInv'
  BY DEF WalkInv, GitInv, OnePRPerTask
<1>2. \A u \in Task \ {t} : TaskInv(u)'
  BY OthersKept
<1>3. EntryStands(t)' /\ EditStands(t)'
  BY DEF EntryStands, EditStands, Coming
<1>4. \A r : IsOpen(r) => IsOpen(r)'
  BY DEF IsOpen
<1>5. \A res : IsBlocker(res)' <=> IsBlocker(res)
  BY DEF IsBlocker
<1>6. ResultsStand(t)'
  <2>1. CASE out'[t] = out[t]
    BY <1>4, <1>5, <2>1 DEF WalkInv, TaskInv, ResultsStand
  <2>2. CASE out'[t] = <<>>
    <3>1. DOMAIN out'[t] = {}
      BY <2>2
    <3> QED
      BY <3>1 DEF ResultsStand
  <2> QED
    BY <2>1, <2>2
<1>7. TaskInv(t)'
  BY <1>3, <1>6 DEF TaskInv
<1> QED
  BY <1>1, <1>2, <1>7 DEF WalkInv

\* A result is appended.
LEMMA RecordKept ==
    ASSUME WalkInv, NEW t \in Task, pc[t] \in AtEntry,
           NEW kind \in Kind, NEW draft \in BOOLEAN, Record(t, kind, draft),
           UNCHANGED <<branch, tree, pushed>>, prs \subseteq prs',
           \A p \in prs' \ prs : p.task = t,
           prs' \subseteq [task : Task, repo : Repo, asked : BOOLEAN, draft : BOOLEAN, edit : Edit],
           GitInv', ~stopped[t],
           kind = "opened" /\ Blockers(t) # {} => draft,
           kind \in {"known", "opened"} => \E p \in prs' : p.repo = This(t).repo,
           kind = "compare" => pushed[t][This(t).repo]
    PROVE  WalkInv'
<1> DEFINE res == [repo |-> This(t).repo, kind |-> kind, draft |-> draft]
           n == Len(out[t]) + 1
<1>1. This(t).repo \in Repo /\ pos[t] + 1 \in Nat \ {0}
  BY EntryHasRepo
<1>2. out[t] \in Seq(Result) /\ res \in Result
  BY <1>1 DEF WalkInv, TypeOK, Result
<1>3. /\ out' = [out EXCEPT ![t] = Append(out[t], res)]
      /\ pos' = [pos EXCEPT ![t] = pos[t] + 1]
      /\ pc' = [pc EXCEPT ![t] = "steer"]
      /\ work' = [work EXCEPT ![t] = NoEdit]
      /\ UNCHANGED <<plan, stopped, end, runs, crashes, door>>
  BY DEF Record
<1>4. /\ pc \in [Task -> Place] /\ pos \in [Task -> Nat \ {0}]
      /\ out \in [Task -> Seq(Result)] /\ work \in [Task -> Edit]
  BY DEF WalkInv, TypeOK, Result
<1>5. \A u \in Task \ {t} :
        pc'[u] = pc[u] /\ pos'[u] = pos[u] /\ out'[u] = out[u] /\ work'[u] = work[u]
  BY <1>3, <1>4
<1>6. pc'[t] = "steer" /\ out'[t] = Append(out[t], res)
  BY <1>3, <1>4
<1>7. TypeOK'
  <2>1. pc' \in [Task -> Place]
    BY <1>3, <1>4 DEF Place
  <2>2. pos' \in [Task -> Nat \ {0}]
    BY <1>1, <1>3, <1>4
  <2>3. Append(out[t], res) \in Seq(Result)
    BY <1>2
  <2>4. out' \in [Task -> Seq(Result)]
    BY <1>3, <1>4, <2>3
  <2>5. NoEdit \in Edit
    BY DEF NoEdit, Edit
  <2>6. work' \in [Task -> Edit]
    BY <1>3, <1>4, <2>5
  <2> QED
    BY <1>3, <2>1, <2>2, <2>4, <2>6 DEF WalkInv, TypeOK, Result
<1>8. \A u \in Task \ {t} : TaskInv(u)'
  BY <1>3, <1>5, OthersKept
<1>9. InPlan(t)' /\ EntryStands(t)' /\ EditStands(t)'
  BY <1>6 DEF InPlan, EntryStands, EditStands, AtEntry, Coming
<1>10. StopStands(t)'
  BY <1>3 DEF StopStands
<1>11. ResultsStand(t)'
  <2> HIDE DEF res
  <2>1. ResultsStand(t)
    BY DEF WalkInv, TaskInv
  <2>2. /\ DOMAIN out'[t] = DOMAIN out[t] \cup {n} /\ n \notin DOMAIN out[t]
        /\ out'[t][n] = res /\ \A i \in DOMAIN out[t] : out'[t][i] = out[t][i]
        /\ \A i \in DOMAIN out[t] : i < n
    BY <1>2, <1>6
  <2>3. res.kind = kind /\ res.draft = draft /\ res.repo = This(t).repo
    BY DEF res
  <2>4. \A r : IsBlocker(r)' <=> IsBlocker(r)
    BY <1>3 DEF IsBlocker
  <2>5. \A i \in DOMAIN out[t] : IsBlocker(out[t][i]) => Blockers(t) # {}
    BY DEF Blockers, Range
  <2>6. \A r : IsOpen(r) => IsOpen(r)'
    BY DEF IsOpen
  <2>7. ASSUME NEW i \in DOMAIN out'[t], NEW j \in DOMAIN out'[t],
               i < j, out'[t][j].kind = "opened", IsBlocker(out[t][i])'
        PROVE  out'[t][j].draft
    <3>1. i \in DOMAIN out[t]
      BY <1>2, <2>2, <2>7
    <3>2. CASE j = n
      BY <2>2, <2>3, <2>4, <2>5, <2>7, <3>1, <3>2
    <3>3. CASE j \in DOMAIN out[t]
      BY <2>1, <2>2, <2>4, <2>7, <3>1, <3>3 DEF ResultsStand
    <3> QED
      BY <2>2, <3>2, <3>3
  <2>8. ASSUME NEW i \in DOMAIN out'[t]
        PROVE  /\ out'[t][i].kind \in {"known", "opened"} => IsOpen(out[t][i].repo)'
               /\ out'[t][i].kind = "compare" => pushed'[t][out'[t][i].repo]
    <3>1. CASE i = n
      BY <2>2, <2>3, <3>1 DEF IsOpen
    <3>2. CASE i \in DOMAIN out[t]
      BY <2>1, <2>2, <2>6, <3>2 DEF ResultsStand
    <3> QED
      BY <2>2, <3>1, <3>2
  <2> QED
    BY <1>6, <2>7, <2>8 DEF ResultsStand
<1> QED
  BY <1>7, <1>8, <1>9, <1>10, <1>11 DEF WalkInv, TaskInv

-----------------------------------------------------------------------------
(* Steps that append a result and leave git alone.                         *)

\* The types of pull requests and what is known of git do not depend on results.
LEMMA PlainRecordKept ==
    ASSUME WalkInv, NEW t \in Task, pc[t] \in AtEntry, ~stopped[t],
           NEW kind \in Kind \ {"opened"}, Record(t, kind, FALSE), UNCHANGED gitVars,
           kind = "known" => IsOpen(This(t).repo),
           kind = "compare" => pushed[t][This(t).repo]
    PROVE  WalkInv'
<1>1. UNCHANGED <<branch, tree, pushed, prs>>
  BY DEF gitVars
<1>2. GitInv'
  BY <1>1 DEF WalkInv, GitInv, OnePRPerTask
<1>3. prs \subseteq [task : Task, repo : Repo, asked : BOOLEAN, draft : BOOLEAN, edit : Edit]
  BY DEF WalkInv, TypeOK
<1> QED
  BY <1>1, <1>2, <1>3, RecordKept DEF IsOpen

\* An execution at an entry has heard no stop.
LEMMA AtEntryGoesOn ==
    ASSUME WalkInv, NEW t \in Task, pc[t] \in AtEntry
    PROVE  ~stopped[t]
BY DEF WalkInv, TaskInv, StopStands, AtEntry

\* Every way to end a repository without a pull request of one's own.
LEMMA ResultsKept ==
    ASSUME WalkInv, NEW t \in Task,
           RecordProtoPublish(t) \/ NoSite(t) \/ UseExistingPR(t) \/ RepoFails(t)
             \/ NothingInserted(t) \/ NoPR(t)
    PROVE  WalkInv'
<1> USE DEF AtEntry, Kind
<1>1. CASE RecordProtoPublish(t)
  BY <1>1, AtEntryGoesOn, PlainRecordKept DEF RecordProtoPublish
<1>2. CASE NoSite(t)
  BY <1>2, AtEntryGoesOn, PlainRecordKept DEF NoSite
<1>3. CASE UseExistingPR(t)
  BY <1>3, AtEntryGoesOn, PlainRecordKept DEF UseExistingPR
<1>4. CASE RepoFails(t)
  BY <1>4, AtEntryGoesOn, PlainRecordKept DEF RepoFails
<1>5. CASE NothingInserted(t)
  BY <1>5, AtEntryGoesOn, PlainRecordKept DEF NothingInserted
<1>6. CASE NoPR(t)
  <2>1. pushed[t][This(t).repo]
    BY <1>6 DEF NoPR, WalkInv, TaskInv, EntryStands
  <2> QED
    BY <1>6, <2>1, AtEntryGoesOn, PlainRecordKept DEF NoPR
<1> QED
  BY <1>1, <1>2, <1>3, <1>4, <1>5, <1>6
-----------------------------------------------------------------------------
(* Steps that move an execution.                                           *)

\* Begin, hear, pass over, finish, approve.
LEMMA MovesKept ==
    ASSUME WalkInv, NEW t \in Task,
           Begin(t) \/ Heed(t) \/ HearNothing(t) \/ NoExistingPR(t) \/ Finish(t) \/ Approve(t)
    PROVE  WalkInv'
<1>0. /\ plan \in Seq(Entry) /\ plan # <<>>
      /\ pc \in [Task -> Place] /\ pos \in [Task -> Nat \ {0}]
      /\ out \in [Task -> Seq(Result)] /\ stopped \in [Task -> BOOLEAN]
      /\ end \in [Task -> {"", "completed", "failed", "defect"}]
      /\ InPlan(t) /\ StopStands(t) /\ ResultsStand(t)
  BY VariantAssumption DEF WalkInv, TaskInv, TypeOK, Result
<1>00. pos[t] \in Nat \ {0}
  BY <1>0
<1>1. CASE Begin(t)
  <2>1. TypeOK'
    <3>1. runs' \in [Task -> 0..MaxRuns]
      <4>1. runs \in [Task -> 0..MaxRuns] /\ MaxRuns \in Nat
        BY VariantAssumption DEF WalkInv, TypeOK
      <4>2. runs[t] < MaxRuns /\ runs' = [runs EXCEPT ![t] = @ + 1]
        BY <1>1 DEF Begin
      <4>3. runs[t] + 1 \in 0..MaxRuns
        BY <4>1, <4>2
      <4> QED
        BY <4>1, <4>2, <4>3
    <3>2. out' \in [Task -> Seq(Result)]
      <4>1. out' = [out EXCEPT ![t] = <<>>]
        BY <1>1 DEF Begin
      <4>2. <<>> \in Seq(Result)
        OBVIOUS
      <4> QED
        BY <1>0, <4>1, <4>2
    <3>3. /\ end' \in [Task -> {"", "completed", "failed", "defect"}]
          /\ pc' \in [Task -> Place]
      BY <1>0, <1>1 DEF Begin, Place
    <3>4. pos' \in [Task -> Nat \ {0}]
      <4>1. pos' = [pos EXCEPT ![t] = 1]
        BY <1>1 DEF Begin
      <4> QED
        BY <1>0, <4>1, PosMoves
    <3>5. stopped' \in [Task -> BOOLEAN]
      <4>1. stopped' = [stopped EXCEPT ![t] = FALSE]
        BY <1>1 DEF Begin
      <4> QED
        BY <1>0, <4>1
    <3> QED
      BY <1>1, <3>1, <3>2, <3>3, <3>4, <3>5 DEF Begin, gitVars, WalkInv, TypeOK, Result
  <2>2. /\ pc'[t] \in {"steer", "over"} /\ end'[t] # "completed"
        /\ out'[t] = <<>> /\ ~stopped'[t]
    BY <1>0, <1>1 DEF Begin
  <2>3. \A u \in Task \ {t} :
            /\ pc'[u] = pc[u] /\ pos'[u] = pos[u] /\ out'[u] = out[u] /\ work'[u] = work[u]
            /\ stopped'[u] = stopped[u] /\ end'[u] = end[u]
    BY <1>0, <1>1 DEF Begin
  <2>4. InPlan(t)' /\ StopStands(t)'
    BY <2>2 DEF InPlan, StopStands, AtEntry
  <2>5. UNCHANGED <<plan, branch, pushed, prs>>
    BY <1>1 DEF Begin, gitVars
  <2> QED
    BY <2>1, <2>2, <2>3, <2>4, <2>5, QuietKept DEF Coming
<1>2. CASE Heed(t)
  <2> DEFINE ms == PendingSteers(t)
  <2>0. pc[t] = "steer" /\ pos[t] <= Len(plan)
    BY <1>2 DEF Heed
  <2>1. /\ pc[t] = "steer" /\ pos[t] \in DOMAIN plan
        /\ UNCHANGED <<plan, out, work, end, runs, crashes, gitVars>>
    <3>1. pos[t] \in DOMAIN plan
      BY <1>0, <1>00, <2>0, WithinSeq
    <3>2. UNCHANGED <<plan, out, work, end, runs, crashes, gitVars>>
      BY <1>2 DEF Heed
    <3> QED
      BY <2>0, <3>1, <3>2
  <2>2. door' \in [Message -> {"unsent", "checked", "pending", "applied"}]
    BY <1>2 DEF Heed, MarkSteersApplied, WalkInv, TypeOK
  <2>3. \/ /\ stopped' = [stopped EXCEPT ![t] = TRUE]
           /\ pc' = [pc EXCEPT ![t] = "stop"] /\ UNCHANGED pos
        \/ pos' = [pos EXCEPT ![t] = pos[t] + 1] /\ UNCHANGED <<pc, stopped>>
        \/ pc' = [pc EXCEPT ![t] = "plan"] /\ UNCHANGED <<pos, stopped>>
    BY <1>2 DEF Heed, AfterStop
  <2>4. /\ pc' \in [Task -> Place] /\ pos' \in [Task -> Nat \ {0}]
        /\ stopped' \in [Task -> BOOLEAN]
    <3>1. pc' \in [Task -> Place]
      BY <1>0, <2>3 DEF Place
    <3>3. pos' \in [Task -> Nat \ {0}]
      <4>1. pos \in [Task -> Nat \ {0}]
        BY <1>0
      <4>2. pos' = pos \/ pos' = [pos EXCEPT ![t] = pos[t] + 1]
        BY <2>3
      <4> QED
        BY <4>1, <4>2, PosMoves
    <3>4. stopped' \in [Task -> BOOLEAN]
      BY <1>0, <2>3
    <3> QED
      BY <3>1, <3>3, <3>4
  <2>5. TypeOK'
    BY <2>1, <2>2, <2>4 DEF gitVars, WalkInv, TypeOK
  <2>6. \A u \in Task \ {t} : pc'[u] = pc[u] /\ pos'[u] = pos[u] /\ stopped'[u] = stopped[u]
    BY <1>0, <2>3
  <2>7. /\ InPlan(t)' /\ StopStands(t)'
        /\ pc'[t] \in {"stop", "steer", "plan"}
    BY <1>0, <2>1, <2>3 DEF InPlan, StopStands, AtEntry
  <2> QED
    BY <2>1, <2>5, <2>6, <2>7, QuietKept DEF Coming, gitVars
<1>3. CASE HearNothing(t)
  <2>1. /\ pos[t] \in DOMAIN plan /\ pc' = [pc EXCEPT ![t] = "plan"] /\ pc[t] = "steer"
        /\ UNCHANGED <<plan, pos, out, work, stopped, end, runs, crashes, door, gitVars>>
    <3>1. /\ pos[t] <= Len(plan) /\ pc' = [pc EXCEPT ![t] = "plan"] /\ pc[t] = "steer"
          /\ UNCHANGED <<plan, pos, out, work, stopped, end, runs, crashes, door, gitVars>>
      BY <1>3 DEF HearNothing
    <3>2. pos[t] \in DOMAIN plan
      BY <1>0, <1>00, <3>1, WithinSeq
    <3> QED
      BY <3>1, <3>2
  <2>2. pc' \in [Task -> Place] /\ pc'[t] = "plan" /\ \A u \in Task \ {t} : pc'[u] = pc[u]
    BY <1>0, <2>1 DEF Place
  <2>3. TypeOK'
    BY <2>1, <2>2 DEF gitVars, WalkInv, TypeOK
  <2>4. InPlan(t)' /\ StopStands(t)'
    BY <1>0, <2>1, <2>2 DEF InPlan, StopStands
  <2> QED
    BY <2>1, <2>2, <2>3, <2>4, QuietKept DEF Coming, gitVars
<1>4. CASE NoExistingPR(t)
  <2>1. /\ pc' = [pc EXCEPT ![t] = "tree"] /\ pc[t] = "plan"
        /\ UNCHANGED <<plan, pos, out, work, stopped, end, runs, crashes, door, gitVars>>
    BY <1>4 DEF NoExistingPR
  <2>2. pc' \in [Task -> Place] /\ pc'[t] = "tree" /\ \A u \in Task \ {t} : pc'[u] = pc[u]
    BY <1>0, <2>1 DEF Place
  <2>3. TypeOK'
    BY <2>1, <2>2 DEF gitVars, WalkInv, TypeOK
  <2>4. InPlan(t)' /\ StopStands(t)'
    BY <1>0, <2>1, <2>2 DEF InPlan, StopStands, AtEntry
  <2> QED
    BY <2>1, <2>2, <2>3, <2>4, QuietKept DEF Coming, gitVars
<1>5. CASE Finish(t)
  <2>1. /\ end' = [end EXCEPT ![t] = IF HasOutcome(t) THEN "completed" ELSE "failed"]
        /\ pc' = [pc EXCEPT ![t] = "over"]
        /\ UNCHANGED <<plan, pos, out, work, stopped, runs, crashes, door, branch, pushed, prs>>
    BY <1>5 DEF Finish
  <2>2. /\ pc' \in [Task -> Place] /\ pc'[t] = "over"
        /\ end' \in [Task -> {"", "completed", "failed", "defect"}]
        /\ end'[t] = "completed" => HasOutcome(t)
        /\ \A u \in Task \ {t} : pc'[u] = pc[u] /\ end'[u] = end[u]
    BY <1>0, <2>1 DEF Place
  <2>3. tree' \in [Task -> [Repo -> {"none", "mine", "left"}]]
    BY <1>5 DEF Finish, WalkInv, TypeOK
  <2>4. TypeOK'
    BY <2>1, <2>2, <2>3 DEF WalkInv, TypeOK
  <2>5. InPlan(t)' /\ StopStands(t)' /\ HasOutcome(t)' = HasOutcome(t)
    BY <2>1, <2>2 DEF InPlan, StopStands, AtEntry, HasOutcome
  <2> QED
    BY <2>1, <2>2, <2>4, <2>5, QuietKept DEF Coming
<1>6. CASE Approve(t)
  <2>1. /\ pc' = [pc EXCEPT ![t] = "waiting"]
        /\ UNCHANGED <<plan, pos, out, work, stopped, end, runs, crashes, door, gitVars>>
    BY <1>6 DEF Approve
  <2>2. pc' \in [Task -> Place] /\ pc'[t] = "waiting" /\ \A u \in Task \ {t} : pc'[u] = pc[u]
    BY <1>0, <2>1 DEF Place
  <2>3. TypeOK'
    BY <2>1, <2>2 DEF gitVars, WalkInv, TypeOK
  <2>4. InPlan(t)' /\ StopStands(t)'
    BY <2>2 DEF InPlan, StopStands, AtEntry
  <2> QED
    BY <2>1, <2>2, <2>3, <2>4, QuietKept DEF Coming, gitVars
<1> QED
  BY <1>1, <1>2, <1>3, <1>4, <1>5, <1>6
-----------------------------------------------------------------------------
(* Steps that bring a change out.                                          *)

\* A step towards the pull request: the table of results stays as it is.
LEMMA ActKept ==
    ASSUME WalkInv, NEW t \in Task, pc[t] \in AtEntry, pc'[t] \in AtEntry, TypeOK',
           UNCHANGED <<plan, pos, out, stopped, end, prs>>,
           \A u \in Task \ {t} :
               /\ pc'[u] = pc[u] /\ work'[u] = work[u]
               /\ branch'[u] = branch[u] /\ pushed'[u] = pushed[u],
           \A r \in Repo : pushed[t][r] => pushed'[t][r],
           GitInv', EntryStands(t)', EditStands(t)'
    PROVE  WalkInv'
<1>1. \A u \in Task \ {t} : TaskInv(u)'
  BY OthersKept
<1>2. InPlan(t) /\ ResultsStand(t) /\ out[t] \in Seq(Result)
  BY DEF WalkInv, TaskInv, TypeOK, Result
<1>3. ~stopped[t]
  BY AtEntryGoesOn
<1>4. InPlan(t)' /\ StopStands(t)'
  BY <1>2, <1>3 DEF InPlan, StopStands
<1>5. \A i \in DOMAIN out[t] : out[t][i].repo \in Repo
  <2>1. \A i \in DOMAIN out[t] : out[t][i] \in Result
    BY <1>2
  <2> QED
    BY <2>1 DEF Result
<1>6. \A res : IsBlocker(res)' <=> IsBlocker(res)
  BY DEF IsBlocker
<1>7. \A r : IsOpen(r)' <=> IsOpen(r)
  BY DEF IsOpen
<1>8. pc'[t] # "over"
  BY DEF AtEntry
<1>9. ResultsStand(t)'
  BY <1>2, <1>5, <1>6, <1>7, <1>8 DEF ResultsStand
<1> QED
  BY <1>1, <1>4, <1>9 DEF WalkInv, TaskInv

\* One cell of a table of tasks and repositories is written.
LEMMA CellWritten ==
    ASSUME NEW S, NEW f \in [Task -> [Repo -> S]], NEW t \in Task, NEW r \in Repo, NEW x \in S
    PROVE  /\ [f EXCEPT ![t][r] = x] \in [Task -> [Repo -> S]]
           /\ [f EXCEPT ![t][r] = x][t][r] = x
           /\ \A q \in Repo \ {r} : [f EXCEPT ![t][r] = x][t][q] = f[t][q]
           /\ \A u \in Task \ {t} : [f EXCEPT ![t][r] = x][u] = f[u]
OBVIOUS

\* Worktree, build, commit, push.
LEMMA OutwardKept ==
    ASSUME WalkInv, NEW t \in Task,
           CreateWorktree(t) \/ VerifyAndBuild(t) \/ Commit(t) \/ Push(t)
    PROVE  WalkInv'
<1> DEFINE r == This(t).repo
<1>0. /\ pc \in [Task -> Place] /\ work \in [Task -> Edit]
      /\ branch \in [Task -> [Repo -> {"none", "base", "edited"}]]
      /\ tree \in [Task -> [Repo -> {"none", "mine", "left"}]]
      /\ pushed \in [Task -> [Repo -> BOOLEAN]]
      /\ EntryStands(t) /\ EditStands(t) /\ GitInv
  BY DEF WalkInv, TaskInv, TypeOK
<1>00. pc[t] \in AtEntry
  BY DEF CreateWorktree, VerifyAndBuild, Commit, Push, AtEntry
<1>01. r \in Repo
  BY <1>00, EntryHasRepo
<1>1. CASE CreateWorktree(t)
  <2> DEFINE b == BranchIn(t, r)
  <2>1. /\ pc[t] = "tree" /\ pc' = [pc EXCEPT ![t] = "edit"]
        /\ branch' = [branch EXCEPT ![t][r] = b] /\ tree' = [tree EXCEPT ![t][r] = "mine"]
        /\ UNCHANGED <<plan, pos, out, work, stopped, end, runs, crashes, door, pushed, prs>>
    BY <1>1 DEF CreateWorktree
  <2>2. b \in {"base", "edited"} /\ (branch[t][r] # "none" => b = branch[t][r])
    BY <1>0, <1>01 DEF BranchIn
  <2> HIDE DEF r, b
  <2>3. /\ branch' \in [Task -> [Repo -> {"none", "base", "edited"}]] /\ branch'[t][r] = b
        /\ \A q \in Repo \ {r} : branch'[t][q] = branch[t][q]
        /\ \A u \in Task \ {t} : branch'[u] = branch[u]
    BY <1>0, <1>01, <2>1, <2>2, CellWritten
  <2>4. tree' \in [Task -> [Repo -> {"none", "mine", "left"}]]
    BY <1>0, <1>01, <2>1, CellWritten
  <2>5. pc' \in [Task -> Place] /\ pc'[t] = "edit" /\ \A u \in Task \ {t} : pc'[u] = pc[u]
    BY <1>0, <2>1 DEF Place
  <2>6. TypeOK'
    BY <2>1, <2>3, <2>4, <2>5 DEF WalkInv, TypeOK
  <2>7. \A u \in Task, q \in Repo : pushed'[u][q] => branch'[u][q] = "edited"
    BY <1>0, <1>01, <2>1, <2>2, <2>3 DEF GitInv
  <2>8. GitInv'
    BY <1>0, <2>1, <2>7 DEF GitInv, OnePRPerTask
  <2>9. EntryStands(t)'
    BY <2>1, <2>2, <2>3, <2>5 DEF EntryStands, This, r
  <2>10. EditStands(t)'
    BY <2>5 DEF EditStands, Coming
  <2>11. pc'[t] \in AtEntry
    BY <2>5 DEF AtEntry
  <2> QED
    BY <1>00, <2>1, <2>3, <2>5, <2>6, <2>8, <2>9, <2>10, <2>11, ActKept
<1>2. CASE VerifyAndBuild(t)
  <2>1. /\ pc[t] = "edit" /\ branch[t][r] # "edited" /\ pc' = [pc EXCEPT ![t] = "commit"]
        /\ UNCHANGED <<plan, pos, out, stopped, end, runs, crashes, door, branch, tree, pushed, prs>>
    BY <1>2 DEF VerifyAndBuild, gitVars
  <2>2. PICK looked \in BOOLEAN, errs \in SUBSET ({"missing", "wrong"} \cup Expected) :
          /\ IF looked THEN ~Breaks(errs) ELSE errs = {}
          /\ work' = [work EXCEPT ![t] =
                        [draft |-> Blockers(t) # {} \/ (looked /\ Unbuildable(errs)),
                         looked |-> looked, errs |-> errs]]
    BY <1>2 DEF VerifyAndBuild
  <2> DEFINE e == [draft |-> Blockers(t) # {} \/ (looked /\ Unbuildable(errs)),
                   looked |-> looked, errs |-> errs]
  <2>3. e \in Edit
    BY DEF Edit, BuildError, Expected
  <2>4. /\ work' \in [Task -> Edit] /\ work'[t] = e
        /\ \A u \in Task \ {t} : work'[u] = work[u]
    BY <1>0, <2>2, <2>3
  <2>5. pc' \in [Task -> Place] /\ pc'[t] = "commit" /\ \A u \in Task \ {t} : pc'[u] = pc[u]
    BY <1>0, <2>1 DEF Place
  <2>6. TypeOK'
    BY <2>1, <2>4, <2>5 DEF WalkInv, TypeOK
  <2>7. GitInv'
    BY <1>0, <2>1 DEF GitInv, OnePRPerTask
  <2>8. branch[t][r] = "base"
    BY <1>0, <1>01, <2>1 DEF EntryStands
  <2>9. EntryStands(t)'
    BY <2>1, <2>5, <2>8 DEF EntryStands, This
  <2>10. EditStands(t)'
    <3>1. DraftIfMust(e)
      BY <2>2 DEF DraftIfMust, Breaks, Unbuildable
    <3>2. Blockers(t)' = Blockers(t)
      BY <2>1 DEF Blockers, IsBlocker
    <3>3. Blockers(t) # {} => e.draft
      OBVIOUS
    <3> QED
      BY <2>4, <3>1, <3>2, <3>3 DEF EditStands, DraftIfMust
  <2>11. pc'[t] \in AtEntry
    BY <2>5 DEF AtEntry
  <2> QED
    BY <1>00, <2>1, <2>4, <2>5, <2>6, <2>7, <2>9, <2>10, <2>11, ActKept
<1>3. CASE Commit(t)
  <2>1. /\ pc[t] = "commit" /\ pc' = [pc EXCEPT ![t] = "push"]
        /\ branch' = [branch EXCEPT ![t][r] = "edited"]
        /\ UNCHANGED <<plan, pos, out, work, stopped, end, runs, crashes, door, tree, pushed, prs>>
    BY <1>3 DEF Commit
  <2>2. branch[t][r] = "base"
    BY <1>0, <2>1 DEF EntryStands
  <2> HIDE DEF r
  <2>3. /\ branch' \in [Task -> [Repo -> {"none", "base", "edited"}]] /\ branch'[t][r] = "edited"
        /\ \A q \in Repo \ {r} : branch'[t][q] = branch[t][q]
        /\ \A u \in Task \ {t} : branch'[u] = branch[u]
    BY <1>0, <1>01, <2>1, CellWritten
  <2>4. pc' \in [Task -> Place] /\ pc'[t] = "push" /\ \A u \in Task \ {t} : pc'[u] = pc[u]
    BY <1>0, <2>1 DEF Place
  <2>5. TypeOK'
    BY <2>1, <2>3, <2>4 DEF WalkInv, TypeOK
  <2>6. \A u \in Task, q \in Repo : pushed'[u][q] => branch'[u][q] = "edited"
    BY <1>0, <1>01, <2>1, <2>3 DEF GitInv
  <2>7. GitInv'
    BY <1>0, <2>1, <2>6 DEF GitInv, OnePRPerTask
  <2>8. ~pushed[t][r]
    BY <1>0, <1>01, <2>2 DEF GitInv
  <2>9. EntryStands(t)'
    BY <2>1, <2>3, <2>4, <2>8 DEF EntryStands, This, r
  <2>10. EditStands(t)'
    <3>1. Blockers(t)' = Blockers(t)
      BY <2>1 DEF Blockers, IsBlocker
    <3> QED
      BY <1>0, <2>1, <3>1 DEF EditStands, Coming, DraftIfMust
  <2>11. pc'[t] \in AtEntry
    BY <2>4 DEF AtEntry
  <2> QED
    BY <1>00, <2>1, <2>3, <2>4, <2>5, <2>7, <2>9, <2>10, <2>11, ActKept
<1>4. CASE Push(t)
  <2>1. /\ pc[t] = "push" /\ pc' = [pc EXCEPT ![t] = "open"]
        /\ pushed' = [pushed EXCEPT ![t][r] = TRUE]
        /\ UNCHANGED <<plan, pos, out, work, stopped, end, runs, crashes, door, branch, tree, prs>>
    BY <1>4 DEF Push
  <2>2. branch[t][r] = "edited" /\ ~pushed[t][r]
    BY <1>0, <2>1 DEF EntryStands
  <2> HIDE DEF r
  <2>3. /\ pushed' \in [Task -> [Repo -> BOOLEAN]] /\ pushed'[t][r] = TRUE
        /\ \A q \in Repo \ {r} : pushed'[t][q] = pushed[t][q]
        /\ \A u \in Task \ {t} : pushed'[u] = pushed[u]
    BY <1>0, <1>01, <2>1, CellWritten
  <2>4. pc' \in [Task -> Place] /\ pc'[t] = "open" /\ \A u \in Task \ {t} : pc'[u] = pc[u]
    BY <1>0, <2>1 DEF Place
  <2>5. TypeOK'
    BY <2>1, <2>3, <2>4 DEF WalkInv, TypeOK
  <2>6. \A u \in Task, q \in Repo : pushed'[u][q] => branch'[u][q] = "edited"
    BY <1>0, <1>01, <2>1, <2>2, <2>3 DEF GitInv
  <2>7. \A p \in prs : pushed'[p.task][p.repo]
    <3>1. \A p \in prs : p.task \in Task /\ p.repo \in Repo /\ pushed[p.task][p.repo]
      BY <1>0 DEF WalkInv, TypeOK, GitInv
    <3> QED
      BY <1>01, <2>3, <3>1
  <2>8. GitInv'
    BY <1>0, <2>1, <2>6, <2>7 DEF GitInv, OnePRPerTask
  <2>9. ~\E p \in prs : p.task = t /\ p.repo = r
    BY <1>0, <2>2 DEF GitInv
  <2>10. EntryStands(t)'
    BY <2>1, <2>3, <2>4, <2>9 DEF EntryStands, This, r
  <2>11. EditStands(t)'
    <3>1. Blockers(t)' = Blockers(t)
      BY <2>1 DEF Blockers, IsBlocker
    <3> QED
      BY <1>0, <2>1, <3>1 DEF EditStands, Coming, DraftIfMust
  <2>12. pc'[t] \in AtEntry
    BY <2>4 DEF AtEntry
  <2>13. \A q \in Repo : pushed[t][q] => pushed'[t][q]
    BY <2>3
  <2> QED
    BY <1>00, <2>1, <2>3, <2>4, <2>5, <2>8, <2>10, <2>11, <2>12, <2>13, ActKept
<1> QED
  BY <1>1, <1>2, <1>3, <1>4

\* The pull request is the first of its task and repository, since the branch was
\* pushed only now.
LEMMA CreatePRKept ==
    ASSUME WalkInv, NEW t \in Task, CreatePR(t)
    PROVE  WalkInv'
<1> DEFINE r == This(t).repo
<1>1. pc[t] = "open" /\ pc[t] \in AtEntry /\ pc[t] \in Coming
  BY DEF CreatePR, AtEntry, Coming
<1>2. r \in Repo /\ ~stopped[t]
  BY <1>1, EntryHasRepo, AtEntryGoesOn
<1>3. /\ pushed[t][r] /\ ~\E p \in prs : p.task = t /\ p.repo = r
      /\ DraftIfMust(work[t]) /\ (Blockers(t) # {} => work[t].draft)
      /\ GitInv /\ work[t] \in Edit
      /\ prs \subseteq [task : Task, repo : Repo, asked : BOOLEAN, draft : BOOLEAN, edit : Edit]
  BY <1>1 DEF WalkInv, TaskInv, TypeOK, EntryStands, EditStands
<1>4. work[t].draft \in BOOLEAN
  BY <1>3 DEF Edit
<1>5. PICK draft \in {work[t].draft, FALSE} :
        prs' = prs \cup {[task |-> t, repo |-> r, asked |-> work[t].draft,
                          draft |-> draft, edit |-> work[t]]}
  BY DEF CreatePR
<1>6. Record(t, "opened", work[t].draft) /\ UNCHANGED <<branch, tree, pushed>>
  BY DEF CreatePR
<1> HIDE DEF r
<1> DEFINE new == [task |-> t, repo |-> r, asked |-> work[t].draft,
                   draft |-> draft, edit |-> work[t]]
<1>7. /\ new \in [task : Task, repo : Repo, asked : BOOLEAN, draft : BOOLEAN, edit : Edit]
      /\ new.task = t /\ new.repo = r /\ new.asked = work[t].draft /\ new.edit = work[t]
  BY <1>2, <1>3, <1>4, <1>5
<1>8. prs' = prs \cup {new}
  BY <1>5
<1> HIDE DEF new
<1>9. GitInv'
  <2>1. \A u \in Task, q \in Repo : pushed'[u][q] => branch'[u][q] = "edited"
    BY <1>3, <1>6 DEF GitInv
  <2>2. \A p \in prs' : pushed'[p.task][p.repo]
    BY <1>3, <1>6, <1>7, <1>8 DEF GitInv
  <2>3. \A p \in prs' : p.edit.looked =>
          "wrong" \notin p.edit.errs /\ ("missing" \in p.edit.errs => p.asked)
    BY <1>3, <1>7, <1>8 DEF GitInv, DraftIfMust
  <2>4. OnePRPerTask'
    BY <1>3, <1>7, <1>8 DEF GitInv, OnePRPerTask
  <2> QED
    BY <2>1, <2>2, <2>3, <2>4 DEF GitInv
<1>10. prs \subseteq prs' /\ \A p \in prs' \ prs : p.task = t
  BY <1>7, <1>8
<1>11. \E p \in prs' : p.repo = This(t).repo
  BY <1>7, <1>8 DEF r
<1>12. prs' \subseteq [task : Task, repo : Repo, asked : BOOLEAN, draft : BOOLEAN, edit : Edit]
  BY <1>3, <1>7, <1>8
<1>13. "opened" \in Kind
  BY DEF Kind
<1> QED
  BY <1>1, <1>2, <1>3, <1>4, <1>6, <1>9, <1>10, <1>11, <1>12, <1>13, RecordKept
-----------------------------------------------------------------------------
(* Steps of humans and of the process.                                     *)

\* Messages change nothing but the rows of messages.
LEMMA DoorKept ==
    ASSUME WalkInv, NEW m \in Message, SteerChecked(m) \/ AddSteer(m)
    PROVE  WalkInv'
<1>1. UNCHANGED <<plan, runVars, runs, crashes, gitVars>>
  BY DEF SteerChecked, AddSteer
<1>2. door' \in [Message -> {"unsent", "checked", "pending", "applied"}]
  BY DEF SteerChecked, AddSteer, WalkInv, TypeOK
<1>3. TypeOK'
  BY <1>1, <1>2 DEF WalkInv, TypeOK, runVars, gitVars
<1>4. GitInv'
  BY <1>1 DEF WalkInv, GitInv, OnePRPerTask, gitVars
<1>5. ASSUME NEW t \in Task PROVE TaskInv(t)'
  <2>1. TaskInv(t)
    BY DEF WalkInv
  <2>2. UNCHANGED <<plan, pc, pos, out, work, stopped, end, branch, pushed, prs>>
    BY <1>1 DEF runVars, gitVars
  <2>3. InPlan(t)' /\ EntryStands(t)' /\ StopStands(t)'
    BY <2>1, <2>2 DEF TaskInv, InPlan, EntryStands, StopStands, This
  <2>4. EditStands(t)'
    BY <2>1, <2>2 DEF TaskInv, EditStands, DraftIfMust, Blockers, IsBlocker
  <2>5. ResultsStand(t)'
    BY <2>1, <2>2 DEF TaskInv, ResultsStand, IsBlocker, IsOpen, HasOutcome
  <2> QED
    BY <2>3, <2>4, <2>5 DEF TaskInv
<1> QED
  BY <1>3, <1>4, <1>5 DEF WalkInv

\* A restart ends every execution and keeps what is out.
LEMMA RestartKept ==
    ASSUME WalkInv, Restart
    PROVE  WalkInv'
<1>1. /\ pc' = [t \in Task |-> IF pc[t] = "over" THEN "over" ELSE "waiting"]
      /\ out' = [t \in Task |-> IF pc[t] = "over" THEN out[t] ELSE <<>>]
      /\ pos' = [t \in Task |-> 1]
      /\ work' = [t \in Task |-> NoEdit]
      /\ stopped' = [t \in Task |-> FALSE]
      /\ UNCHANGED <<plan, end, runs, branch, pushed, prs>>
  BY DEF Restart
<1>2. TypeOK'
  <2>1. pc' \in [Task -> Place]
    BY <1>1 DEF Place
  <2>2. out' \in [Task -> Seq(Result)]
    <3>1. out \in [Task -> Seq(Result)]
      BY DEF WalkInv, TypeOK, Result
    <3>2. <<>> \in Seq(Result)
      OBVIOUS
    <3> QED
      BY <1>1, <3>1, <3>2
  <2>3. pos' \in [Task -> Nat \ {0}]
    <3>1. 1 \in Nat \ {0}
      OBVIOUS
    <3> QED
      BY <1>1, <3>1
  <2>4. work' \in [Task -> Edit] /\ stopped' \in [Task -> BOOLEAN]
    BY <1>1 DEF NoEdit, Edit
  <2>5. crashes' \in 0..MaxCrashes
    <3>1. crashes \in 0..MaxCrashes /\ MaxCrashes \in Nat
      BY VariantAssumption DEF WalkInv, TypeOK
    <3>2. crashes < MaxCrashes /\ crashes' = crashes + 1
      BY DEF Restart
    <3> QED
      BY <3>1, <3>2
  <2>6. tree' \in [Task -> [Repo -> {"none", "mine", "left"}]]
    <3>1. PICK kept \in {"left", "none"} :
            tree' = [t \in Task |-> [r \in Repo |-> IF tree[t][r] = "none" THEN "none" ELSE kept]]
      BY DEF Restart
    <3> QED
      BY <3>1
  <2>7. door' \in [Message -> {"unsent", "checked", "pending", "applied"}]
    <3>1. door' = [m \in Message |-> IF door[m] = "checked" THEN "unsent" ELSE door[m]]
      BY DEF Restart
    <3>2. door \in [Message -> {"unsent", "checked", "pending", "applied"}]
      BY DEF WalkInv, TypeOK
    <3> QED
      BY <3>1, <3>2
  <2> QED
    BY <1>1, <2>1, <2>2, <2>3, <2>4, <2>5, <2>6, <2>7 DEF WalkInv, TypeOK, Result
<1>3. GitInv'
  BY <1>1 DEF WalkInv, GitInv, OnePRPerTask
<1>4. ASSUME NEW t \in Task PROVE TaskInv(t)'
  <2>1. pc'[t] \in {"over", "waiting"} /\ (pc'[t] = "over" <=> pc[t] = "over") /\ ~stopped'[t]
    BY <1>1
  <2>2. InPlan(t)' /\ EntryStands(t)' /\ StopStands(t)' /\ EditStands(t)'
    BY <2>1 DEF InPlan, EntryStands, StopStands, EditStands, AtEntry, Coming
  <2>3. ResultsStand(t)'
    <3>1. CASE pc[t] = "over"
      <4>1. out'[t] = out[t] /\ ResultsStand(t)
        BY <1>1, <3>1 DEF WalkInv, TaskInv
      <4>2. \A res : IsBlocker(res)' <=> IsBlocker(res)
        BY <1>1 DEF IsBlocker
      <4>3. \A r : IsOpen(r)' <=> IsOpen(r)
        BY <1>1 DEF IsOpen
      <4>4. HasOutcome(t)' <=> HasOutcome(t)
        BY <4>1 DEF HasOutcome
      <4> QED
        BY <1>1, <2>1, <4>1, <4>2, <4>3, <4>4 DEF ResultsStand
    <3>2. CASE pc[t] # "over"
      <4>1. out'[t] = <<>>
        BY <1>1, <3>2
      <4>2. DOMAIN out'[t] = {}
        BY <4>1
      <4> QED
        BY <2>1, <3>2, <4>2 DEF ResultsStand
    <3> QED
      BY <3>1, <3>2
  <2> QED
    BY <2>2, <2>3 DEF TaskInv
<1> QED
  BY <1>2, <1>3, <1>4 DEF WalkInv
-----------------------------------------------------------------------------
(* The invariant.                                                          *)

\* The invariant holds initially,
LEMMA WalkInvInit == Init => WalkInv
<1> SUFFICES ASSUME Init PROVE WalkInv
  OBVIOUS
<1>1. TypeOK
  <2>1. out \in [Task -> Seq([repo : Repo, kind : Kind, draft : BOOLEAN])]
    <3>1. out = [t \in Task |-> <<>>]
      BY DEF Init
    <3>2. <<>> \in Seq([repo : Repo, kind : Kind, draft : BOOLEAN])
      OBVIOUS
    <3> QED
      BY <3>1, <3>2
  <2>2. pos \in [Task -> Nat \ {0}]
    <3>1. 1 \in Nat \ {0}
      OBVIOUS
    <3> QED
      BY <3>1 DEF Init
  <2>3. runs \in [Task -> 0..MaxRuns] /\ crashes \in 0..MaxCrashes
    <3>1. 0 \in 0..MaxRuns /\ 0 \in 0..MaxCrashes
      BY VariantAssumption
    <3> QED
      BY <3>1 DEF Init
  <2>4. work \in [Task -> Edit]
    BY DEF Init, NoEdit, Edit
  <2> QED
    BY <2>1, <2>2, <2>3, <2>4 DEF Init, TypeOK, Place
<1>2. GitInv
  BY DEF Init, GitInv, OnePRPerTask
<1>3. ASSUME NEW t \in Task PROVE TaskInv(t)
  <2>1. pc[t] = "waiting" /\ ~stopped[t] /\ out[t] = <<>> /\ end[t] = ""
    BY DEF Init
  <2>2. DOMAIN <<>> = {}
    OBVIOUS
  <2> QED
    BY <2>1, <2>2 DEF TaskInv, InPlan, EntryStands, StopStands, EditStands, ResultsStand,
                      AtEntry, Coming
<1> QED
  BY <1>1, <1>2, <1>3 DEF WalkInv

\* and every step keeps it.
LEMMA WalkInvNext == WalkInv /\ [Next]_vars => WalkInv'
<1> SUFFICES ASSUME WalkInv, [Next]_vars PROVE WalkInv'
  OBVIOUS
<1>1. CASE UNCHANGED vars
  <2>1. UNCHANGED <<plan, pc, pos, out, work, stopped, end, runs, crashes, door,
                    branch, tree, pushed, prs>>
    BY <1>1 DEF vars, runVars, gitVars
  <2>2. TypeOK'
    BY <2>1 DEF WalkInv, TypeOK
  <2>3. GitInv'
    BY <2>1 DEF WalkInv, GitInv, OnePRPerTask
  <2>4. ASSUME NEW t \in Task PROVE TaskInv(t)'
    <3>1. TaskInv(t)
      BY DEF WalkInv
    <3>2. InPlan(t)' /\ EntryStands(t)' /\ StopStands(t)'
      BY <2>1, <3>1 DEF TaskInv, InPlan, EntryStands, StopStands, This
    <3>3. EditStands(t)'
      BY <2>1, <3>1 DEF TaskInv, EditStands, DraftIfMust, Blockers, IsBlocker
    <3>4. ResultsStand(t)'
      BY <2>1, <3>1 DEF TaskInv, ResultsStand, IsBlocker, IsOpen, HasOutcome
    <3> QED
      BY <3>2, <3>3, <3>4 DEF TaskInv
  <2> QED
    BY <2>2, <2>3, <2>4 DEF WalkInv
<1>2. ASSUME NEW t \in Task, Step(t) \/ Approve(t) PROVE WalkInv'
  BY <1>2, MovesKept, ResultsKept, OutwardKept, CreatePRKept DEF Step
<1>3. ASSUME NEW m \in Message, SteerChecked(m) \/ AddSteer(m) PROVE WalkInv'
  BY <1>3, DoorKept
<1>4. CASE Restart
  BY <1>4, RestartKept
<1> QED
  BY <1>1, <1>2, <1>3, <1>4 DEF Next

\* The inductive invariant holds in every reachable state.
THEOREM WalkStands == Spec => []WalkInv
<1> QED
  BY WalkInvInit, WalkInvNext, PTL DEF Spec
-----------------------------------------------------------------------------
(* What is out is what should be.                                          *)

\* It implies the property.
LEMMA WalkInvImpliesOut == WalkInv => OutAsItShould
<1> SUFFICES ASSUME WalkInv PROVE OutAsItShould
  OBVIOUS
<1>1. DraftWhenItMust
  <2>1. ASSUME NEW t \in Task, NEW i \in DOMAIN out[t], NEW j \in DOMAIN out[t],
               i < j, out[t][j].kind = "opened",
               \/ out[t][i].kind = "made"
               \/ out[t][i].kind \in {"known", "opened"} /\ MustComeFirst(out[t][i].repo)
        PROVE  out[t][j].draft
    <3>1. IsBlocker(out[t][i])
      BY <2>1 DEF IsBlocker, MustComeFirst
    <3> QED
      BY <2>1, <3>1 DEF WalkInv, TaskInv, ResultsStand
  <2> QED
    BY <2>1 DEF DraftWhenItMust, WalkInv, GitInv
<1>2. ASSUME NEW t \in Task, pc[t] = "over", end[t] = "completed"
      PROVE  /\ out[t] # <<>>
             /\ \A res \in Range(out[t]) :
                 /\ res.kind \in {"known", "opened"} => IsOpen(res.repo)
                 /\ res.kind = "compare" => pushed[t][res.repo]
             /\ \E res \in Range(out[t]) :
                 res.kind = "made" \/ IsOpen(res.repo) \/ pushed[t][res.repo]
  <2>1. ResultsStand(t)
    BY DEF WalkInv, TaskInv
  <2>2. \A res \in Range(out[t]) :
          /\ res.kind \in {"known", "opened"} => IsOpen(res.repo)
          /\ res.kind = "compare" => pushed[t][res.repo]
    BY <2>1 DEF ResultsStand, Range
  <2>3. PICK res \in Range(out[t]) : res.kind \in {"made", "known", "opened", "compare"}
    BY <1>2, <2>1 DEF ResultsStand, HasOutcome
  <2>4. out[t] # <<>>
    <3>1. DOMAIN <<>> = {}
      OBVIOUS
    <3> QED
      BY <2>3, <3>1 DEF Range
  <2> QED
    BY <2>2, <2>3, <2>4
<1>3. CompletedIsOut
  BY <1>2 DEF CompletedIsOut
<1> QED
  BY <1>1, <1>3 DEF OutAsItShould, WalkInv, GitInv

\* However often tasks are stopped, restarted and approved again: drafts where a
\* merge must come first, one pull request for each repository and task, and no
\* task COMPLETED without the branch or the pull request that it reports.
THEOREM OutStands == Spec => []OutAsItShould
<1> QED
  BY WalkStands, WalkInvImpliesOut, PTL
-----------------------------------------------------------------------------
(* A stop that was heard.                                                  *)

\* Only a step at an entry touches git, and only for its own task.
LEMMA StopEndsStep ==
    ASSUME WalkInv, [Next]_vars, NEW t \in Task, stopped[t], pc[t] # "over"
    PROVE  /\ branch'[t] = branch[t] /\ pushed'[t] = pushed[t]
           /\ {p \in prs' : p.task = t} = {p \in prs : p.task = t}
<1> DEFINE Goal == /\ branch'[t] = branch[t] /\ pushed'[t] = pushed[t]
                   /\ {p \in prs' : p.task = t} = {p \in prs : p.task = t}
<1>1. pc[t] \in {"stop", "waiting"}
  BY DEF WalkInv, TaskInv, StopStands
<1>2. ASSUME UNCHANGED <<branch, pushed, prs>> PROVE Goal
  BY <1>2
<1>3. CASE UNCHANGED vars
  BY <1>2, <1>3 DEF vars, gitVars
<1>4. CASE Restart \/ \E m \in Message : SteerChecked(m) \/ AddSteer(m)
  BY <1>2, <1>4 DEF Restart, SteerChecked, AddSteer, gitVars
<1>5. ASSUME NEW u \in Task, Step(u) \/ Approve(u) PROVE Goal
  <2>1. CASE \/ Begin(u) \/ Heed(u) \/ HearNothing(u) \/ RecordProtoPublish(u) \/ NoSite(u)
             \/ UseExistingPR(u) \/ NoExistingPR(u) \/ RepoFails(u) \/ NothingInserted(u)
             \/ VerifyAndBuild(u) \/ NoPR(u) \/ Finish(u) \/ Approve(u)
    BY <1>2, <2>1 DEF Begin, Heed, HearNothing, RecordProtoPublish, NoSite, UseExistingPR,
         NoExistingPR, RepoFails, NothingInserted, VerifyAndBuild, NoPR, Finish, Approve, gitVars
  <2>2. CASE CreateWorktree(u) \/ Commit(u) \/ Push(u) \/ CreatePR(u)
    <3>1. u # t
      BY <1>1, <2>2 DEF CreateWorktree, Commit, Push, CreatePR
    <3>2. branch \in [Task -> [Repo -> {"none", "base", "edited"}]]
          /\ pushed \in [Task -> [Repo -> BOOLEAN]]
      BY DEF WalkInv, TypeOK
    <3>3. branch'[t] = branch[t]
      BY <2>2, <3>1, <3>2 DEF CreateWorktree, Commit, Push, CreatePR
    <3>4. pushed'[t] = pushed[t]
      BY <2>2, <3>1, <3>2 DEF CreateWorktree, Commit, Push, CreatePR
    <3>5. prs' = prs \/ \E p : p.task = u /\ prs' = prs \cup {p}
      <4>1. CASE CreatePR(u)
        <5>1. PICK draft \in {work[u].draft, FALSE} :
                prs' = prs \cup {[task |-> u, repo |-> This(u).repo, asked |-> work[u].draft,
                                  draft |-> draft, edit |-> work[u]]}
          BY <4>1 DEF CreatePR
        <5> QED
          BY <5>1
      <4>2. CASE CreateWorktree(u) \/ Commit(u) \/ Push(u)
        BY <4>2 DEF CreateWorktree, Commit, Push
      <4> QED
        BY <2>2, <4>1, <4>2
    <3>6. {p \in prs' : p.task = t} = {p \in prs : p.task = t}
      BY <3>1, <3>5
    <3> QED
      BY <3>3, <3>4, <3>6
  <2> QED
    BY <1>5, <2>1, <2>2 DEF Step
<1> QED
  BY <1>3, <1>4, <1>5 DEF Next

\* An execution that heard a stop touches no branch and no pull request any more.
THEOREM StopHolds == Spec => StopEndsIt
<1>1. WalkInv /\ [Next]_vars =>
        [\A t \in Task : stopped[t] /\ pc[t] # "over" =>
            /\ branch'[t] = branch[t] /\ pushed'[t] = pushed[t]
            /\ {p \in prs' : p.task = t} = {p \in prs : p.task = t}]_vars
  BY StopEndsStep
<1> QED
  BY <1>1, WalkStands, PTL DEF Spec, StopEndsIt
-----------------------------------------------------------------------------
(* The walk implements Publication.                                        *)

HasPR(t, r) == \E p \in prs : p.task = t /\ p.repo = r
Stages == [t \in Task |-> [r \in Repo |-> Stage(t, r)]]

\* Stage depends on three things; with the invariant they tell the stages apart.
LEMMA StageIs ==
    ASSUME WalkInv, NEW t \in Task, NEW r \in Repo
    PROVE  /\ branch[t][r] = "none" => Stage(t, r) = "none"
           /\ branch[t][r] = "base" => Stage(t, r) = "branch"
           /\ branch[t][r] = "edited" /\ ~pushed[t][r] => Stage(t, r) = "commit"
           /\ pushed[t][r] /\ ~HasPR(t, r) => Stage(t, r) = "pushed"
           /\ HasPR(t, r) => Stage(t, r) = "open"
<1>1. pushed[t][r] => branch[t][r] = "edited"
  BY DEF WalkInv, GitInv
<1>2. HasPR(t, r) => pushed[t][r]
  BY DEF WalkInv, GitInv, HasPR
<1> QED
  BY <1>1, <1>2 DEF Stage, HasPR

\* The order of the stages.
LEMMA AfterIs ==
    /\ Out!After["none"] = "branch" /\ Out!After["branch"] = "commit"
    /\ Out!After["commit"] = "pushed" /\ Out!After["pushed"] = "open"
BY DEF Out!After, Out!Stage

\* A step that changes one stage to the one after it is a step of Publication.
LEMMA StageMoves ==
    ASSUME NEW t \in Task, NEW r \in Repo,
           \A u \in Task, q \in Repo : <<u, q>> # <<t, r>> => Stage(u, q)' = Stage(u, q),
           NEW x \in {"none", "branch", "commit", "pushed"},
           Stage(t, r) = x, Stage(t, r)' = Out!After[x]
    PROVE  Out!PublicationNext
<1>1. Stages' = [Stages EXCEPT ![t][r] = Out!After[x]]
  <2>1. Stages' = [u \in Task |-> [q \in Repo |-> Stage(u, q)']]
    BY DEF Stages
  <2> DEFINE f == [Stages EXCEPT ![t][r] = Out!After[x]]
  <2>2. f = [u \in Task |-> [q \in Repo |-> Stage(u, q)']]
    BY ZenonT(40) DEF Stages
  <2> QED
    BY <2>1, <2>2
<1>2. Stages[t][r] = x /\ x # "open"
  BY DEF Stages
<1>3. Out!Advance(t, r)
  BY <1>1, <1>2 DEF Out!Advance, Stages
<1> QED
  BY <1>3 DEF Out!PublicationNext

\* Nothing is out initially.
LEMMA StagesInit == Init => Out!PublicationInit
<1> SUFFICES ASSUME Init PROVE Out!PublicationInit
  OBVIOUS
<1>1. ASSUME NEW t \in Task, NEW r \in Repo PROVE Stage(t, r) = "none"
  <2>1. branch[t][r] = "none" /\ ~pushed[t][r] /\ prs = {}
    BY DEF Init
  <2> QED
    BY <2>1 DEF Stage
<1> QED
  BY <1>1 DEF Out!PublicationInit

\* A repository that a step leaves alone keeps its stage.
LEMMA StageKept ==
    ASSUME NEW t \in Task, NEW r \in Repo,
           branch'[t][r] = branch[t][r], pushed'[t][r] = pushed[t][r],
           HasPR(t, r)' <=> HasPR(t, r)
    PROVE  Stage(t, r)' = Stage(t, r)
<1>1. CASE HasPR(t, r)
  <2>1. Stage(t, r) = "open"
    BY <1>1 DEF Stage, HasPR
  <2>2. Stage(t, r)' = "open"
    BY <1>1 DEF Stage, HasPR
  <2> QED
    BY <2>1, <2>2
<1>2. CASE ~HasPR(t, r)
  <2> DEFINE Rest(b, p) == IF p THEN "pushed"
                           ELSE CASE b = "none" -> "none"
                                  [] b = "base" -> "branch"
                                  [] b = "edited" -> "commit"
  <2>1. Stage(t, r) = Rest(branch[t][r], pushed[t][r])
    BY <1>2 DEF Stage, HasPR
  <2>2. Stage(t, r)' = Rest(branch'[t][r], pushed'[t][r])
    BY <1>2 DEF Stage, HasPR
  <2> HIDE DEF Rest
  <2> QED
    BY <2>1, <2>2
<1> QED
  BY <1>1, <1>2

\* The stage after a step, of a repository where the step changed one thing.
LEMMA StageBecomes ==
    ASSUME NEW t \in Task, NEW r \in Repo
    PROVE  /\ branch'[t][r] = "base" /\ ~pushed'[t][r] /\ ~HasPR(t, r)' => Stage(t, r)' = "branch"
           /\ branch'[t][r] = "edited" /\ ~pushed'[t][r] /\ ~HasPR(t, r)' => Stage(t, r)' = "commit"
           /\ pushed'[t][r] /\ ~HasPR(t, r)' => Stage(t, r)' = "pushed"
           /\ HasPR(t, r)' => Stage(t, r)' = "open"
BY DEF Stage, HasPR

\* A step of the walk is a step of Publication, or leaves every stage alone.
LEMMA StagesNext ==
    ASSUME WalkInv, WalkInv', [Next]_vars
    PROVE  Out!PublicationNext \/ UNCHANGED Stages
<1> DEFINE Goal == Out!PublicationNext \/ UNCHANGED Stages
<1>1. ASSUME UNCHANGED <<branch, pushed, prs>> PROVE Goal
  BY <1>1 DEF Stages, Stage
<1>2. CASE UNCHANGED vars
  BY <1>1, <1>2 DEF vars, gitVars
<1>3. CASE Restart \/ \E m \in Message : SteerChecked(m) \/ AddSteer(m)
  BY <1>1, <1>3 DEF Restart, SteerChecked, AddSteer, gitVars
<1>4. ASSUME NEW t \in Task, Step(t) \/ Approve(t) PROVE Goal
  <2>0. /\ branch \in [Task -> [Repo -> {"none", "base", "edited"}]]
        /\ pushed \in [Task -> [Repo -> BOOLEAN]]
        /\ pc[t] \in AtEntry => This(t).repo \in Repo
        /\ EntryStands(t)
    BY EntryHasRepo DEF WalkInv, TypeOK, TaskInv
  <2>1. CASE \/ Begin(t) \/ Heed(t) \/ HearNothing(t) \/ RecordProtoPublish(t) \/ NoSite(t)
             \/ UseExistingPR(t) \/ NoExistingPR(t) \/ RepoFails(t) \/ NothingInserted(t)
             \/ VerifyAndBuild(t) \/ NoPR(t) \/ Finish(t) \/ Approve(t)
    BY <1>1, <2>1 DEF Begin, Heed, HearNothing, RecordProtoPublish, NoSite, UseExistingPR,
         NoExistingPR, RepoFails, NothingInserted, VerifyAndBuild, NoPR, Finish, Approve, gitVars
  <2>2. CASE CreateWorktree(t)
    <3>0. pc[t] \in AtEntry
      BY <2>2 DEF CreateWorktree, AtEntry
    <3>00. PICK r \in Repo : r = This(t).repo
      BY <2>0, <3>0
    <3> DEFINE b == BranchIn(t, r)
    <3>1. /\ branch' = [branch EXCEPT ![t][r] = b]
          /\ UNCHANGED <<pushed, prs>>
      BY <2>0, <2>2, <3>00 DEF CreateWorktree
    <3>2. IF branch[t][r] = "none" THEN b = "base" ELSE b = branch[t][r]
      BY DEF BranchIn
    <3> HIDE DEF b
    <3>3. b \in {"none", "base", "edited"}
      BY <2>0, <3>1, <3>2
    <3>4. /\ branch'[t][r] = b
          /\ \A u \in Task, q \in Repo : <<u, q>> # <<t, r>> => branch'[u][q] = branch[u][q]
      BY <2>0, <3>1, <3>3
    <3>5. \A u \in Task, q \in Repo : <<u, q>> # <<t, r>> => Stage(u, q)' = Stage(u, q)
      BY <3>1, <3>4, StageKept DEF HasPR
    <3>6. CASE branch[t][r] = "none"
      <4>1. Stage(t, r) = "none"
        BY <3>1, <3>6, StageIs
      <4>2. ~pushed[t][r] /\ ~HasPR(t, r)
        BY <3>1, <3>6 DEF WalkInv, GitInv, HasPR
      <4>3. Stage(t, r)' = "branch"
        BY <3>1, <3>2, <3>4, <3>6, <4>2, StageBecomes DEF HasPR
      <4> QED
        BY <3>1, <3>5, <4>1, <4>3, StageMoves, AfterIs
    <3>7. CASE branch[t][r] # "none"
      <4>1. \A u \in Task, q \in Repo : branch'[u][q] = branch[u][q]
        BY <3>2, <3>4, <3>7
      <4>2. \A u \in Task, q \in Repo : Stage(u, q)' = Stage(u, q)
        BY <3>1, <4>1, StageKept DEF HasPR
      <4> QED
        BY <4>2 DEF Stages
    <3> QED
      BY <3>6, <3>7
  <2>3. CASE Commit(t)
    <3>0. pc[t] \in AtEntry
      BY <2>3 DEF Commit, AtEntry
    <3>00. PICK r \in Repo : r = This(t).repo
      BY <2>0, <3>0
    <3>1. /\ branch' = [branch EXCEPT ![t][r] = "edited"]
          /\ UNCHANGED <<pushed, prs>> /\ branch[t][r] = "base"
      BY <2>0, <2>3, <3>00 DEF Commit, EntryStands
    <3>2. /\ branch'[t][r] = "edited"
          /\ \A u \in Task, q \in Repo : <<u, q>> # <<t, r>> => branch'[u][q] = branch[u][q]
      BY <2>0, <3>1
    <3>3. \A u \in Task, q \in Repo : <<u, q>> # <<t, r>> => Stage(u, q)' = Stage(u, q)
      BY <3>1, <3>2, StageKept DEF HasPR
    <3>4. Stage(t, r) = "branch"
      BY <3>1, StageIs
    <3>5. ~pushed[t][r] /\ ~HasPR(t, r)
      BY <3>1 DEF WalkInv, GitInv, HasPR
    <3>6. Stage(t, r)' = "commit"
      BY <3>1, <3>2, <3>5, StageBecomes DEF HasPR
    <3> QED
      BY <3>1, <3>3, <3>4, <3>6, StageMoves, AfterIs
  <2>4. CASE Push(t)
    <3>0. pc[t] \in AtEntry
      BY <2>4 DEF Push, AtEntry
    <3>00. PICK r \in Repo : r = This(t).repo
      BY <2>0, <3>0
    <3>1. /\ pushed' = [pushed EXCEPT ![t][r] = TRUE]
          /\ UNCHANGED <<branch, prs>> /\ branch[t][r] = "edited" /\ ~pushed[t][r]
      BY <2>0, <2>4, <3>00 DEF Push, EntryStands
    <3>2. /\ pushed'[t][r] = TRUE
          /\ \A u \in Task, q \in Repo : <<u, q>> # <<t, r>> => pushed'[u][q] = pushed[u][q]
      BY <2>0, <3>1
    <3>3. \A u \in Task, q \in Repo : <<u, q>> # <<t, r>> => Stage(u, q)' = Stage(u, q)
      BY <3>1, <3>2, StageKept DEF HasPR
    <3>4. Stage(t, r) = "commit"
      BY <3>1, StageIs
    <3>5. ~HasPR(t, r)
      BY <3>1 DEF WalkInv, GitInv, HasPR
    <3>6. Stage(t, r)' = "pushed"
      BY <3>1, <3>2, <3>5, StageBecomes DEF HasPR
    <3> QED
      BY <3>1, <3>3, <3>4, <3>6, StageMoves, AfterIs
  <2>5. CASE CreatePR(t)
    <3>0. pc[t] \in AtEntry
      BY <2>5 DEF CreatePR, AtEntry
    <3>00. PICK r \in Repo : r = This(t).repo
      BY <2>0, <3>0
    <3>1. /\ UNCHANGED <<branch, pushed>>
          /\ pushed[t][r] /\ ~HasPR(t, r)
      BY <2>0, <2>5, <3>00 DEF CreatePR, EntryStands, HasPR, Record
    <3>2. PICK p : p.task = t /\ p.repo = r /\ prs' = prs \cup {p}
      <4>1. PICK draft \in {work[t].draft, FALSE} :
              prs' = prs \cup {[task |-> t, repo |-> r, asked |-> work[t].draft,
                                draft |-> draft, edit |-> work[t]]}
        BY <2>5, <3>00 DEF CreatePR
      <4> QED
        BY <4>1
    <3>3. \A u \in Task, q \in Repo : <<u, q>> # <<t, r>> => HasPR(u, q)' = HasPR(u, q)
      BY <3>2 DEF HasPR
    <3>4. \A u \in Task, q \in Repo : <<u, q>> # <<t, r>> => Stage(u, q)' = Stage(u, q)
      BY <3>1, <3>3, StageKept
    <3>5. Stage(t, r) = "pushed"
      BY <3>1, StageIs
    <3>6. Stage(t, r)' = "open"
      BY <3>2, StageBecomes DEF HasPR
    <3> QED
      BY <3>1, <3>4, <3>5, <3>6, StageMoves, AfterIs
  <2> QED
    BY <1>4, <2>1, <2>2, <2>3, <2>4, <2>5 DEF Step
<1> QED
  BY <1>2, <1>3, <1>4 DEF Next

\* A change goes out by one stage at a time, never back and never twice.
THEOREM WalkImplementsPublication == Spec => ImplementsPublication
<1>1. WalkInv /\ WalkInv' /\ [Next]_vars => [Out!PublicationNext]_Stages
  BY StagesNext
<1>2. Init => Out!PublicationInit
  BY StagesInit
<1> QED
  BY <1>1, <1>2, WalkStands, PTL DEF Spec, ImplementsPublication, Out!PublicationSpec, Stages
=============================================================================
