------------------------------ MODULE PlanVote ------------------------------
(***************************************************************************)
(* How an execution gets a plan from models: it loads the models that the  *)
(* settings name (orchestrator.loadModels), lets them vote on the plan     *)
(* (taskContext.planAttempt, voter.Vote) and takes the first answer that   *)
(* reads as a plan.  The settings, the calls and the thought stream run    *)
(* beside it.                                                              *)
(***************************************************************************)
EXTENDS ModelCalls, Settings

CONSTANTS
    Scenario,   \* what voter_models names, who comes, which answers and rows may be
    Readable    \* texts that ParsePlanWithRepo reads as a plan

ASSUME VoteAssumption ==
    /\ Readable \subseteq Text /\ Model \subseteq Caller
    /\ \A s \in Scenario :
          /\ s.voters \in Seq(Caller) /\ IsInjective(s.voters)
          /\ s.viewers \subseteq Viewer /\ s.persons \subseteq Person
          /\ s.named \in BOOLEAN /\ s.answers \subseteq Text
          /\ s.rows \subseteq Value \cup {NoEntry}

VARIABLES
    phase,      \* of the execution: load, vote, planned, failed
    scene,      \* the scenario
    plan        \* the model whose answer became the plan, Unset before

vars == <<streamVars, callVars, settingVars, phase, scene, plan>>

Init ==
    /\ scene \in Scenario
    /\ named = scene.named /\ answers = scene.answers /\ row \in scene.rows
    /\ StreamInit /\ CallInit /\ SettingsInit
    /\ phase = "load" /\ plan = Unset

----------------------------------------------------------------------------
\* primary_model is read as any setting is.
LoadPrimary ==
    /\ phase = "load" /\ GetSetting(Run)
    /\ UNCHANGED <<streamVars, callVars, phase, scene, plan>>

\* Without a list of voters the primary model votes alone.
Primary == IF doing[Run].value = Unset THEN Default ELSE doing[Run].value
VotersOf(list) == IF list = <<>> THEN <<Primary>> ELSE list

StartVote ==
    /\ phase = "load" /\ phase' = "vote"
    /\ Step(Run, "told", "over", doing[Run].value)
    /\ voters' = VotersOf(scene.voters)
    /\ call' = [c \in Caller |-> IF c \in ToSet(voters') THEN "ready" ELSE "none"]
    /\ UNCHANGED <<streamVars, named, answers, direct, reply, told, cut, stopped, row, cached, saves, scene, plan>>

Calls ==
    /\ phase = "vote"
    /\ \E c \in Asked : CallStep(c)
    /\ UNCHANGED <<settingVars, phase, scene, plan>>

\* The winner if it reads as a plan, else the first other answer that does.
FirstOf(S) == {p \in S : \A d \in S : PlaceOf(p) <= PlaceOf(d)}
Plans(w) ==
    IF Results[w] \in Readable THEN {w}
    ELSE FirstOf({d \in Answered : Results[d] # Results[w] /\ Results[d] \in Readable})

\* No answer at all is an error that planAttempt does not look at: what it
\* parses then is "", and it fails there.
TakePlan ==
    /\ phase = "vote" /\ \A c \in Asked : call[c] \in Ended
    /\ \/ /\ phase' = "planned"
          /\ \E w \in Winners : plan' \in Plans(w)
       \/ /\ phase' = "failed" /\ UNCHANGED plan
          /\ Winners = {} \/ \E w \in Winners : Plans(w) = {}
    /\ UNCHANGED <<streamVars, callVars, settingVars, scene>>

Beside ==
    /\ \/ WriteLog \/ \E v \in scene.viewers : ViewerStep(v)
    /\ UNCHANGED <<callVars, settingVars, phase, scene, plan>>

Settings ==
    /\ Expire \/ \E a \in scene.persons : PersonStep(a)
    /\ UNCHANGED <<streamVars, callVars, phase, scene, plan>>

StopTask ==
    /\ phase = "vote" /\ Stop
    /\ UNCHANGED <<settingVars, phase, scene, plan>>

Over == phase \in {"planned", "failed"}

Next == LoadPrimary \/ StartVote \/ Calls \/ TakePlan \/ StopTask \/ Beside \/ Settings

Spec == Init /\ [][Next]_vars

\* The goroutines of the execution run, and Redis drops what has expired.  A
\* server asked directly answers unless it has hung; of one behind the queue
\* nothing is asked, nor of viewers, persons, or the one who stops the task.
CallGoesOn(c) ==
    Begin(c) \/ Open(c) \/ (direct /\ Answer(c)) \/ TimeOut(c) \/ GiveUp(c) \/ Tell(c) \/ Store(c)
Fairness ==
    /\ WF_vars(LoadPrimary) /\ WF_vars(StartVote) /\ WF_vars(TakePlan)
    /\ \A c \in Caller : WF_vars(CallGoesOn(c) /\ phase = "vote" /\ UNCHANGED <<settingVars, phase, scene, plan>>)
    /\ WF_vars(Expire /\ UNCHANGED <<streamVars, callVars, phase, scene, plan>>)
FairSpec == Spec /\ Fairness

----------------------------------------------------------------------------
TypeOK ==
    /\ phase \in {"load", "vote", "planned", "failed"} /\ scene \in Scenario
    /\ plan \in Asked \cup {Unset} /\ Asked \subseteq Caller
    /\ \A c \in Caller : call[c] = "none" <=> c \notin Asked
    /\ \A c \in Caller : told[c] > 0 => reply[c] # Silence /\ told[c] <= Chunks[reply[c]]
    /\ row \in Value \cup {NoEntry} /\ cached \in Value \cup {NoEntry} /\ saves \in 0..MaxSaves
    /\ doing \in [Actor -> [at : {"idle", "reading", "filling", "told", "caching", "over"}, value : Value]]
    /\ Len(thoughtQueue) <= QueueCap /\ \A v \in Viewer : Len(chan[v]) <= ChanCap

\* The vote is not lost on a winner that cannot be read: as long as one model
\* gave a readable plan, the execution plans with a readable answer, whatever
\* answers won, failed or came late.
ReadableIsUsed ==
    Over => \/ phase = "planned" /\ Results[plan] \in Readable
            \/ \A c \in Answered : Results[c] \notin Readable

\* Models that say the same in other spacing stand together against others:
\* a readable answer that more of them gave than any other is the plan.
Same(c) == {d \in Answered : KeyOf[Results[d]] = KeyOf[Results[c]]}
MostAgreedIsPlan ==
    Over => \A c \in Answered :
        (/\ \A d \in Same(c) : Results[d] \in Readable
         /\ \A d \in Answered \ Same(c) : Cardinality(Same(d)) < Cardinality(Same(c)))
        => phase = "planned" /\ plan \in Same(c)

\* The plan is the one the models agree on among those that can be read.
VoteIsHeeded == TypeOK /\ ReadableIsUsed /\ MostAgreedIsPlan

\* A person who stops the task, or five minutes, end every call, so that the
\* vote ends.  Two calls escape the five minutes: one whose connection was
\* lost as it waited, and a direct one whose server has hung.
VoteEnds == <>Over \/ <>[](cut # {} /\ ~ stopped)
=============================================================================
