------------------------------ MODULE Settings ------------------------------
(***************************************************************************)
(* One setting (primary_model) and those who read and save it: executions  *)
(* of tasks (loadModels), the settings page, which repairs what it reads,  *)
(* and the two forms that save.  GetSetting reads through a Redis cache    *)
(* whose entries live an hour; SaveSetting writes the database and then    *)
(* the cache.  None of this holds a lock, and an error of Redis or of the  *)
(* database leaves no more than a line of log.                             *)
(***************************************************************************)
EXTENDS Naturals

CONSTANTS
    Model,          \* the names that the setting can hold
    Embedding,      \* those that only embed, and cannot answer (bge-m3)
    Default,        \* the name that the page and the runs fall back to
    Person,         \* requests to the page or to a form, at one time
    Run,            \* the execution that loads its models
    Unset, NoEntry, \* "" as a value, and no row or no cache entry
    MaxSaves        \* bound on the saves

ASSUME SettingsAssumption ==
    /\ Embedding \subseteq Model /\ Default \in Model \ Embedding
    /\ Unset \notin Model /\ NoEntry \notin Model \cup {Unset}
    /\ Run \notin Person /\ MaxSaves \in Nat

Value == Model \cup {Unset}
Actor == Person \cup {Run}

VARIABLES
    row,        \* the row of the database
    cached,     \* the entry in Redis
    doing,      \* where each actor stands, and the value it holds
    saves       \* how many saves were begun

settingVars == <<row, cached, doing, saves>>

Idle == [at |-> "idle", value |-> Unset]

SettingsInit ==
    /\ row \in Value \cup {NoEntry} /\ cached = NoEntry
    /\ doing = [a \in Actor |-> Idle] /\ saves = 0

Step(a, from, to, v) ==
    /\ doing[a].at = from
    /\ doing' = [doing EXCEPT ![a] = [at |-> to, value |-> v]]

----------------------------------------------------------------------------
(* GetSetting.                                                             *)

\* Redis answers, or it has no entry or an error and the database is asked.
Ask(a) ==
    /\ \/ cached # NoEntry /\ Step(a, "idle", "told", cached)
       \/ Step(a, "idle", "reading", Unset)
    /\ UNCHANGED <<row, cached, saves>>

\* No row, and an error, are told as "".
Read(a) ==
    /\ \/ row # NoEntry /\ Step(a, "reading", "filling", row)
       \/ Step(a, "reading", "told", Unset)
    /\ UNCHANGED <<row, cached, saves>>

\* The entry is set with its hour to live, even over a newer one.
Fill(a) ==
    /\ Step(a, "filling", "told", doing[a].value)
    /\ \/ cached' = doing[a].value
       \/ UNCHANGED cached
    /\ UNCHANGED <<row, saves>>

----------------------------------------------------------------------------
(* SaveSetting.                                                            *)

Save(a, from, v) ==
    /\ saves < MaxSaves /\ saves' = saves + 1
    /\ \/ row' = v /\ Step(a, from, "caching", v)
       \/ UNCHANGED row /\ Step(a, from, "idle", Unset)
    /\ UNCHANGED cached

\* and the message it publishes has no reader in this program
SetCache(a) ==
    /\ Step(a, "caching", "idle", Unset)
    /\ \/ cached' = doing[a].value
       \/ UNCHANGED cached
    /\ UNCHANGED <<row, saves>>

\* HandleUpdateSettings: the page's form refuses an embedding model, the
\* form of the API takes any name, and both take "".
SaveForm(a) == \E v \in Value : Save(a, "idle", v)

\* HandleSettings, once it has read: what cannot answer is replaced.
MustBeReplaced(v) == v = Unset \/ v \in Embedding

Repair(a) == MustBeReplaced(doing[a].value) /\ Save(a, "told", Default)

ShowPage(a) ==
    /\ ~ MustBeReplaced(doing[a].value)
    /\ Step(a, "told", "idle", Unset)
    /\ UNCHANGED <<row, cached, saves>>

ExpireNever == FALSE /\ UNCHANGED settingVars

\* An hour has passed since the entry was set.
Expire ==
    /\ cached # NoEntry
    /\ cached' = NoEntry
    /\ UNCHANGED <<row, doing, saves>>

GetSetting(a) == Ask(a) \/ Read(a) \/ Fill(a)

PersonStep(a) == GetSetting(a) \/ SaveForm(a) \/ SetCache(a) \/ Repair(a) \/ ShowPage(a)

----------------------------------------------------------------------------
(* A read that began before a save may fill the cache after it, and two    *)
(* saves may reach the cache in the other order than the database: the     *)
(* old value is then served to every run.  Nothing but the hour ends it.   *)

\* Once no one saves any more, what Redis serves is in the end what the
\* database holds.
StaleEnds == <>[](cached \in {row, NoEntry})
=============================================================================
