---------------------------- MODULE MCTaskFlow ----------------------------
(* Small instances of TaskFlow.                                            *)
EXTENDS TaskFlow

\* A file of HEAD and a new one: staged, unstaged and untracked changes, of planned and
\* of unplanned files.
FewFiles == {"first", "new"}
Files == {"first", "new", "blank"}
Created == {"new"}

\* Any of the files, or both: a plan may leave out what the coder edits.
FewPlans == {{"first"}, {"new"}, {"first", "new"}}
SomePlans == {{"first", "new"}, {"blank"}}

\* The third file of HEAD only ever changes its white space.
NoneCosmetic == {}
BlankCosmetic == {{"blank"}}

WaitingOnly == {"WAITING_APPROVAL"}
=============================================================================
