---------------------------- MODULE Publication ----------------------------
(***************************************************************************)
(* What the service promises about a change on its way out: for every task *)
(* and repository a branch is made, committed to once, pushed once and put *)
(* up for review once, in that order, whatever fails or starts over.       *)
(*                                                                         *)
(* VariantFlow implements this module.                                     *)
(***************************************************************************)
EXTENDS Naturals

CONSTANTS
    Task,       \* the executions that publish
    Repo        \* the repositories they publish to

VARIABLE stage  \* stage[t][r]: how far the change of t to r got

Stage == {"none", "branch", "commit", "pushed", "open"}

\* The step that may follow each stage.
After == [s \in Stage \ {"open"} |->
            CASE s = "none" -> "branch"
              [] s = "branch" -> "commit"
              [] s = "commit" -> "pushed"
              [] s = "pushed" -> "open"]

PublicationInit == stage = [t \in Task |-> [r \in Repo |-> "none"]]

Advance(t, r) ==
    /\ stage[t][r] # "open"
    /\ stage' = [stage EXCEPT ![t][r] = After[@]]

PublicationNext == \E t \in Task, r \in Repo : Advance(t, r)

PublicationSpec == PublicationInit /\ [][PublicationNext]_stage
=============================================================================
