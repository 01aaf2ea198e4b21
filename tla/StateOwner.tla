----------------------------- MODULE StateOwner -----------------------------
(***************************************************************************)
(* A new feature whose state has no place in its repository: the question  *)
(* before the code is written (stopIfStateMissing), the search for the     *)
(* repository and the message that the state belongs to                    *)
(* (ownerRepoForState, fillStateType) and the request that is left there   *)
(* (chainForMissingState, stateChainRequest).                              *)
(*                                                                         *)
(* Every answer of a model is one of the answers that its parser accepts,  *)
(* or none.  Contracts are generated files of this repository, each        *)
(* published by one repository and, where a copy of the original is held,  *)
(* traced back to it.                                                      *)
(***************************************************************************)
EXTENDS Integers, Sequences, FiniteSets, SequencesExt

CONSTANTS
    Contract,
    Repo,           \* the other repositories
    Held,           \* those of which a copy is held here
    Passed,         \* those that the chain has passed already (ParentRepos)
    Type,           \* names of types
    OwnerOf,        \* protoOwnerRepo of a contract
    Original,       \* protoSource of a contract: the repository, or None
    Messages,       \* repository -> names of messages declared at its HEAD
    Enums,          \* repository -> names of enums declared there
    Home,           \* typeHome in this repository: a contract, "hand" or None
    HandTrace,      \* the contract that a hand-written type's file leads to, or None
    Traces,         \* what the planned files may lead to: sets of contracts
    Scans,          \* what reading the whole repository may give
    Margin,         \* scoreMargin
    Score,          \* scores of a contract; -1: none was readable
    Plannings,      \* bound: attempts at planning
    None

ASSUME OwnerAssumption ==
    /\ Held \subseteq Repo /\ Passed \subseteq Repo
    /\ OwnerOf \in [Contract -> Repo]
    \* both are "proto-" and the directory that the generated file lies in
    /\ Original \in [Contract -> Held \cup {None}]
    /\ \A c \in Contract : Original[c] \in {OwnerOf[c], None}
    /\ {Messages, Enums} \subseteq [Repo -> SUBSET Type]
    /\ Home \in [Type -> Contract \cup {"hand", None}]
    /\ HandTrace \in [Type -> Contract \cup {None}]
    /\ Traces \subseteq SUBSET Contract
    /\ Scans \subseteq [found : SUBSET Contract, complete : BOOLEAN]
    /\ Margin \in Nat \ {0} /\ -1 \in Score /\ 0 \in Score /\ Score \subseteq Int
    /\ None \notin Contract \cup Repo \cup Type \cup {"hand"} /\ Plannings \in Nat \ {0}

VARIABLES
    place,
    attempt,
    traced, menu,   \* contracts that the files lead to, and all candidates
    how,            \* the way the contract was found
    unfit,          \* candidates that were scored 0
    stateType,      \* t.stateType
    request         \* what is left to another repository

searchVars == <<traced, menu, how, unfit, stateType>>
ownerVars == <<place, attempt, searchVars, request>>

Request == [repo : Held, type : Type \cup {None}, proto : Contract \cup {None}]
ParentPlace == {"planning", "search", "score", "subset", "type", "route"}
ParentEnd == {"coding", "skipped", "handed", "gave_up"}

OwnerTypeOK ==
    /\ attempt \in 1..Plannings
    /\ {traced, menu, unfit} \subseteq SUBSET Contract
    /\ how \in {"", "pick", "trace", "type", "route"}
    /\ stateType \in Type \cup {None}
    /\ request \in Request \cup {None}

OwnerInit ==
    /\ place = "planning" /\ attempt = 1
    /\ traced = {} /\ menu = {} /\ unfit = {} /\ how = ""
    /\ stateType = None /\ request = None
-----------------------------------------------------------------------------
(* Questions that are asked several times.                                 *)

Votes(s, x) == Cardinality({i \in DOMAIN s : s[i] = x})

\* The answer given most often, of equal ones the first.
MajorityOf(s) ==
    IF s = <<>> THEN None
    ELSE s[CHOOSE i \in DOMAIN s : \A j \in DOMAIN s :
             \/ Votes(s, s[i]) > Votes(s, s[j])
             \/ Votes(s, s[i]) = Votes(s, s[j]) /\ i <= j]

\* What three questions may lead to when each is answered out of S or not.
Answers(S) == UNION {[1..n -> S] : n \in 0..3}
Elected(S) == {MajorityOf(s) : s \in Answers(S)}

\* A first line that says NONE names what is missing in the lines after it;
\* without them the answer counts like one that names a place.
StateMissing(s) == 2 * Votes(s, "none_named") > Len(s)
-----------------------------------------------------------------------------
(* The question before the code.                                           *)

\* A plan that does not stand is made again in the next attempt.
PlanAgain ==
    /\ place = "planning"
    /\ IF attempt < Plannings
         THEN attempt' = attempt + 1 /\ UNCHANGED place
         ELSE place' = "gave_up" /\ UNCHANGED attempt
    /\ UNCHANGED <<searchVars, request>>

\* Only the first attempt asks.
CodeUnasked ==
    /\ place = "planning" /\ attempt > 1
    /\ place' = "coding"
    /\ UNCHANGED <<attempt, searchVars, request>>

\* The planned files first and then, when there was no answer at all, more of
\* them; still none means that the code is written.
AskState ==
    /\ place = "planning" /\ attempt = 1
    /\ \E s \in Answers({"have", "none_named", "none_bare"}) :
         IF s # <<>> /\ StateMissing(s)
           THEN place' \in {"search", "skipped"}      \* skipped: no depth is left
           ELSE place' = "coding"
    /\ UNCHANGED <<attempt, searchVars, request>>
-----------------------------------------------------------------------------
(* The contract.                                                           *)

\* traceContracts over the planned files, then over those of the analysis, and
\* repoContracts over everything, which counts only when nothing was left out.
Search ==
    /\ place = "search"
    /\ \E planned, wider \in Traces, scan \in Scans :
         /\ traced' = IF planned # {} THEN planned ELSE wider
         /\ menu' = traced' \cup (IF scan.complete THEN scan.found ELSE {})
    /\ place' = IF menu' = {} THEN "type" ELSE "score"
    /\ UNCHANGED <<attempt, how, unfit, stateType, request>>

\* bestByScore and the choice that pickContractAmong makes by it.  Without a
\* clear first one, pairs of all candidates are compared (tournamentPick): any
\* of them may come out.
Read(sc) == {c \in DOMAIN sc : sc[c] >= 0}
Clear(sc, c) == \A d \in Read(sc) \ {c} : sc[c] - sc[d] >= Margin

\* Mutant: no readable score counts as a rejection and nothing else does.
RejectedUnread(sc) == Read(sc) = {}

Rejected(sc) == Read(sc) # {} /\ \A c \in Read(sc) : sc[c] <= 0
Picks(sc) ==
    IF Read(sc) = {} \/ Rejected(sc) THEN {}
    ELSE LET first == {c \in Read(sc) : Clear(sc, c)}
         IN  IF first # {} THEN first ELSE DOMAIN sc

\* Mutant: a name that this repository knows is enough.
FilledFromHere(owner) == {n \in Elected(Type) : n = None \/ Home[n] # None}

\* fillStateType: a name that the owner declares, or else one of its messages.
FilledTypes(owner) ==
    LET declared == Messages[owner] \cup Enums[owner]
        again == IF Messages[owner] = {} THEN {None} ELSE Elected(declared)
    IN  UNION {IF n = None THEN {None}
               ELSE IF owner \in Held
                 THEN IF n \in declared THEN {n} ELSE again
                 ELSE IF Home[n] # None THEN {n} ELSE {None}
               : n \in Elected(Type)}

\* resolveTracedOwner: the original where there is one, or the owner itself.
Resolve(c) ==
    IF Original[c] # None THEN [repo |-> Original[c], proto |-> c]
    ELSE [repo |-> IF OwnerOf[c] \in Held THEN OwnerOf[c] ELSE None, proto |-> None]

HandOrRoute(c, type, way) ==
    LET r == Resolve(c)
    IN  IF r.repo # None
          THEN /\ request' = [repo |-> r.repo, type |-> type, proto |-> r.proto]
               /\ place' = "handed" /\ how' = way
          ELSE place' = "route" /\ UNCHANGED <<request, how>>

Take(c, way) ==
    \E n \in FilledTypes(OwnerOf[c]) : stateType' = n /\ HandOrRoute(c, n, way)

ScoreAll ==
    /\ place = "score"
    /\ \E sc \in [menu -> Score] :
         /\ unfit' = {c \in menu : sc[c] = 0}
         /\ \/ \E c \in Picks(sc) : Take(c, "pick")
            \/ /\ Picks(sc) = {} /\ ~Rejected(sc) /\ Cardinality(traced) = 1
               /\ \E c \in traced : Take(c, "trace")
            \/ /\ Picks(sc) = {}
               /\ Rejected(sc) \/ Cardinality(traced) # 1
               /\ place' = IF ~Rejected(sc) /\ Cardinality(traced) > 1 THEN "subset" ELSE "type"
               /\ UNCHANGED <<how, stateType, request>>
    /\ UNCHANGED <<attempt, traced, menu>>

\* The candidates that the files lead to once more.
ScoreTraced ==
    /\ place = "subset"
    /\ \E sc \in [traced -> Score] :
         \/ \E c \in Picks(sc) : Take(c, "trace")
         \/ Picks(sc) = {} /\ place' = "type" /\ UNCHANGED <<how, stateType, request>>
    /\ UNCHANGED <<attempt, traced, menu, unfit>>
-----------------------------------------------------------------------------
(* The type, and at last any repository.                                   *)

AskType ==
    /\ place = "type"
    /\ \E n \in Elected(Type) :
         /\ stateType' = n
         /\ LET home == IF n = None THEN None ELSE Home[n]
                c == IF home = "hand" THEN HandTrace[n] ELSE home
            IN  IF c # None THEN HandOrRoute(c, n, "type")
                ELSE place' = "route" /\ UNCHANGED <<how, request>>
    /\ UNCHANGED <<attempt, traced, menu, unfit>>

\* RouteRepos names repositories; the first that is held and was not passed
\* is taken.
Route ==
    /\ place = "route"
    /\ \/ \E r \in Held \ Passed :
            /\ request' = [repo |-> r, type |-> stateType, proto |-> None]
            /\ place' = "handed" /\ how' = "route"
       \/ place' = "skipped" /\ UNCHANGED <<request, how>>
    /\ UNCHANGED <<attempt, traced, menu, unfit, stateType>>

OwnerNext ==
    \/ PlanAgain \/ CodeUnasked \/ AskState \/ Search
    \/ ScoreAll \/ ScoreTraced \/ AskType \/ Route
-----------------------------------------------------------------------------
(* Properties of the search.                                               *)

\* A message that the request names because a contract was chosen is one that
\* the chosen owner declares at its HEAD, whatever the models answered: the
\* child is told to change it and not to make it (fillStateType).
NamedTypeIsThere ==
    place = "handed" /\ how \in {"pick", "trace"} /\ request.type # None
        => request.type \in Messages[request.repo] \cup Enums[request.repo]

\* After the answer that none of the candidates fits, the chain goes on only
\* by a type that was asked for, never by what the files lead to.
RejectedStays ==
    place = "handed" /\ menu # {} /\ unfit = menu => how \in {"type", "route"}

\* Documented, not kept.  internal/orchestrator/owner_of_state.go:351-352: any named
\* type is a message of the owner's, whichever way the request came about.
HandedTypeExists ==
    place = "handed" /\ request.type # None
        => request.type \in Messages[request.repo] \cup Enums[request.repo]
=============================================================================
