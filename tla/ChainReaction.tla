--------------------------- MODULE ChainReaction ---------------------------
(***************************************************************************)
(* How work spreads to other repositories.  An execution may leave chain   *)
(* requests behind: for the repositories its diff has an impact on, for    *)
(* the owners of names it could not find, or for the repository that has   *)
(* to hold a state.  Each request becomes a task whose execution may leave *)
(* requests again.                                                         *)
(*                                                                         *)
(* Executions share nothing but the requests, so one at a time is enough;  *)
(* they are taken in the order of the queue.  The table and the links of a *)
(* family are in TaskQueue.                                                *)
(***************************************************************************)
EXTENDS Naturals, Sequences, FiniteSets, Functions

CONSTANTS
    Repo,           \* the repositories anybody can name
    Local,          \* those this system has a copy of
    MaxImpactTasks, \* tasks of one impact analysis (three in chain_reaction.go)
    RootDepth,      \* the depths a client may send
    EnvDepth        \* SWARM_CHAIN_DEPTH, or its default

ASSUME ChainAssumption ==
    /\ IsFiniteSet(Repo) /\ Local \subseteq Repo
    /\ MaxImpactTasks \in Nat
    /\ RootDepth \subseteq Nat
    /\ EnvDepth \in Nat

VARIABLES
    requests,   \* every request of the family, in the order of created_at
    finished    \* how many of them were executed

chainVars == <<requests, finished>>

\* target_repo, depth, parent_repos and adds_state of a StatelessRequest.
Request == [repo : Repo, depth : Nat, parents : Seq(Repo), addsState : BOOLEAN]

ChainTypeOK ==
    /\ requests \in Seq(Request)
    /\ finished \in 0..Len(requests)

ChainInit ==
    /\ \E r \in Repo, d \in RootDepth :
          requests = <<[repo |-> r, depth |-> d, parents |-> <<>>, addsState |-> FALSE]>>
    /\ finished = 0

-----------------------------------------------------------------------------
\* chainDepth: what the request says, or the default.
ChainDepth(d) == IF d > 0 THEN d ELSE EnvDepth

Visited(q) == Range(q.parents) \cup {q.repo}

\* The repositories a chain may go on to: neither this one nor one on the way.
Fresh(q) == Repo \ Visited(q)

\* Mutant: the depth is handed on as it is.
ChildSameDepth(q, r, state) ==
    [repo |-> r, depth |-> ChainDepth(q.depth), parents |-> Append(q.parents, q.repo),
     addsState |-> state]

Child(q, r, state) ==
    [repo |-> r, depth |-> ChainDepth(q.depth) - 1, parents |-> Append(q.parents, q.repo),
     addsState |-> state]

\* An execution of q that leaves `left`.
Leave(left) ==
    /\ finished' = finished + 1
    /\ requests' = requests \o left

\* Takes up q, with a copy to work in and depth to spend.
MaySpread(q) ==
    /\ q = requests[finished + 1]
    /\ q.repo \in Local
    /\ ChainDepth(q.depth) > 0

-----------------------------------------------------------------------------
\* No chain: nothing to hand on, no depth left, no copy to work in.
NoChain(q) ==
    /\ q = requests[finished + 1]
    /\ Leave(<<>>)

\* triggerChainReaction, once the review is through: any of the repositories the
\* analysis is sure of, cut to MaxImpactTasks; it may name one twice, and none of
\* them needs a copy.
Impact(q) ==
    /\ MaySpread(q)
    /\ \E n \in 1..MaxImpactTasks : \E hit \in [1..n -> Fresh(q)] :
          Leave([k \in 1..n |-> Child(q, hit[k], FALSE)])

\* blockedByMissingContract, out of attempts: the owners of the missing names, one
\* request each (in no order: a map).
MissingContract(q) ==
    /\ MaySpread(q)
    /\ \E n \in 1..Cardinality(Fresh(q) \cap Local) :
       \E owner \in Injection(1..n, Fresh(q) \cap Local) :
          Leave([k \in 1..n |-> Child(q, owner[k], FALSE)])

\* Mutant: who makes the state asks for it again.
MissingStateAlways(q) ==
    /\ MaySpread(q)
    /\ \E r \in Local : Leave(<<Child(q, r, TRUE)>>)

\* stopIfStateMissing, for a task that does not make the state itself: one request,
\* to the owner of the contract wherever that is, or to the first repository
\* RouteRepos names that is fresh and here (one of those as well).
MissingState(q) ==
    /\ MaySpread(q)
    /\ ~q.addsState
    /\ \E r \in Local : Leave(<<Child(q, r, TRUE)>>)

Execute(q) == NoChain(q) \/ Impact(q) \/ MissingContract(q) \/ MissingState(q)

ChainNext == finished < Len(requests) /\ Execute(requests[finished + 1])

ChainSpec == ChainInit /\ [][ChainNext]_chainVars

-----------------------------------------------------------------------------
(* Properties.                                                             *)

\* What stops a chain whatever its depth: a repository comes back on a path only to be
\* given a state, and not twice in a row, so no path is longer than this.
PathIsBounded ==
    \A k \in 1..Len(requests) : Len(requests[k].parents) < 2 * Cardinality(Repo)

\* The depth of the root bounds the paths of its family.
\* Kept when SWARM_CHAIN_DEPTH is 0, documented and not kept otherwise: depth 0 is
\* renewed in every generation.  internal/orchestrator/chain_depth.go:19-20: the depth
\* goes down, so the chain does not spread for ever.
DepthBoundsPath ==
    \A k \in 1..Len(requests) :
        Len(requests[k].parents) <= ChainDepth(requests[1].depth)
=============================================================================
