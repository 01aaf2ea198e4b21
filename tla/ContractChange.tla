--------------------------- MODULE ContractChange ---------------------------
(***************************************************************************)
(* A state without a place, from the question of the parent task to the    *)
(* contract that its child hands over.  The parent's context is gone when  *)
(* its execution has ended; the request is all that the child knows.       *)
(*                                                                         *)
(* The child changes one block of the contract after the other, is told    *)
(* what the gates say while it is still coding (stepGateFix) and at the    *)
(* end (handOver).  None of these gates reverts the tree: the next attempt *)
(* goes on with what is there.                                             *)
(***************************************************************************)
EXTENDS StateOwner, ProtoCheck

CONSTANTS
    AtHead,           \* repository -> the blocks of its HEAD
    Versions,       \* block -> what a coder may make of it
    GateFixRounds,
    MaxAttempts

ASSUME ContractAssumption ==
    /\ GateFixRounds \in Nat /\ MaxAttempts \in Nat \ {0}
    \* what the parent sees of a repository is what stands at its HEAD
    /\ \A r \in Repo :
        /\ Messages[r] = {AtHead[r][b].name : b \in Named(AtHead[r], "message")}
        /\ Enums[r] = {AtHead[r][b].name : b \in Named(AtHead[r], "enum")}
        /\ \A b \in Block : AtHead[r][b] \in Versions[b] \cup {NoDecl}
        /\ AtHead[r] = [b \in Block |-> AtHead[r][b]]
    \* and that was compiled: a name is declared once in a package, a number is
    \* given once in a message, and only messages have fields
    /\ \A r \in Repo : \A b, c \in Present(AtHead[r]) :
        PackageOf[AtHead[r][b].file] = PackageOf[AtHead[r][c].file] /\ b # c
            => AtHead[r][b].name # AtHead[r][c].name
    /\ \A r \in Repo : \A b \in Block : \A m, n \in Fields(AtHead[r][b]) :
        m.num = n.num => m = n
    /\ \A b \in Block : \A v \in Versions[b] : v # NoDecl /\ Fields(v) # {} => v.kind = "message"
    \* a file is finite
    /\ IsFiniteSet(Block) /\ \A b \in Block : \A v \in Versions[b] : IsFiniteSet(Members(v))

VARIABLES
    work,           \* the child's worktree
    tries, rounds   \* its attempts and the gate fixes of this one

childVars == <<work, tries, rounds>>
vars == <<ownerVars, childVars>>

Old == AtHead[request.repo]
ChildPlace == {"child_coding", "child_fixing", "child_over", "child_passed", "child_failed"}
ChildEnd == {"child_passed", "child_failed"}

TypeOK ==
    /\ place \in ParentPlace \cup ParentEnd \cup ChildPlace
    /\ OwnerTypeOK
    /\ \A b \in Block : work[b] \in Versions[b] \cup {NoDecl}
    /\ tries \in 1..MaxAttempts /\ rounds \in 0..GateFixRounds

NoWork == [b \in Block |-> NoDecl]

Init ==
    /\ OwnerInit
    /\ work = NoWork /\ tries = 1 /\ rounds = 0

\* The new task: nothing of the parent is left but the request.
StartChild ==
    /\ place = "handed"
    /\ place' = "child_coding"
    /\ work' = Old
    /\ attempt' = 1 /\ how' = ""
    /\ traced' = {} /\ menu' = {} /\ unfit' = {} /\ stateType' = None
    /\ UNCHANGED <<request, tries, rounds>>

Fails == ~GateHolds(Old, work, TRUE, request.type # None)

\* One edit of one block; where the file does not have it, it is made.
Change(b) == \E v \in Versions[b] : work' = [work EXCEPT ![b] = v]

Code ==
    /\ place = "child_coding"
    /\ \E b \in Block : Change(b)
    /\ place' \in {"child_coding", "child_fixing"}
    /\ UNCHANGED <<attempt, searchVars, request, tries, rounds>>

GateFix ==
    /\ place = "child_fixing"
    /\ Fails /\ rounds < GateFixRounds
    /\ rounds' = rounds + 1
    /\ \E b \in Block : Change(b)
    /\ UNCHANGED <<place, attempt, searchVars, request, tries>>

GateFixEnds ==
    /\ place = "child_fixing"
    /\ ~Fails \/ rounds = GateFixRounds
    /\ place' = "child_over"
    /\ UNCHANGED <<attempt, searchVars, request, childVars>>

HandOver ==
    /\ place = "child_over"
    /\ IF ~Fails THEN place' = "child_passed" /\ UNCHANGED <<tries, rounds>>
       ELSE IF tries < MaxAttempts
         THEN place' = "child_coding" /\ tries' = tries + 1 /\ rounds' = 0
         ELSE place' = "child_failed" /\ UNCHANGED <<tries, rounds>>
    /\ UNCHANGED <<attempt, searchVars, request, work>>

Next ==
    \/ OwnerNext /\ UNCHANGED childVars
    \/ StartChild \/ Code \/ GateFix \/ GateFixEnds \/ HandOver

Spec == Init /\ [][Next]_vars
-----------------------------------------------------------------------------
(* Properties.                                                             *)

\* What was sent under the old contract still reads the same: a message that
\* passed keeps every field that the patterns see, with its number, its name
\* and its type, and gives no number a second meaning (changedExisting with
\* duplicateFieldNumbers).
NumbersKeepMeaning ==
    place = "child_passed" =>
        \A b \in Named(Old, "message") :
            /\ \A m \in Fields(Old[b]), n \in Fields(work[b]) : m.num = n.num => m = n
            /\ Fields(Old[b]) \subseteq Fields(work[b])

\* A name means one thing in its package after the change, above all the
\* message that the child was told not to declare again (duplicateDecls).
NamesAreUnique ==
    place = "child_passed" =>
        \A b, c \in Present(work) :
            /\ b # c /\ PackageOf[work[b].file] = PackageOf[work[c].file]
            => work[b].name # work[c].name

\* A new state has a type that the contract used for states before the change,
\* or an enum, where it used any often enough (stateFieldTypeOffHabit): the new
\* field is no habit of its own.
StateTypesStay ==
    place = "child_passed" =>
        LET before == {b \in Block : \E m \in Members(Old[b]) : IsState(m)}
            used == StateTypes(Old)
        IN  Cardinality(before) >= MinHabit
              => \A m \in Added(Old, work) :
                    IsState(m) => m.type \in used \cup {work[b].name : b \in Named(work, "enum")}

\* Where a place for the state was handed over by name, what passed is no island:
\* with fields only in messages of its own nobody would receive or return them
\* (fieldWentIntoNewMessage), and without an rpc nobody could change them.
StateIsReachable ==
    place = "child_passed" /\ request.type # None /\ Of("field", Added(Old, work)) # {} =>
        /\ \E b \in Present(Old) : Of("field", AddedIn(Old, work, b)) # {}
        /\ (\E m \in Added(Old, work) : IsState(m))
             => \E m \in Added(Old, work) : m.kind = "rpc"

\* A change that passed the gate leaves a contract that its old readers still read and
\* that its new ones can use: numbers and names mean one thing, states are typed as
\* before, and there is a way to the new state.
ContractStaysReadable ==
    TypeOK /\ NumbersKeepMeaning /\ NamesAreUnique /\ StateTypesStay /\ StateIsReachable

\* A change that does what the request asks for gets through: it only adds,
\* each field takes the next number, nothing is declared twice, new messages
\* have fields, states are typed as in the rest of the contract.  The old
\* messages number their fields without holes.
Dense(S) == {m.num : m \in S} = 1..Cardinality(S)
Proper(old, new) ==
    /\ \A b \in Block : old[b] # NoDecl =>
        /\ new[b] # NoDecl /\ new[b].kind = old[b].kind /\ new[b].name = old[b].name
        /\ Members(old[b]) \subseteq Members(new[b])
    /\ \A b \in Named(new, "message") : Dense(Fields(new[b])) /\ Fields(new[b]) # {}
    /\ \A b \in Named(old, "message") : Dense(Fields(old[b]))
    /\ \A b, c \in Present(new) : b # c => new[b].name # new[c].name
    /\ \A b \in Present(new) \ Present(old) : new[b].kind # "service" /\ new[b].name \notin Suffixed
    /\ \A b \in Named(new, "enum") : \A m \in Members(new[b]) : m.num = 0 => m.name \in Neutral
    /\ \A m, n \in Of("field", Added(old, new)) : m.tail = n.tail => m.type = n.type
    /\ \A m \in Added(old, new) : IsState(m) => m.type \in StateTypes(old)
    /\ \E b \in Present(old) : Of("field", AddedIn(old, new, b)) # {}
    /\ Of("rpc", Added(old, new)) # {}
ProperChangePasses ==
    place \in {"child_over", "child_passed", "child_failed"} /\ Proper(Old, work) => ~Fails
=============================================================================
