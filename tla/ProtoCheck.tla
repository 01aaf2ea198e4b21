----------------------------- MODULE ProtoCheck -----------------------------
(***************************************************************************)
(* What is read off a change of contracts before it is handed over         *)
(* (CheckProtoChange and the gates of state changes): a build does not see *)
(* a contract, so everything that can be counted is counted.               *)
(*                                                                         *)
(* A block is one declaration at its place in a file, absent or with a     *)
(* header and members; it keeps its place while its lines change.  The     *)
(* diff of a block is its removed and added lines.  front says that added  *)
(* members stand directly under the header.                                *)
(***************************************************************************)
EXTENDS Integers, FiniteSets, FiniteSetsExt

CONSTANTS
    Block,
    PackageOf,      \* file -> package
    Scalar,         \* the types that proto knows (protoScalars)
    Suffixed,       \* message names off the habit of the contract, if it has one
    Neutral,        \* names of enum values that mean "not set"
    MinHabit,       \* minHabitSamples
    NoDecl          \* a block that is not there

ASSUME ProtoAssumption == MinHabit \in Nat

\* A member: a field that the patterns read, a field they do not read (map), an
\* rpc, a value of an enum.  tail is the last part of its name.
Member(kind, name, tail, type, num) ==
    [kind |-> kind, name |-> name, tail |-> tail, type |-> type, num |-> num]
Decl(file, kind, name, members) ==
    [file |-> file, kind |-> kind, name |-> name, members |-> members, front |-> FALSE]

Members(d) == IF d = NoDecl THEN {} ELSE d.members
Of(kind, S) == {m \in S : m.kind = kind}
Fields(d) == Of("field", Members(d))
IsState(m) == m.kind = "field" /\ m.tail \in {"status", "state"}

(* The diff from old to new.                                               *)
AddedIn(old, new, b) == Members(new[b]) \ Members(old[b])
RemovedIn(old, new, b) == Members(old[b]) \ Members(new[b])
Added(old, new) == UNION {AddedIn(old, new, b) : b \in Block}
Removed(old, new) == UNION {RemovedIn(old, new, b) : b \in Block}

Present(w) == {b \in Block : w[b] # NoDecl}
Named(w, kind) == {b \in Present(w) : w[b].kind = kind}
OpenedNew(old, new) ==
    {b \in Present(new) : \/ old[b] = NoDecl
                          \/ <<old[b].kind, old[b].name>> # <<new[b].kind, new[b].name>>}
Touched(old, new) ==
    {new[b].file : b \in {x \in Present(new) : old[x] # new[x]}}
    \cup {old[b].file : b \in {x \in Present(old) : old[x] # new[x]}}
TouchedBlocks(old, new) == {b \in Present(new) : new[b].file \in Touched(old, new)}
-----------------------------------------------------------------------------
(* The checks, each true where it finds something.                         *)

DuplicateDecls(old, new) ==
    \E b \in TouchedBlocks(old, new), c \in Present(new) :
        /\ b # c
        /\ new[b].name = new[c].name
        /\ PackageOf[new[b].file] = PackageOf[new[c].file]

DuplicateFieldNumbers(old, new) ==
    \E b \in TouchedBlocks(old, new) \cap Named(new, "message") :
        \E m, n \in Fields(new[b]) : m # n /\ m.num = n.num

\* Mutant: a field whose number is used again counts as changed, not as removed.
RemovedForGood(old, new) ==
    \E m \in Removed(old, new) :
        m.kind \in {"field", "rpc"} /\ \A n \in Added(old, new) : n.num # m.num

ChangedExisting(old, new) ==
    \E m \in Removed(old, new) : m.kind \in {"field", "rpc"}

NewServiceBesideOne(old, new) ==
    LET added == {new[b].name : b \in OpenedNew(old, new) \cap Named(new, "service")}
    IN  /\ added # {}
        /\ \E b \in TouchedBlocks(old, new) \cap Named(new, "service") : new[b].name \notin added

\* Mutant: the next number is one too far.
FieldNumberSteps(old, new) ==
    \E b \in TouchedBlocks(old, new) \cap Named(new, "message") :
        LET here == Of("field", AddedIn(old, new, b))
            before == {m.num : m \in Fields(new[b]) \ here}
        IN  before # {} /\ \E m \in here : m.num >= Max(before) + Cardinality(here)

\* Which fields of a message are new is told by their name and number alone.
FieldNumberGaps(old, new) ==
    LET added == {<<m.name, m.num>> : m \in Of("field", Added(old, new))}
    IN  \E b \in TouchedBlocks(old, new) \cap Named(new, "message") :
          LET here == {m \in Fields(new[b]) : <<m.name, m.num>> \in added}
              before == {m.num : m \in Fields(new[b]) \ here}
          IN  /\ before # {}
              /\ \E m \in here : m.num > Max(before) + Cardinality(here)

EnumZeroMeansSomething(old, new) ==
    \E b \in OpenedNew(old, new) \cap Named(new, "enum") :
        \E m \in AddedIn(old, new, b) : m.num = 0 /\ m.name \notin Neutral

\* Short tails (id, no) mean nothing.
SameNameDifferentType(old, new) ==
    \E m, n \in Of("field", Added(old, new)) :
        /\ m.tail = n.tail /\ m.tail \notin {"id", "no"}
        /\ m.type # n.type /\ {m.type, n.type} \ Scalar # {}

\* The lines after a new header count until the first that is not new.
FieldsUnderHeader(old, new, b) ==
    IF old[b] = NoDecl THEN Fields(new[b])
    ELSE IF new[b].front THEN Of("field", AddedIn(old, new, b)) ELSE {}
EmptyNewMessage(old, new) ==
    \E b \in OpenedNew(old, new) \cap Named(new, "message") :
        FieldsUnderHeader(old, new, b) = {}

\* Suffixed holds the names of the shape that the contract avoids (XxxRequest);
\* a name that HEAD declares is left alone.
SuffixNameOffHabit(old, new) ==
    \E b \in OpenedNew(old, new) \cap Named(new, "message") :
        /\ new[b].name \in Suffixed
        /\ \A c \in Present(old) : old[c].name # new[b].name

\* The habit is counted in the worktree, without the lines just added to it;
\* with few fields it is none.
StateFields(S, t) == {m \in S : IsState(m) /\ m.type = t}
CountStates(old, new, t) ==
    MapThenSumSet(LAMBDA b : Cardinality(StateFields(Members(new[b]), t))
                             - Cardinality(StateFields(AddedIn(old, new, b), t)), Block)
StateTypes(w) == {m.type : m \in {x \in UNION {Members(w[b]) : b \in Block} : IsState(x)}}
StateFieldTypeOffHabit(old, new) ==
    LET habit == {t \in StateTypes(new) : CountStates(old, new, t) > 0}
        total == MapThenSumSet(LAMBDA t : CountStates(old, new, t), habit)
        enums == {new[b].name : b \in Named(new, "enum")}
    IN  /\ total >= MinHabit
        /\ \E m \in Added(old, new) : IsState(m) /\ m.type \notin habit \cup enums

CheckProtoChange(old, new) ==
    /\ Touched(old, new) # {}
    /\ \/ DuplicateDecls(old, new)
       \/ DuplicateFieldNumbers(old, new)
       \/ ChangedExisting(old, new)
       \/ NewServiceBesideOne(old, new)
       \/ FieldNumberGaps(old, new)
       \/ EnumZeroMeansSomething(old, new)
       \/ SameNameDifferentType(old, new)
       \/ EmptyNewMessage(old, new)
       \/ SuffixNameOffHabit(old, new)
       \/ StateFieldTypeOffHabit(old, new)
-----------------------------------------------------------------------------
(* The gates of a task that makes the place for a state.                   *)

StateChangeNeedsAnRPC(old, new) ==
    /\ \E m \in Added(old, new) : IsState(m)
    /\ Of("rpc", Added(old, new)) = {}

\* Fields stand only in messages just opened; any other message will do.
FieldWentIntoNewMessage(old, new) ==
    LET inNew(b) == /\ b \in OpenedNew(old, new) \cap Named(new, "message")
                    /\ old[b] = NoDecl \/ new[b].front
        fields(b) == Of("field", AddedIn(old, new, b))
    IN  /\ \E b \in Block : inNew(b) /\ fields(b) # {}
        /\ \A b \in Block : ~inNew(b) => fields(b) = {}

\* gateChecks, those of them that read contracts.
GateHolds(old, new, addsState, named) ==
    /\ addsState => ~StateChangeNeedsAnRPC(old, new)
    /\ named => ~FieldWentIntoNewMessage(old, new)
    /\ ~CheckProtoChange(old, new)
=============================================================================
