----------------------- MODULE ContractChange_proofs -----------------------
(***************************************************************************)
(* What a parent leaves to the owner of a contract: proofs for every set   *)
(* of contracts, repositories and types, and every answer of the models.   *)
(***************************************************************************)
EXTENDS ContractChange, FiniteSetTheorems, WellFoundedInduction, TLAPS

-----------------------------------------------------------------------------
(* Questions that are asked several times.                                 *)

\* Of up to three answers there is a first among those given most often, so
\* that the majority is one of them (majorityOf).
LEMMA MajorityIsGiven ==
    ASSUME NEW S, NEW n \in 0..3, NEW s \in [1..n -> S], s # <<>>
    PROVE  MajorityOf(s) \in S
<1> DEFINE Best(i) == \A j \in DOMAIN s :
                         \/ Votes(s, s[i]) > Votes(s, s[j])
                         \/ Votes(s, s[i]) = Votes(s, s[j]) /\ i <= j
<1>1. DOMAIN s = 1..n
  OBVIOUS
<1>2. \A i \in 1..n : Votes(s, s[i]) \in Nat
  <2> SUFFICES ASSUME NEW i \in 1..n PROVE Votes(s, s[i]) \in Nat
    OBVIOUS
  <2>1. IsFiniteSet(1..n)
    BY FS_Interval
  <2>2. IsFiniteSet({j \in DOMAIN s : s[j] = s[i]})
    BY <1>1, <2>1, FS_Subset
  <2> QED
    BY <2>2, FS_CardinalityType DEF Votes
<1>3. n # 0
  BY <1>1
<1>4. \E i \in DOMAIN s : Best(i)
  <2> DEFINE v(i) == Votes(s, s[i])
  <2>1. \A i \in 1..n : v(i) \in Nat
    BY <1>2
  <2> HIDE DEF v
  <2>2. CASE n = 1
    <3>1. DOMAIN s = {1}
      BY <1>1, <2>2
    <3> QED
      BY <3>1, <1>2, <2>2
  <2>3. CASE n = 2
    <3>1. DOMAIN s = {1, 2}
      BY <1>1, <2>3
    <3>2. \E i \in {1, 2} : \A j \in {1, 2} : v(i) > v(j) \/ (v(i) = v(j) /\ i <= j)
      BY <2>1, <2>3
    <3> QED
      BY <3>1, <3>2 DEF v
  <2>4. CASE n = 3
    <3>1. DOMAIN s = {1, 2, 3}
      BY <1>1, <2>4
    <3>2. \E i \in {1, 2, 3} : \A j \in {1, 2, 3} : v(i) > v(j) \/ (v(i) = v(j) /\ i <= j)
      BY <2>1, <2>4
    <3> QED
      BY <3>1, <3>2 DEF v
  <2> QED
    BY <1>3, <2>2, <2>3, <2>4
<1>5. (CHOOSE i \in DOMAIN s : Best(i)) \in 1..n
  BY <1>1, <1>4
<1> QED
  BY <1>5 DEF MajorityOf

\* The questions end with one of the names that were offered, or with none.
LEMMA ElectedIsOffered ==
    ASSUME NEW S, NEW x \in Elected(S)
    PROVE  x \in S \cup {None}
<1>1. PICK n \in 0..3 : \E t \in [1..n -> S] : x = MajorityOf(t)
  BY DEF Elected, Answers
<1>2. PICK s \in [1..n -> S] : x = MajorityOf(s)
  BY <1>1
<1>3. CASE s = <<>>
  BY <1>2, <1>3 DEF MajorityOf
<1>4. CASE s # <<>>
  BY <1>2, <1>4, MajorityIsGiven
<1> QED
  BY <1>3, <1>4

\* fillStateType leaves a name that an owner with a copy here declares, or none.
LEMMA FilledIsDeclared ==
    ASSUME NEW r \in Held, NEW n \in FilledTypes(r), n # None
    PROVE  n \in Messages[r] \cup Enums[r]
<1> DEFINE declared == Messages[r] \cup Enums[r]
<1>1. \A x \in Elected(declared) : x \in declared \cup {None}
  BY ElectedIsOffered
<1> QED
  BY <1>1 DEF FilledTypes

-----------------------------------------------------------------------------
(* The search.                                                             *)

\* A contract that is handed on goes to its owner, who is held here.
LEMMA ResolvedIsOwner ==
    ASSUME NEW c \in Contract, Resolve(c).repo # None
    PROVE  Resolve(c).repo = OwnerOf[c] /\ OwnerOf[c] \in Held
BY OwnerAssumption DEF Resolve

\* What a contract that was found leaves behind it.
LEMMA TakenIsThere ==
    ASSUME NEW c \in Contract, NEW way, Take(c, way), place' = "handed", request'.type # None
    PROVE  request'.type \in Messages[request'.repo] \cup Enums[request'.repo]
<1>1. PICK n \in FilledTypes(OwnerOf[c]) : stateType' = n /\ HandOrRoute(c, n, way)
  BY DEF Take
<1>2. Resolve(c).repo # None /\ request' = [repo |-> Resolve(c).repo, type |-> n, proto |-> Resolve(c).proto]
  BY <1>1 DEF HandOrRoute
<1>3. request'.type = n /\ request'.repo = OwnerOf[c] /\ OwnerOf[c] \in Held
  BY <1>2, ResolvedIsOwner
<1> QED
  BY <1>3, FilledIsDeclared

\* A clear rejection picks nothing.
LEMMA RejectedPicksNothing ==
    ASSUME NEW sc \in [menu -> Score], menu # {}, {c \in menu : sc[c] = 0} = menu
    PROVE  Rejected(sc) /\ Picks(sc) = {}
<1>1. \A c \in menu : sc[c] = 0
  OBVIOUS
<1>2. Read(sc) = menu
  BY <1>1 DEF Read
<1>3. Rejected(sc)
  BY <1>1, <1>2 DEF Rejected
<1> QED
  BY <1>3 DEF Picks

\* Candidates are contracts; the second scoring follows no rejection.
SearchInv ==
    /\ traced \subseteq Contract /\ menu \subseteq Contract
    /\ place = "subset" => ~(menu # {} /\ unfit = menu)
    /\ NamedTypeIsThere
    /\ RejectedStays

LEMMA PicksAreScored ==
    ASSUME NEW sc, NEW c \in Picks(sc)
    PROVE  c \in DOMAIN sc
BY DEF Picks, Read

LEMMA SearchKept ==
    ASSUME SearchInv, Next
    PROVE  SearchInv'
<1> USE DEF SearchInv
<1>1. CASE OwnerNext /\ UNCHANGED childVars
  <2>1. CASE PlanAgain \/ CodeUnasked \/ AskState
    BY <2>1 DEF PlanAgain, CodeUnasked, AskState, searchVars, NamedTypeIsThere, RejectedStays
  <2>2. CASE Search
    <3>1. traced' \subseteq Contract /\ menu' \subseteq Contract
      BY <2>2, OwnerAssumption DEF Search
    <3> QED
      BY <2>2, <3>1 DEF Search, NamedTypeIsThere, RejectedStays
  <2>3. CASE ScoreAll
    <3>0. traced' = traced /\ menu' = menu
      BY <2>3 DEF ScoreAll
    <3>1. PICK sc \in [menu -> Score] :
            /\ unfit' = {c \in menu : sc[c] = 0}
            /\ \/ \E c \in Picks(sc) : Take(c, "pick")
               \/ /\ Picks(sc) = {} /\ ~Rejected(sc) /\ Cardinality(traced) = 1
                  /\ \E c \in traced : Take(c, "trace")
               \/ /\ Picks(sc) = {}
                  /\ Rejected(sc) \/ Cardinality(traced) # 1
                  /\ place' = IF ~Rejected(sc) /\ Cardinality(traced) > 1 THEN "subset" ELSE "type"
                  /\ UNCHANGED <<how, stateType, request>>
      BY <2>3 DEF ScoreAll
    <3>2. menu # {} /\ unfit' = menu => Rejected(sc) /\ Picks(sc) = {}
      BY <3>1, RejectedPicksNothing
    <3>3. CASE \E c \in Picks(sc) : Take(c, "pick")
      <4>1. PICK c \in Picks(sc) : Take(c, "pick")
        BY <3>3
      <4>2. c \in Contract
        BY <3>1, PicksAreScored
      <4>3. place' \in {"handed", "route"}
        BY <4>1 DEF Take, HandOrRoute
      <4> QED
        BY <3>0, <3>2, <4>1, <4>2, <4>3, TakenIsThere DEF NamedTypeIsThere, RejectedStays
    <3>4. CASE /\ Picks(sc) = {} /\ ~Rejected(sc) /\ Cardinality(traced) = 1
               /\ \E c \in traced : Take(c, "trace")
      <4>1. PICK c \in traced : Take(c, "trace")
        BY <3>4
      <4>2. place' \in {"handed", "route"}
        BY <4>1 DEF Take, HandOrRoute
      <4> QED
        BY <3>0, <3>2, <3>4, <4>1, <4>2, TakenIsThere DEF NamedTypeIsThere, RejectedStays
    <3>5. CASE place' = IF ~Rejected(sc) /\ Cardinality(traced) > 1 THEN "subset" ELSE "type"
      BY <3>0, <3>2, <3>5 DEF NamedTypeIsThere, RejectedStays
    <3> QED
      BY <3>1, <3>3, <3>4, <3>5
  <2>4. CASE ScoreTraced
    <3>0. traced' = traced /\ menu' = menu /\ unfit' = unfit /\ ~(menu # {} /\ unfit = menu)
      BY <2>4 DEF ScoreTraced
    <3>1. PICK sc \in [traced -> Score] :
            \/ \E c \in Picks(sc) : Take(c, "trace")
            \/ Picks(sc) = {} /\ place' = "type" /\ UNCHANGED <<how, stateType, request>>
      BY <2>4 DEF ScoreTraced
    <3>2. CASE \E c \in Picks(sc) : Take(c, "trace")
      <4>1. PICK c \in Picks(sc) : Take(c, "trace")
        BY <3>2
      <4>2. c \in Contract
        BY PicksAreScored
      <4>3. place' \in {"handed", "route"}
        BY <4>1 DEF Take, HandOrRoute
      <4> QED
        BY <3>0, <4>1, <4>2, <4>3, TakenIsThere DEF NamedTypeIsThere, RejectedStays
    <3>3. CASE place' = "type"
      BY <3>0, <3>3 DEF NamedTypeIsThere, RejectedStays
    <3> QED
      BY <3>1, <3>2, <3>3
  <2>5. CASE AskType
    BY <2>5 DEF AskType, HandOrRoute, NamedTypeIsThere, RejectedStays
  <2>6. CASE Route
    BY <2>6 DEF Route, NamedTypeIsThere, RejectedStays
  <2> QED
    BY <1>1, <2>1, <2>2, <2>3, <2>4, <2>5, <2>6 DEF OwnerNext
<1>2. CASE StartChild
  BY <1>2 DEF StartChild, NamedTypeIsThere, RejectedStays
<1>3. CASE Code \/ GateFix \/ GateFixEnds \/ HandOver
  BY <1>3 DEF Code, GateFix, GateFixEnds, HandOver, searchVars, NamedTypeIsThere, RejectedStays
<1> QED
  BY <1>1, <1>2, <1>3 DEF Next

LEMMA SearchInductive == Spec => []SearchInv
<1>1. Init => SearchInv
  BY DEF Init, OwnerInit, SearchInv, NamedTypeIsThere, RejectedStays
<1>2. SearchInv /\ [Next]_vars => SearchInv'
  <2> SUFFICES ASSUME SearchInv, [Next]_vars PROVE SearchInv'
    OBVIOUS
  <2>1. CASE Next
    BY <2>1, SearchKept
  <2>2. CASE UNCHANGED vars
    BY <2>2 DEF vars, ownerVars, searchVars, SearchInv, NamedTypeIsThere, RejectedStays
  <2> QED
    BY <2>1, <2>2
<1> QED
  BY <1>1, <1>2, PTL DEF Spec

\* A type that a request names because a contract was chosen is declared by the
\* repository that gets the request (fillStateType with resolveTracedOwner).
THEOREM NamedTypeStands == Spec => []NamedTypeIsThere
<1>1. SearchInv => NamedTypeIsThere
  BY DEF SearchInv
<1> QED
  BY <1>1, SearchInductive, PTL

\* After a rejection of all candidates no contract that the files lead to is
\* taken in their place (ownerRepoForState).
THEOREM RejectionStands == Spec => []RejectedStays
<1>1. SearchInv => RejectedStays
  BY DEF SearchInv
<1> QED
  BY <1>1, SearchInductive, PTL

-----------------------------------------------------------------------------
(* Types, and what is known of a change that passed.                       *)

\* The names that fillStateType may leave.
LEMMA FilledIsType ==
    ASSUME NEW c \in Contract, NEW n \in FilledTypes(OwnerOf[c])
    PROVE  n \in Type \cup {None}
<1> DEFINE declared == Messages[OwnerOf[c]] \cup Enums[OwnerOf[c]]
<1>1. \A x \in Elected(Type) : x \in Type \cup {None}
  BY ElectedIsOffered
<1>2. \A x \in Elected(declared) : x \in declared \cup {None}
  BY ElectedIsOffered
<1>3. declared \subseteq Type
  BY OwnerAssumption
<1> QED
  BY <1>1, <1>2, <1>3 DEF FilledTypes

\* What is handed on is a request, and otherwise the way goes on.
LEMMA HandedIsRequest ==
    ASSUME NEW c \in Contract, NEW n \in Type \cup {None}, NEW way, HandOrRoute(c, n, way)
    PROVE  \/ place' = "handed" /\ request' \in Request /\ how' = way
           \/ place' = "route" /\ UNCHANGED <<request, how>>
BY OwnerAssumption DEF HandOrRoute, Resolve, Request

LEMMA TakenIsRequest ==
    ASSUME NEW c \in Contract, NEW way, Take(c, way)
    PROVE  /\ stateType' \in Type \cup {None}
           /\ \/ place' = "handed" /\ request' \in Request /\ how' = way
              \/ place' = "route" /\ UNCHANGED <<request, how>>
BY FilledIsType, HandedIsRequest DEF Take

\* The child works on a request, on versions of the blocks, and what it hands
\* over passed the gates as it is.
ChildInv ==
    /\ TypeOK
    /\ work = [b \in Block |-> work[b]]
    /\ place \in {"handed"} \cup ChildPlace => request \in Request
    /\ place = "child_passed" => ~Fails

LEMMA ChangeKeepsVersions ==
    ASSUME ChildInv, NEW b \in Block, Change(b)
    PROVE  /\ \A c \in Block : work'[c] \in Versions[c] \cup {NoDecl}
           /\ work' = [c \in Block |-> work'[c]]
BY DEF ChildInv, TypeOK, Change

LEMMA SearchTyped ==
    ASSUME ChildInv, OwnerNext, UNCHANGED childVars
    PROVE  ChildInv'
<1> SUFFICES /\ place' \in ParentPlace \cup ParentEnd
             /\ OwnerTypeOK'
             /\ place' = "handed" => request' \in Request
  <2>1. UNCHANGED <<work, tries, rounds>>
    BY DEF childVars
  <2>2. place' \notin ChildPlace
    BY DEF ParentPlace, ParentEnd, ChildPlace
  <2>3. TypeOK'
    BY <2>1 DEF ChildInv, TypeOK
  <2>4. place' # "child_passed"
    BY <2>2 DEF ChildPlace
  <2> QED
    BY <2>1, <2>2, <2>3, <2>4 DEF ChildInv
<1> USE DEF ChildInv, TypeOK, OwnerTypeOK
<1> USE DEF ParentPlace, ParentEnd, ChildPlace
<1>0. Plannings \in Nat \ {0}
  BY OwnerAssumption
<1>1. CASE PlanAgain \/ CodeUnasked \/ AskState
  <2>1. UNCHANGED <<traced, menu, how, unfit, stateType, request>>
    BY <1>1 DEF PlanAgain, CodeUnasked, AskState, searchVars
  <2>2. place' \in {"planning", "gave_up", "coding", "search", "skipped"}
    BY <1>1 DEF PlanAgain, CodeUnasked, AskState
  <2>3. attempt' \in 1..Plannings
    <3>1. attempt \in 1..Plannings
      OBVIOUS
    <3>2. attempt' = attempt \/ (attempt < Plannings /\ attempt' = attempt + 1)
      <4>1. CASE PlanAgain
        BY <4>1 DEF PlanAgain, searchVars
      <4>2. CASE CodeUnasked \/ AskState
        BY <4>2 DEF CodeUnasked, AskState, searchVars
      <4> QED
        BY ONLY <1>1, <4>1, <4>2
    <3> QED
      BY ONLY <1>0, <3>1, <3>2
  <2>4. OwnerTypeOK'
    BY <2>1, <2>3
  <2> QED
    BY <2>2, <2>4
<1>2. CASE Search
  <2>1. UNCHANGED <<attempt, how, unfit, stateType, request>>
    BY <1>2 DEF Search
  <2>2. PICK planned \in Traces, wider \in Traces, scan \in Scans :
          /\ traced' = IF planned # {} THEN planned ELSE wider
          /\ menu' = traced' \cup (IF scan.complete THEN scan.found ELSE {})
    BY <1>2 DEF Search
  <2>3. planned \subseteq Contract /\ wider \subseteq Contract /\ scan.found \subseteq Contract
    BY OwnerAssumption
  <2>4. traced' \subseteq Contract
    BY <2>2, <2>3
  <2>5. menu' \subseteq Contract
    BY <2>2, <2>3, <2>4
  <2>6. OwnerTypeOK'
    BY <2>1, <2>4, <2>5
  <2>7. place' \in {"type", "score"}
    BY <1>2 DEF Search
  <2> QED
    BY <2>6, <2>7
<1>3. CASE ScoreAll
  <2>1. PICK sc \in [menu -> Score] :
          /\ unfit' = {c \in menu : sc[c] = 0}
          /\ \/ \E c \in Picks(sc) : Take(c, "pick")
             \/ \E c \in traced : Take(c, "trace")
             \/ place' \in {"subset", "type"} /\ UNCHANGED <<how, stateType, request>>
    BY <1>3 DEF ScoreAll
  <2>2. \A c \in Picks(sc) : c \in Contract
    BY PicksAreScored
  <2>3. \A c \in traced : c \in Contract
    OBVIOUS
  <2>4. unfit' \subseteq Contract /\ attempt' = attempt /\ traced' = traced /\ menu' = menu
    BY <1>3, <2>1 DEF ScoreAll
  <2>5. CASE \E c \in Picks(sc) : Take(c, "pick")
    BY <2>2, <2>4, <2>5, TakenIsRequest
  <2>6. CASE \E c \in traced : Take(c, "trace")
    BY <2>3, <2>4, <2>6, TakenIsRequest
  <2>7. CASE place' \in {"subset", "type"} /\ UNCHANGED <<how, stateType, request>>
    BY <2>4, <2>7
  <2> QED
    BY <2>1, <2>5, <2>6, <2>7
<1>4. CASE ScoreTraced
  <2>1. PICK sc \in [traced -> Score] :
          \/ \E c \in Picks(sc) : Take(c, "trace")
          \/ place' = "type" /\ UNCHANGED <<how, stateType, request>>
    BY <1>4 DEF ScoreTraced
  <2>2. \A c \in Picks(sc) : c \in Contract
    BY PicksAreScored
  <2>3. unfit' = unfit /\ attempt' = attempt /\ traced' = traced /\ menu' = menu
    BY <1>4 DEF ScoreTraced
  <2>4. CASE \E c \in Picks(sc) : Take(c, "trace")
    BY <2>2, <2>3, <2>4, TakenIsRequest
  <2>5. CASE place' = "type" /\ UNCHANGED <<how, stateType, request>>
    BY <2>3, <2>5
  <2> QED
    BY <2>1, <2>4, <2>5
<1>5. CASE AskType
  <2>1. PICK n \in Elected(Type) :
          /\ stateType' = n
          /\ LET home == IF n = None THEN None ELSE Home[n]
                 c == IF home = "hand" THEN HandTrace[n] ELSE home
             IN  IF c # None THEN HandOrRoute(c, n, "type")
                 ELSE place' = "route" /\ UNCHANGED <<how, request>>
    BY <1>5 DEF AskType
  <2>2. n \in Type \cup {None}
    BY ElectedIsOffered
  <2>3. UNCHANGED <<attempt, traced, menu, unfit>>
    BY <1>5 DEF AskType
  <2> DEFINE home == IF n = None THEN None ELSE Home[n]
             c == IF home = "hand" THEN HandTrace[n] ELSE home
  <2>4. CASE c # None
    <3>1. home \in Contract \cup {"hand", None}
      BY <2>2, OwnerAssumption
    <3>2. n \in Type \/ home = None
      BY <2>2
    <3>3. home = "hand" => n \in Type
      BY <3>2, OwnerAssumption
    <3>4. home = "hand" => HandTrace[n] \in Contract \cup {None}
      BY <3>3, OwnerAssumption
    <3>5. c \in Contract
      BY <2>4, <3>1, <3>4
    <3>6. HandOrRoute(c, n, "type")
      BY <2>1, <2>4
    <3> HIDE DEF c
    <3>7. \/ place' = "handed" /\ request' \in Request /\ how' = "type"
          \/ place' = "route" /\ UNCHANGED <<request, how>>
      BY <2>2, <3>5, <3>6, HandedIsRequest
    <3> QED
      BY <2>1, <2>2, <2>3, <3>7
  <2>5. CASE c = None
    <3>1. place' = "route" /\ UNCHANGED <<how, request>>
      BY <2>1, <2>5
    <3> QED
      BY <2>1, <2>2, <2>3, <3>1
  <2> QED
    BY <2>4, <2>5
<1>6. CASE Route
  <2>1. UNCHANGED <<attempt, traced, menu, unfit, stateType>>
    BY <1>6 DEF Route
  <2>2. CASE place' = "skipped" /\ UNCHANGED <<request, how>>
    BY <2>1, <2>2
  <2>3. CASE \E r \in Held \ Passed :
                /\ request' = [repo |-> r, type |-> stateType, proto |-> None]
                /\ place' = "handed" /\ how' = "route"
    <3>1. PICK r \in Held \ Passed :
            request' = [repo |-> r, type |-> stateType, proto |-> None]
      BY <2>3
    <3>2. stateType \in Type \cup {None}
      OBVIOUS
    <3>3. request' \in Request
      BY ONLY <3>1, <3>2 DEF Request
    <3> QED
      BY <2>1, <2>3, <3>3
  <2> QED
    BY <1>6, <2>2, <2>3 DEF Route
<1> QED
  BY <1>1, <1>2, <1>3, <1>4, <1>5, <1>6 DEF OwnerNext

LEMMA ChildKept ==
    ASSUME ChildInv, [Next]_vars
    PROVE  ChildInv'
<1> USE DEF ChildInv
<1>1. CASE OwnerNext /\ UNCHANGED childVars
  BY <1>1, SearchTyped
<1>2. CASE StartChild
  <2>1. request \in Request /\ request.repo \in Repo
    BY <1>2, OwnerAssumption DEF StartChild, Request
  <2>2. \A b \in Block : work'[b] \in Versions[b] \cup {NoDecl}
    BY <1>2, <2>1, ContractAssumption DEF StartChild, Old
  <2>3. work' = [b \in Block |-> work'[b]]
    BY <1>2, <2>1, ContractAssumption DEF StartChild, Old
  <2>4. 1 \in 1..Plannings
    BY OwnerAssumption
  <2>5. TypeOK'
    BY <1>2, <2>2, <2>4 DEF StartChild, TypeOK, OwnerTypeOK, ParentPlace, ParentEnd, ChildPlace
  <2> QED
    BY <1>2, <2>1, <2>3, <2>5 DEF StartChild
<1>3. CASE Code
  <2>1. PICK b \in Block : Change(b)
    BY <1>3 DEF Code
  <2> QED
    BY <1>3, <2>1, ChangeKeepsVersions
       DEF Code, TypeOK, OwnerTypeOK, searchVars, ParentPlace, ParentEnd, ChildPlace
<1>4. CASE GateFix
  <2>1. PICK b \in Block : Change(b)
    BY <1>4 DEF GateFix
  <2>2. rounds' \in 0..GateFixRounds
    BY <1>4, ContractAssumption DEF GateFix, TypeOK
  <2> QED
    BY <1>4, <2>1, <2>2, ChangeKeepsVersions
       DEF GateFix, TypeOK, OwnerTypeOK, searchVars, ParentPlace, ParentEnd, ChildPlace
<1>5. CASE GateFixEnds
  BY <1>5 DEF GateFixEnds, TypeOK, OwnerTypeOK, searchVars, childVars, ParentPlace, ParentEnd, ChildPlace
<1>6. CASE HandOver
  <2>1. tries' \in 1..MaxAttempts /\ rounds' \in 0..GateFixRounds
    BY <1>6, ContractAssumption DEF HandOver, TypeOK
  <2>2. Fails' = Fails
    BY <1>6 DEF HandOver, Fails, Old
  <2> QED
    BY <1>6, <2>1, <2>2
       DEF HandOver, TypeOK, OwnerTypeOK, searchVars, ParentPlace, ParentEnd, ChildPlace
<1>7. CASE UNCHANGED vars
  BY <1>7 DEF vars, ownerVars, searchVars, childVars, TypeOK, OwnerTypeOK, Fails, Old
<1> QED
  BY <1>1, <1>2, <1>3, <1>4, <1>5, <1>6, <1>7 DEF Next

LEMMA ChildInductive == Spec => []ChildInv
<1>1. Init => ChildInv
  <2> SUFFICES ASSUME Init PROVE ChildInv
    OBVIOUS
  <2>1. OwnerTypeOK
    <3>1. 1 \in 1..Plannings
      BY OwnerAssumption
    <3>2. /\ attempt = 1 /\ traced = {} /\ menu = {} /\ unfit = {}
          /\ how = "" /\ stateType = None /\ request = None
      BY DEF Init, OwnerInit
    <3> QED
      BY <3>1, <3>2 DEF OwnerTypeOK
  <2>2. tries \in 1..MaxAttempts /\ rounds \in 0..GateFixRounds
    BY ContractAssumption DEF Init
  <2>3. \A b \in Block : work[b] = NoDecl
    BY DEF Init, NoWork
  <2>4. work = [b \in Block |-> work[b]]
    BY DEF Init, NoWork
  <2>5. place = "planning"
    BY DEF Init, OwnerInit
  <2>6. TypeOK
    BY <2>1, <2>2, <2>3, <2>5 DEF TypeOK, ParentPlace
  <2> QED
    BY <2>4, <2>5, <2>6 DEF ChildInv, ChildPlace
<1>2. ChildInv /\ [Next]_vars => ChildInv'
  BY ChildKept
<1> QED
  BY <1>1, <1>2, PTL DEF Spec

-----------------------------------------------------------------------------
(* Sums over finite sets.                                                  *)

\* The least number of a set.
LEMMA LeastNumber ==
    ASSUME NEW S \in SUBSET Nat, S # {}
    PROVE  \E m \in S : \A n \in S : m <= n
<1> DEFINE Less == {p \in Nat \X Nat : p[1] < p[2]}
<1>1. IsWellFoundedOn(Less, Nat)
  BY NatLessThanWellFounded DEF OpToRel
<1>2. \A m, n \in Nat : <<n, m>> \notin Less => m <= n
  OBVIOUS
<1> HIDE DEF Less
<1>3. PICK m \in S : \A n \in S : <<n, m>> \notin Less
  BY <1>1, WFMin
<1> QED
  BY <1>2, <1>3

\* f has the sum of w over every subset of D, added up in any order.
Sums(f, D, w) ==
    f = [s \in SUBSET D |-> IF s = {} THEN 0
           ELSE w[CHOOSE x \in s : TRUE] + f[s \ {CHOOSE x \in s : TRUE}]]

\* Finite sums exist.
LEMMA SumStands ==
    ASSUME NEW D, IsFiniteSet(D), NEW w \in [D -> Nat]
    PROVE  \E f \in [SUBSET D -> Nat] : Sums(f, D, w)
<1> DEFINE pick(s) == CHOOSE x \in s : TRUE
           Small(n) == {s \in SUBSET D : Cardinality(s) <= n}
           UpTo(n) == \E f \in [Small(n) -> Nat] :
               f = [s \in Small(n) |-> IF s = {} THEN 0 ELSE w[pick(s)] + f[s \ {pick(s)}]]
           Bad == {n \in 0..Cardinality(D) : ~ UpTo(n)}
<1>1. Cardinality(D) \in Nat
  BY FS_CardinalityType
<1>2. ASSUME NEW s \in SUBSET D
      PROVE  /\ IsFiniteSet(s) /\ Cardinality(s) \in Nat /\ Cardinality(s) <= Cardinality(D)
             /\ s # {} => /\ pick(s) \in s /\ Cardinality(s \ {pick(s)}) = Cardinality(s) - 1
                          /\ Cardinality(s) # 0
  <2>1. IsFiniteSet(s) /\ Cardinality(s) <= Cardinality(D)
    BY FS_Subset
  <2>2. s # {} => pick(s) \in s
    OBVIOUS
  <2>3. Cardinality(s) = 0 <=> s = {}
    BY <2>1, FS_EmptySet
  <2>4. pick(s) \in s => Cardinality(s \ {pick(s)}) = Cardinality(s) - 1
    <3> HIDE DEF pick
    <3> QED
      BY <2>1, FS_RemoveElement
  <2> QED
    BY <2>1, <2>2, <2>3, <2>4, FS_CardinalityType
<1> HIDE DEF pick
<1>3. UpTo(0)
  <2>1. ASSUME NEW s \in Small(0) PROVE s = {}
    <3>1. s \in SUBSET D /\ Cardinality(s) <= 0
      OBVIOUS
    <3>3. Cardinality(s) \in Nat
      BY <1>2, <3>1
    <3>2. Cardinality(s) = 0
      BY <3>1, <3>3
    <3> QED
      BY <1>2, <3>1, <3>2
  <2> DEFINE f == [s \in Small(0) |-> 0]
  <2>2. f \in [Small(0) -> Nat] /\ f = [s \in Small(0) |-> IF s = {} THEN 0 ELSE w[pick(s)] + f[s \ {pick(s)}]]
    BY <2>1
  <2> QED
    BY <2>2
<1>4. ASSUME NEW m \in 1..Cardinality(D), UpTo(m - 1) PROVE UpTo(m)
  <2>1. PICK f \in [Small(m - 1) -> Nat] :
           f = [s \in Small(m - 1) |-> IF s = {} THEN 0 ELSE w[pick(s)] + f[s \ {pick(s)}]]
    BY <1>4
  <2> DEFINE g == [s \in Small(m) |-> IF s = {} THEN 0 ELSE w[pick(s)] + f[s \ {pick(s)}]]
  <2>2. ASSUME NEW s \in Small(m), s # {}
        PROVE  s \ {pick(s)} \in Small(m - 1) /\ s \ {pick(s)} \in Small(m) /\ pick(s) \in D
    BY <1>1, <1>2, <1>4, <2>2
  <2>3. g \in [Small(m) -> Nat]
    <3> SUFFICES ASSUME NEW s \in Small(m) PROVE g[s] \in Nat
      OBVIOUS
    <3>1. CASE s = {}
      BY <3>1
    <3>2. CASE s # {}
      <4>1. f[s \ {pick(s)}] \in Nat /\ w[pick(s)] \in Nat
        BY <2>2, <3>2
      <4> QED
        BY <3>2, <4>1
    <3> QED
      BY <3>1, <3>2
  <2>4. \A s \in Small(m - 1) : s \in Small(m) /\ g[s] = f[s]
    <3>1. ASSUME NEW s \in Small(m - 1) PROVE s \in Small(m)
      <4>1. s \in SUBSET D /\ Cardinality(s) <= m - 1
        OBVIOUS
      <4>2. Cardinality(s) \in Nat
        BY <1>2, <4>1
      <4> QED
        BY <1>1, <4>1, <4>2
    <3> HIDE DEF Small
    <3> QED
      BY <2>1, <3>1
  <2>5. g = [s \in Small(m) |-> IF s = {} THEN 0 ELSE w[pick(s)] + g[s \ {pick(s)}]]
    <3> HIDE DEF Small
    <3> QED
      BY <2>2, <2>4
  <2> QED
    BY <2>3, <2>5
<1>5. UpTo(Cardinality(D))
  <2> HIDE DEF UpTo
  <2> SUFFICES ASSUME Bad # {} PROVE FALSE
    BY <1>1
  <2>1. Bad \in SUBSET Nat
    OBVIOUS
  <2>2. PICK m \in Bad : \A n \in Bad : m <= n
    BY <2>1, LeastNumber
  <2>3. m \in 0..Cardinality(D) /\ m # 0
    BY <1>3, <2>2
  <2>4. m \in 1..Cardinality(D) /\ m - 1 \in 0..Cardinality(D) /\ ~ m <= m - 1
    BY <1>1, <2>3
  <2>5. UpTo(m - 1)
    BY <2>2, <2>4
  <2> QED
    BY <1>4, <2>2, <2>4, <2>5
<1>6. Small(Cardinality(D)) = SUBSET D
  BY <1>2
<1> QED
  BY <1>5, <1>6 DEF pick, Sums

\* What is spread over x with at most w[x] at each is no more than the sum.
LEMMA SumCovers ==
    ASSUME NEW D, IsFiniteSet(D), NEW w \in [D -> Nat], NEW f, Sums(f, D, w),
           NEW B, \A x \in D : IsFiniteSet(B[x]) /\ Cardinality(B[x]) <= w[x]
    PROVE  /\ f[D] \in Nat /\ IsFiniteSet(UNION {B[x] : x \in D})
           /\ Cardinality(UNION {B[x] : x \in D}) <= f[D]
           /\ f[D] > 0 => \E x \in D : w[x] > 0
<1> DEFINE pick(s) == CHOOSE x \in s : TRUE
           All(s) == UNION {B[x] : x \in s}
           Good(s) == /\ f[s] \in Nat /\ IsFiniteSet(All(s)) /\ Cardinality(All(s)) <= f[s]
                      /\ f[s] > 0 => \E x \in D : w[x] > 0
           Off == {s \in SUBSET D : ~ Good(s)}
           Sizes == {Cardinality(s) : s \in Off}
<1>1. \A s \in SUBSET D : f[s] = IF s = {} THEN 0 ELSE w[pick(s)] + f[s \ {pick(s)}]
  BY DEF Sums
<1>2. ASSUME NEW s \in SUBSET D
      PROVE  /\ Cardinality(s) \in Nat
             /\ s # {} => pick(s) \in s /\ Cardinality(s \ {pick(s)}) = Cardinality(s) - 1
  <2>1. IsFiniteSet(s)
    BY FS_Subset
  <2>2. s # {} => pick(s) \in s
    OBVIOUS
  <2>3. pick(s) \in s => Cardinality(s \ {pick(s)}) = Cardinality(s) - 1
    <3> HIDE DEF pick
    <3> QED
      BY <2>1, FS_RemoveElement
  <2> QED
    BY <2>1, <2>2, <2>3, FS_CardinalityType
<1> HIDE DEF pick
<1>3. Good({})
  <2>1. All({}) = {}
    OBVIOUS
  <2>2. f[{}] = 0
    BY <1>1
  <2> HIDE DEF All
  <2> QED
    BY <2>1, <2>2, FS_EmptySet
<1>4. ASSUME NEW s \in SUBSET D, s # {}, Good(s \ {pick(s)}) PROVE Good(s)
  <2> DEFINE r == s \ {pick(s)}
             p == pick(s)
  <2>1. p \in D /\ p \in s
    BY <1>2, <1>4
  <2>2. f[s] = w[p] + f[r] /\ w[p] \in Nat
    BY <1>1, <1>4, <2>1
  <2>3. All(s) = All(r) \cup B[p]
    BY <2>1
  <2>4. IsFiniteSet(B[p]) /\ Cardinality(B[p]) <= w[p] /\ Cardinality(B[p]) \in Nat
    BY <2>1, FS_CardinalityType
  <2> HIDE DEF p, r, All
  <2>5. f[r] \in Nat /\ IsFiniteSet(All(r)) /\ Cardinality(All(r)) <= f[r]
    BY <1>4 DEF r, All, p
  <2>6. /\ IsFiniteSet(All(r) \cup B[p])
        /\ Cardinality(All(r) \cup B[p]) = Cardinality(All(r)) + Cardinality(B[p]) - Cardinality(All(r) \cap B[p])
    BY <2>4, <2>5, FS_Union
  <2>7. Cardinality(All(r) \cap B[p]) \in Nat /\ Cardinality(All(r)) \in Nat
    <3>1. IsFiniteSet(All(r) \cap B[p])
      BY <2>4, FS_Subset
    <3> QED
      BY <2>5, <3>1, FS_CardinalityType
  <2>8. f[s] \in Nat /\ IsFiniteSet(All(s)) /\ Cardinality(All(s)) <= f[s]
    BY <2>2, <2>3, <2>4, <2>5, <2>6, <2>7
  <2>9. f[s] > 0 => \E x \in D : w[x] > 0
    <3>1. f[r] > 0 => \E x \in D : w[x] > 0
      BY <1>4 DEF r, p
    <3> QED
      BY <2>1, <2>2, <2>5, <3>1
  <2> QED
    BY <2>8, <2>9 DEF All
<1>5. ASSUME Off # {} PROVE FALSE
  <2> HIDE DEF Good
  <2>1. Sizes \in SUBSET Nat /\ Sizes # {}
    <3>1. \A s \in Off : Cardinality(s) \in Nat
      BY <1>2
    <3> QED
      BY <1>5, <3>1
  <2>2. PICK m \in Sizes : \A n \in Sizes : m <= n
    BY <2>1, LeastNumber
  <2>3. PICK s \in Off : m = Cardinality(s)
    OBVIOUS
  <2>4. s \in SUBSET D /\ ~ Good(s) /\ s # {}
    BY <1>3, <2>3
  <2>5. s \ {pick(s)} \in SUBSET D /\ Cardinality(s \ {pick(s)}) = m - 1 /\ m \in Nat
    BY <1>2, <2>3, <2>4
  <2>6. s \ {pick(s)} \notin Off
    <3>1. s \ {pick(s)} \in Off => m - 1 \in Sizes
      BY <2>5
    <3>2. ~ m <= m - 1
      BY <2>5
    <3> HIDE DEF Sizes, Off
    <3> QED
      BY <2>2, <3>1, <3>2
  <2> QED
    BY <1>4, <2>4, <2>5, <2>6
<1>6. Good(D)
  <2> HIDE DEF Good
  <2> QED
    BY <1>5
<1> QED
  BY <1>6

\* What countStates and the habit's total add up.
LEMMA CountIs ==
    ASSUME NEW old, NEW new, NEW t, NEW w,
           w = [b \in Block |-> Cardinality(StateFields(Members(new[b]), t))
                                - Cardinality(StateFields(AddedIn(old, new, b), t))],
           w \in [Block -> Nat], IsFiniteSet(Block)
    PROVE  \E f : Sums(f, Block, w) /\ CountStates(old, new, t) = f[Block]
<1> DEFINE Eq(f) == f = [s \in SUBSET Block |-> IF s = {} THEN 0
                     ELSE (Cardinality(StateFields(Members(new[CHOOSE x \in s : TRUE]), t))
                           - Cardinality(StateFields(AddedIn(old, new, CHOOSE x \in s : TRUE), t)))
                          + f[s \ {CHOOSE x \in s : TRUE}]]
           it == CHOOSE f : Eq(f)
<1>1. CountStates(old, new, t) = it[Block]
  BY DEF CountStates, MapThenSumSet, MapThenFoldSet
<1>2. \A f : Eq(f) <=> Sums(f, Block, w)
  <2> SUFFICES ASSUME NEW f PROVE Eq(f) <=> Sums(f, Block, w)
    OBVIOUS
  <2>1. \A s \in SUBSET Block : s # {} => (CHOOSE x \in s : TRUE) \in Block
    OBVIOUS
  <2>2. \A s \in SUBSET Block : s # {} =>
           w[CHOOSE x \in s : TRUE] = Cardinality(StateFields(Members(new[CHOOSE x \in s : TRUE]), t))
                           - Cardinality(StateFields(AddedIn(old, new, CHOOSE x \in s : TRUE), t))
    BY <2>1
  <2> QED
    BY <2>2 DEF Sums
<1>3. \E f : Sums(f, Block, w)
  <2>1. \E f \in [SUBSET Block -> Nat] : Sums(f, Block, w)
    BY SumStands
  <2> QED
    BY <2>1
<1> HIDE DEF Eq
<1>4. Sums(it, Block, w)
  BY <1>2, <1>3
<1> QED
  BY <1>1, <1>4

Total(old, new, H) == MapThenSumSet(LAMBDA t : CountStates(old, new, t), H)

LEMMA TotalIs ==
    ASSUME NEW old, NEW new, NEW H, IsFiniteSet(H), NEW w,
           w = [t \in H |-> CountStates(old, new, t)], w \in [H -> Nat]
    PROVE  \E f : Sums(f, H, w) /\ Total(old, new, H) = f[H]
<1> DEFINE Eq(f) == f = [s \in SUBSET H |-> IF s = {} THEN 0
                     ELSE CountStates(old, new, CHOOSE x \in s : TRUE) + f[s \ {CHOOSE x \in s : TRUE}]]
           it == CHOOSE f : Eq(f)
<1>1. Total(old, new, H) = it[H]
  BY DEF Total, MapThenSumSet, MapThenFoldSet
<1>2. \A f : Eq(f) <=> Sums(f, H, w)
  <2> SUFFICES ASSUME NEW f PROVE Eq(f) <=> Sums(f, H, w)
    OBVIOUS
  <2>1. \A s \in SUBSET H : s # {} => (CHOOSE x \in s : TRUE) \in H
    OBVIOUS
  <2>2. \A s \in SUBSET H : s # {} => w[CHOOSE x \in s : TRUE] = CountStates(old, new, CHOOSE x \in s : TRUE)
    BY <2>1
  <2> QED
    BY <2>2 DEF Sums
<1>3. \E f : Sums(f, H, w)
  <2>1. \E f \in [SUBSET H -> Nat] : Sums(f, H, w)
    BY SumStands
  <2> QED
    BY <2>1
<1> HIDE DEF Eq
<1>4. Sums(it, H, w)
  BY <1>2, <1>3
<1> QED
  BY <1>1, <1>4

\* A union of finitely many finite sets, and the image of one.
LEMMA UnionFinite ==
    ASSUME NEW D, IsFiniteSet(D), NEW B, \A x \in D : IsFiniteSet(B[x])
    PROVE  IsFiniteSet(UNION {B[x] : x \in D})
<1> DEFINE w == [x \in D |-> Cardinality(B[x])]
<1>1. w \in [D -> Nat] /\ \A x \in D : IsFiniteSet(B[x]) /\ Cardinality(B[x]) <= w[x]
  <2>1. \A x \in D : Cardinality(B[x]) \in Nat
    BY FS_CardinalityType
  <2> QED
    BY <2>1
<1> HIDE DEF w
<1>2. PICK f \in [SUBSET D -> Nat] : Sums(f, D, w)
  BY <1>1, SumStands
<1> QED
  BY <1>1, <1>2, SumCovers

LEMMA ImageFinite ==
    ASSUME NEW D, IsFiniteSet(D), NEW g
    PROVE  IsFiniteSet({g[x] : x \in D})
<1> DEFINE B == [x \in D |-> {g[x]}]
<1>1. \A x \in D : IsFiniteSet(B[x])
  BY FS_Singleton
<1>2. UNION {B[x] : x \in D} = {g[x] : x \in D}
  OBVIOUS
<1> HIDE DEF B
<1>3. IsFiniteSet(UNION {B[x] : x \in D})
  BY <1>1, UnionFinite
<1> QED
  BY <1>2, <1>3

\* What is counted of a block: its states of that type that were there.
LEMMA KeptCount ==
    ASSUME NEW old, NEW new, NEW b \in Block, NEW t, IsFiniteSet(Members(new[b])),
           Fields(old[b]) \subseteq Fields(new[b])
    PROVE  LET n == Cardinality(StateFields(Members(new[b]), t))
                    - Cardinality(StateFields(AddedIn(old, new, b), t))
               kept == StateFields(Members(old[b]), t)
           IN  n \in Nat /\ (n > 0 <=> kept # {})
<1> DEFINE all == StateFields(Members(new[b]), t)
           added == StateFields(AddedIn(old, new, b), t)
           kept == StateFields(Members(old[b]), t)
<1>1. all = kept \cup added /\ kept \cap added = {}
  BY DEF StateFields, AddedIn, IsState, Fields, Of
<1>2. IsFiniteSet(all)
  BY FS_Subset DEF StateFields
<1> HIDE DEF all, added, kept
<1>3. IsFiniteSet(kept) /\ IsFiniteSet(added)
  BY <1>1, <1>2, FS_Subset
<1>4. Cardinality(kept) \in Nat /\ Cardinality(added) \in Nat /\ (Cardinality(kept) = 0 <=> kept = {})
  BY <1>3, FS_CardinalityType, FS_EmptySet
<1>5. Cardinality(all) = Cardinality(kept) + Cardinality(added)
  BY <1>1, <1>3, <1>4, FS_Union, FS_EmptySet
<1>6. Cardinality(all) - Cardinality(added) = Cardinality(kept)
  BY <1>4, <1>5
<1> QED
  BY <1>4, <1>6 DEF all, added, kept

\* Where nothing went, the habit is what the contract had before, and what is counted is
\* no less than the blocks that had a state.
LEMMA CountKnows ==
    ASSUME NEW old, NEW new, NEW t, IsFiniteSet(Block),
           \A b \in Block : IsFiniteSet(Members(new[b])) /\ Fields(old[b]) \subseteq Fields(new[b]),
           NEW S \in SUBSET Block, \A b \in S : StateFields(Members(old[b]), t) # {}
    PROVE  /\ CountStates(old, new, t) \in Nat
           /\ Cardinality(S) <= CountStates(old, new, t)
           /\ CountStates(old, new, t) > 0 <=> t \in StateTypes(old)
<1> DEFINE w == [b \in Block |-> Cardinality(StateFields(Members(new[b]), t))
                                 - Cardinality(StateFields(AddedIn(old, new, b), t))]
           With(P) == [b \in Block |-> IF b \in P THEN {b} ELSE {}]
<1>1. \A b \in Block : w[b] \in Nat /\ (w[b] > 0 <=> StateFields(Members(old[b]), t) # {})
  BY KeptCount
<1>2. w \in [Block -> Nat]
  BY <1>1
<1>3. PICK f : Sums(f, Block, w) /\ CountStates(old, new, t) = f[Block]
  BY <1>2, CountIs
<1> HIDE DEF w
<1>4. ASSUME NEW P \in SUBSET Block, \A b \in P : StateFields(Members(old[b]), t) # {}
      PROVE  /\ f[Block] \in Nat /\ Cardinality(P) <= f[Block]
             /\ f[Block] > 0 => \E b \in Block : w[b] > 0
             /\ IsFiniteSet(P)
  <2> DEFINE B == With(P)
  <2>1. \A b \in Block : IsFiniteSet(B[b]) /\ Cardinality(B[b]) <= w[b]
    <3> SUFFICES ASSUME NEW b \in Block PROVE IsFiniteSet(B[b]) /\ Cardinality(B[b]) <= w[b]
      OBVIOUS
    <3>1. CASE b \in P
      <4>1. B[b] = {b} /\ w[b] \in Nat /\ w[b] > 0
        BY <1>1, <1>4, <3>1
      <4>2. IsFiniteSet({b}) /\ Cardinality({b}) = 1
        BY FS_Singleton
      <4> QED
        BY <4>1, <4>2
    <3>2. CASE b \notin P
      <4>1. B[b] = {} /\ w[b] \in Nat
        BY <1>1, <3>2
      <4> QED
        BY <4>1, FS_EmptySet
    <3> QED
      BY <3>1, <3>2
  <2>2. UNION {B[b] : b \in Block} = P
    OBVIOUS
  <2> HIDE DEF B
  <2>3. /\ f[Block] \in Nat /\ IsFiniteSet(UNION {B[b] : b \in Block})
        /\ Cardinality(UNION {B[b] : b \in Block}) <= f[Block]
        /\ f[Block] > 0 => \E b \in Block : w[b] > 0
    BY <1>2, <1>3, <2>1, SumCovers
  <2> QED
    BY <2>2, <2>3
<1>5. t \in StateTypes(old) <=> \E b \in Block : StateFields(Members(old[b]), t) # {}
  BY DEF StateTypes, StateFields
<1>6. t \in StateTypes(old) => f[Block] > 0
  <2> SUFFICES ASSUME t \in StateTypes(old) PROVE f[Block] > 0
    OBVIOUS
  <2>1. PICK b \in Block : StateFields(Members(old[b]), t) # {}
    BY <1>5
  <2>2. Cardinality({b}) <= f[Block] /\ f[Block] \in Nat
    BY <1>4, <2>1
  <2>3. Cardinality({b}) = 1
    BY FS_Singleton
  <2> QED
    BY <2>2, <2>3
<1>7. f[Block] > 0 => t \in StateTypes(old)
  BY <1>1, <1>4, <1>5
<1> QED
  BY <1>3, <1>4, <1>6, <1>7

\* What is spread over types is no more than their total.
LEMMA TotalCovers ==
    ASSUME NEW old, NEW new, NEW H, IsFiniteSet(H), NEW B,
           \A t \in H : /\ CountStates(old, new, t) \in Nat
                       /\ IsFiniteSet(B[t]) /\ Cardinality(B[t]) <= CountStates(old, new, t)
    PROVE  /\ Total(old, new, H) \in Nat
           /\ IsFiniteSet(UNION {B[t] : t \in H})
           /\ Cardinality(UNION {B[t] : t \in H}) <= Total(old, new, H)
<1> DEFINE w == [t \in H |-> CountStates(old, new, t)]
<1>1. w \in [H -> Nat]
  OBVIOUS
<1>2. PICK f : Sums(f, H, w) /\ Total(old, new, H) = f[H]
  BY <1>1, TotalIs
<1>3. \A t \in H : IsFiniteSet(B[t]) /\ Cardinality(B[t]) <= w[t]
  OBVIOUS
<1> HIDE DEF w
<1>4. /\ f[H] \in Nat /\ IsFiniteSet(UNION {B[t] : t \in H})
      /\ Cardinality(UNION {B[t] : t \in H}) <= f[H]
  BY <1>1, <1>2, <1>3, SumCovers, SMTT(30)
<1> QED
  BY <1>2, <1>4

\* The habit that stateFieldTypeOffHabit counts in the worktree, where nothing went: the
\* types of the states that the contract had, each block with one counted at least once.
LEMMA HabitStands ==
    ASSUME NEW old, NEW new, IsFiniteSet(Block),
           \A b \in Block : IsFiniteSet(Members(new[b])) /\ Fields(old[b]) \subseteq Fields(new[b])
    PROVE  LET before == {b \in Block : \E m \in Members(old[b]) : IsState(m)}
               habit == {t \in StateTypes(new) : CountStates(old, new, t) > 0}
           IN  /\ habit = StateTypes(old)
               /\ Cardinality(before) \in Nat
               /\ Total(old, new, habit) \in Nat
               /\ Cardinality(before) <= Total(old, new, habit)
<1> DEFINE before == {b \in Block : \E m \in Members(old[b]) : IsState(m)}
           habit == {t \in StateTypes(new) : CountStates(old, new, t) > 0}
           its(b) == CHOOSE m \in Members(old[b]) : IsState(m)
<1>1. \A t : CountStates(old, new, t) \in Nat /\ (CountStates(old, new, t) > 0 <=> t \in StateTypes(old))
  <2> SUFFICES ASSUME NEW t
               PROVE  CountStates(old, new, t) \in Nat /\ (CountStates(old, new, t) > 0 <=> t \in StateTypes(old))
    OBVIOUS
  <2>1. {} \in SUBSET Block
    OBVIOUS
  <2>2. \A b \in {} : StateFields(Members(old[b]), t) # {}
    OBVIOUS
  <2> QED
    BY <2>1, <2>2, CountKnows
<1>2. \A b \in Block : \A m \in Members(old[b]) : IsState(m) => m \in Members(new[b])
  BY DEF IsState, Fields, Of
<1>3. StateTypes(old) \subseteq StateTypes(new)
  BY <1>2 DEF StateTypes
<1>4. habit = StateTypes(old)
  BY <1>1, <1>3
<1>5. IsFiniteSet(habit)
  <2> DEFINE U == {m \in UNION {Members(new[b]) : b \in Block} : IsState(m)}
             B == [b \in Block |-> Members(new[b])]
             g == [m \in U |-> m.type]
  <2>1. IsFiniteSet(UNION {B[b] : b \in Block})
    <3> HIDE DEF B
    <3>1. \A b \in Block : IsFiniteSet(B[b])
      BY DEF B
    <3> QED
      BY <3>1, UnionFinite
  <2>2. IsFiniteSet(U)
    <3>1. U \in SUBSET (UNION {B[b] : b \in Block})
      OBVIOUS
    <3> HIDE DEF U, B
    <3> QED
      BY <2>1, <3>1, FS_Subset
  <2>3. {g[m] : m \in U} = StateTypes(new)
    BY DEF StateTypes
  <2>4. IsFiniteSet({g[m] : m \in U})
    <3> HIDE DEF U, g
    <3> QED
      BY <2>2, ImageFinite
  <2>5. habit \in SUBSET StateTypes(new)
    OBVIOUS
  <2> HIDE DEF habit, U, g, B
  <2> QED
    BY <2>3, <2>4, <2>5, FS_Subset
<1> DEFINE B == [t \in habit |-> {b \in before : its(b).type = t}]
<1>6. \A b \in before : its(b) \in Members(old[b]) /\ IsState(its(b))
  OBVIOUS
<1>7. \A b \in before : its(b).type \in StateTypes(old) /\ its(b) \in StateFields(Members(old[b]), its(b).type)
  BY <1>6 DEF StateTypes, StateFields
<1> HIDE DEF its
<1>9. \A t \in habit : IsFiniteSet(B[t]) /\ Cardinality(B[t]) <= CountStates(old, new, t)
  <2> SUFFICES ASSUME NEW t \in habit PROVE IsFiniteSet(B[t]) /\ Cardinality(B[t]) <= CountStates(old, new, t)
    OBVIOUS
  <2>1. B[t] \in SUBSET Block
    OBVIOUS
  <2>2. \A b \in B[t] : StateFields(Members(old[b]), t) # {}
    BY <1>7
  <2>3. IsFiniteSet(B[t])
    BY <2>1, FS_Subset
  <2>4. Cardinality(B[t]) <= CountStates(old, new, t)
    BY <2>1, <2>2, CountKnows
  <2> QED
    BY <2>3, <2>4
<1>10. UNION {B[t] : t \in habit} = before
  <2>1. \A b \in before : its(b).type \in habit /\ b \in B[its(b).type]
    BY <1>4, <1>7
  <2> QED
    BY <2>1
<1> HIDE DEF B, before, habit
<1>12. /\ Total(old, new, habit) \in Nat
       /\ IsFiniteSet(UNION {B[t] : t \in habit})
       /\ Cardinality(UNION {B[t] : t \in habit}) <= Total(old, new, habit)
  BY <1>1, <1>5, <1>9, TotalCovers
<1>13. Cardinality(before) \in Nat
  BY <1>10, <1>12, FS_CardinalityType
<1> QED
  BY <1>4, <1>10, <1>12, <1>13 DEF before, habit

-----------------------------------------------------------------------------
(* What the checks are enough for.                                         *)

\* A block that did not change is the one that HEAD has; one that did is read.
LEMMA ChangedIsTouched ==
    ASSUME NEW old, NEW new, NEW b \in Present(new)
    PROVE  old[b] = new[b] \/ b \in TouchedBlocks(old, new)
BY DEF TouchedBlocks, Touched, Present

\* Nothing but the whole of the gates is known of what passed.
LEMMA PassedHolds ==
    ASSUME ChildInv, place = "child_passed"
    PROVE  /\ request.repo \in Repo
           /\ GateHolds(Old, work, TRUE, request.type # None)
BY OwnerAssumption DEF ChildInv, ChildPlace, Request, Fails

LEMMA NothingTouched ==
    ASSUME NEW old, NEW new, Touched(old, new) = {}
    PROVE  \A b \in Block : old[b] = new[b]
BY DEF Touched, Present

\* changedExisting with duplicateFieldNumbers keeps the meaning of numbers.
LEMMA GatesKeepNumbers ==
    ASSUME ChildInv
    PROVE  NumbersKeepMeaning
<1> SUFFICES ASSUME place = "child_passed", NEW b \in Named(Old, "message")
             PROVE  /\ \A m \in Fields(Old[b]), n \in Fields(work[b]) : m.num = n.num => m = n
                    /\ Fields(Old[b]) \subseteq Fields(work[b])
  BY DEF NumbersKeepMeaning
<1>1. request.repo \in Repo /\ GateHolds(Old, work, TRUE, request.type # None)
  BY PassedHolds
<1>2. b \in Block
  BY DEF Named, Present
<1>3. \A m, n \in Fields(Old[b]) : m.num = n.num => m = n
  BY <1>1, <1>2, ContractAssumption DEF Old
<1>4. CASE Old[b] = work[b]
  BY <1>3, <1>4
<1>5. CASE Old[b] # work[b]
  <2>1. ~ChangedExisting(Old, work) /\ ~DuplicateFieldNumbers(Old, work)
    BY <1>1, <1>2, <1>5, NothingTouched DEF GateHolds, CheckProtoChange
  <2>2. Fields(Old[b]) \subseteq Fields(work[b])
    BY <1>2, <2>1 DEF ChangedExisting, Removed, RemovedIn, Fields, Of
  <2>3. CASE Fields(Old[b]) = {}
    BY <2>3
  <2>4. CASE Fields(Old[b]) # {}
    <3>1. work[b] # NoDecl
      BY <2>2, <2>4 DEF Fields, Members, Of
    <3>2. work[b].kind = "message"
      BY <1>2, <2>2, <2>4, <3>1, ContractAssumption DEF ChildInv, TypeOK
    <3>3. b \in TouchedBlocks(Old, work) \cap Named(work, "message")
      BY <1>2, <1>5, <3>1, <3>2, ChangedIsTouched DEF Named, Present
    <3> QED
      BY <2>1, <2>2, <3>3 DEF DuplicateFieldNumbers
  <2> QED
    BY <2>2, <2>3, <2>4
<1> QED
  BY <1>4, <1>5

\* duplicateDecls looks at touched files only, and that is enough.
LEMMA GatesKeepNames ==
    ASSUME ChildInv
    PROVE  NamesAreUnique
<1> SUFFICES ASSUME place = "child_passed", NEW b \in Present(work), NEW c \in Present(work),
                    b # c, PackageOf[work[b].file] = PackageOf[work[c].file]
             PROVE  work[b].name # work[c].name
  BY DEF NamesAreUnique
<1>1. request.repo \in Repo /\ GateHolds(Old, work, TRUE, request.type # None)
  BY PassedHolds
<1>2. CASE Touched(Old, work) = {}
  <2>1. Old[b] = work[b] /\ Old[c] = work[c] /\ b \in Present(Old) /\ c \in Present(Old)
    BY <1>2, NothingTouched DEF Present
  <2> QED
    BY <1>1, <2>1, ContractAssumption DEF Old
<1>3. CASE Touched(Old, work) # {}
  <2>1. ~DuplicateDecls(Old, work)
    BY <1>1, <1>3 DEF GateHolds, CheckProtoChange
  <2>2. CASE b \in TouchedBlocks(Old, work)
    BY <2>1, <2>2 DEF DuplicateDecls
  <2>3. CASE c \in TouchedBlocks(Old, work)
    BY <2>1, <2>3 DEF DuplicateDecls
  <2>4. CASE Old[b] = work[b] /\ Old[c] = work[c]
    <3>1. b \in Present(Old) /\ c \in Present(Old)
      BY <2>4 DEF Present
    <3> QED
      BY <1>1, <2>4, <3>1, ContractAssumption DEF Old
  <2> QED
    BY <2>2, <2>3, <2>4, ChangedIsTouched
<1> QED
  BY <1>2, <1>3

\* fieldWentIntoNewMessage and stateChangeNeedsAnRPC leave a way to the state.
LEMMA GatesKeepStateReachable ==
    ASSUME ChildInv
    PROVE  StateIsReachable
<1> SUFFICES ASSUME place = "child_passed", request.type # None, Of("field", Added(Old, work)) # {}
             PROVE  /\ \E b \in Present(Old) : Of("field", AddedIn(Old, work, b)) # {}
                    /\ (\E m \in Added(Old, work) : IsState(m))
                         => \E m \in Added(Old, work) : m.kind = "rpc"
  BY DEF StateIsReachable
<1>1. /\ ~StateChangeNeedsAnRPC(Old, work)
      /\ ~FieldWentIntoNewMessage(Old, work)
  BY PassedHolds DEF GateHolds
<1>2. (\E m \in Added(Old, work) : IsState(m)) => \E m \in Added(Old, work) : m.kind = "rpc"
  BY <1>1 DEF StateChangeNeedsAnRPC, Of
<1> DEFINE inNew(b) == /\ b \in OpenedNew(Old, work) \cap Named(work, "message")
                       /\ Old[b] = NoDecl \/ work[b].front
           fields(b) == Of("field", AddedIn(Old, work, b))
<1>3. PICK a \in Block : fields(a) # {}
  BY DEF Added, Of
<1>4. \E b \in Block : ~inNew(b) /\ fields(b) # {}
  BY <1>1, <1>3 DEF FieldWentIntoNewMessage
<1>5. PICK b \in Block : ~inNew(b) /\ fields(b) # {}
  BY <1>4
<1>6. work[b] # NoDecl /\ Fields(work[b]) # {}
  BY <1>5 DEF AddedIn, Members, Of, Fields
<1>7. work[b].kind = "message"
  BY <1>6, ContractAssumption DEF ChildInv, TypeOK
<1>8. Old[b] # NoDecl
  BY <1>5, <1>6, <1>7 DEF OpenedNew, Named, Present
<1> QED
  BY <1>2, <1>5, <1>8 DEF Present

\* What a child works on is finite, in every state.
LEMMA WorkFinite ==
    ASSUME ChildInv
    PROVE  IsFiniteSet(Block) /\ \A b \in Block : IsFiniteSet(Members(work[b]))
<1>1. \A b \in Block : work[b] \in Versions[b] \cup {NoDecl}
  BY DEF ChildInv, TypeOK
<1>2. IsFiniteSet(Members(NoDecl))
  BY FS_EmptySet DEF Members
<1> QED
  BY <1>1, <1>2, ContractAssumption

\* stateFieldTypeOffHabit keeps the types of states.
LEMMA GatesKeepStateTypes ==
    ASSUME ChildInv
    PROVE  StateTypesStay
<1> DEFINE before == {b \in Block : \E m \in Members(Old[b]) : IsState(m)}
<1> SUFFICES ASSUME place = "child_passed", Cardinality(before) >= MinHabit,
                    NEW m \in Added(Old, work), IsState(m)
             PROVE  m.type \in StateTypes(Old) \cup {work[b].name : b \in Named(work, "enum")}
  BY DEF StateTypesStay
<1>1. GateHolds(Old, work, TRUE, request.type # None)
  BY PassedHolds
<1>2. Touched(Old, work) # {}
  <2> SUFFICES ASSUME Touched(Old, work) = {} PROVE FALSE
    OBVIOUS
  <2>1. \A b \in Block : Old[b] = work[b]
    BY NothingTouched
  <2> QED
    BY <2>1 DEF Added, AddedIn
<1>3. ~ChangedExisting(Old, work) /\ ~StateFieldTypeOffHabit(Old, work)
  BY <1>1, <1>2 DEF GateHolds, CheckProtoChange
<1>4. \A b \in Block : Fields(Old[b]) \subseteq Fields(work[b])
  BY <1>3 DEF ChangedExisting, Removed, RemovedIn, Fields, Of
<1>5. IsFiniteSet(Block) /\ \A b \in Block : IsFiniteSet(Members(work[b]))
  BY WorkFinite
<1> DEFINE habit == {t \in StateTypes(work) : CountStates(Old, work, t) > 0}
           total == Total(Old, work, habit)
<1>6. /\ habit = StateTypes(Old) /\ Cardinality(before) \in Nat
      /\ total \in Nat /\ Cardinality(before) <= total
  BY <1>4, <1>5, HabitStands
<1>7. ~ (total >= MinHabit /\ m.type \notin habit \cup {work[b].name : b \in Named(work, "enum")})
  BY <1>3 DEF StateFieldTypeOffHabit, Total, MapThenSumSet, MapThenFoldSet
<1> HIDE DEF habit, total, before
<1>8. total >= MinHabit
  BY <1>6, ProtoAssumption
<1> QED
  BY <1>6, <1>7, <1>8

\* What the contract gates let through keeps every number and name, the types of states
\* and a way to a new one, whatever the child wrote and how often it was told to do it
\* again (CheckProtoChange and gateChecks).
THEOREM PassedIsReadable == Spec => []ContractStaysReadable
<1>1. ChildInv => ContractStaysReadable
  BY GatesKeepNumbers, GatesKeepNames, GatesKeepStateTypes, GatesKeepStateReachable
     DEF ChildInv, ContractStaysReadable
<1> QED
  BY <1>1, ChildInductive, PTL

-----------------------------------------------------------------------------
(* The other way round: what a proper change meets.                        *)

\* Fields that take the numbers from 1 on have each its own.
LEMMA DenseDiffer ==
    ASSUME NEW F, IsFiniteSet(F), Dense(F), NEW m \in F, NEW n \in F, m.num = n.num
    PROVE  m = n
<1> DEFINE g == [x \in F |-> x.num]
           N == 1..Cardinality(F)
<1>1. Cardinality(F) \in Nat
  BY FS_CardinalityType
<1>2. {x.num : x \in F} = N
  BY DEF Dense
<1>3. g \in Surjection(F, N)
  <2>1. g \in [F -> N]
    BY <1>2
  <2>2. \A y \in N : \E x \in F : g[x] = y
    BY <1>2
  <2> HIDE DEF g, N
  <2> QED
    BY <2>1, <2>2 DEF Surjection
<1>4. Cardinality(N) = Cardinality(F)
  BY <1>1, FS_Interval
<1> HIDE DEF N
<1>5. g \in Injection(F, N)
  <2> HIDE DEF g
  <2> QED
    BY <1>3, <1>4, FS_SurjSameCardinalityImpliesInj
<1>6. g[m] = g[n]
  OBVIOUS
<1> HIDE DEF g
<1> QED
  BY <1>5, <1>6 DEF Injection, IsInjective

\* The largest of finitely many numbers.
LEMMA LargestNumber ==
    ASSUME NEW N \in Nat, NEW S \in SUBSET (1..N), S # {}
    PROVE  Max(S) \in S /\ \A k \in S : k <= Max(S)
<1> DEFINE D == {N - k : k \in S}
<1>1. D \in SUBSET Nat /\ D # {}
  <2>1. \A k \in S : N - k \in Nat
    OBVIOUS
  <2> QED
    BY <2>1
<1>2. PICK d \in D : \A e \in D : d <= e
  BY <1>1, LeastNumber
<1>3. PICK m \in S : d = N - m
  OBVIOUS
<1>4. \A k \in S : N - m <= N - k
  BY <1>2, <1>3
<1>5. \A k \in S : m >= k
  BY <1>4
<1> QED
  BY <1>5 DEF Max

\* With numbers from 1 on no new field is further out than there are new fields.
LEMMA DenseHasNoGap ==
    ASSUME NEW F, IsFiniteSet(F), Dense(F), NEW here \in SUBSET F, NEW m \in F,
           {x.num : x \in F \ here} # {}
    PROVE  ~ m.num > Max({x.num : x \in F \ here}) + Cardinality(here)
<1> DEFINE N == Cardinality(F)
           before == {x.num : x \in F \ here}
           g == [x \in here |-> x.num]
           hers == {g[x] : x \in here}
<1>1. N \in Nat
  BY FS_CardinalityType
<1>2. {x.num : x \in F} = 1..N
  BY DEF Dense
<1>3. before \in SUBSET (1..N) /\ m.num \in 1..N /\ before # {}
  BY <1>2
<1>4. hers \cup before = 1..N
  BY <1>2
<1>5. IsFiniteSet(here) /\ Cardinality(here) \in Nat
  BY FS_Subset, FS_CardinalityType
<1>6. g \in Surjection(here, hers)
  BY DEF Surjection
<1> HIDE DEF g, hers
<1>7. IsFiniteSet(hers) /\ Cardinality(hers) <= Cardinality(here) /\ Cardinality(hers) \in Nat
  BY <1>5, <1>6, FS_Surjection, FS_CardinalityType
<1> HIDE DEF before
<1>8. Max(before) \in 1..N /\ before \in SUBSET (1..Max(before))
  <2>1. Max(before) \in before /\ \A k \in before : k <= Max(before)
    BY <1>1, <1>3, LargestNumber
  <2> HIDE DEF N
  <2> QED
    BY <1>3, <2>1
<1>9. IsFiniteSet(before) /\ Cardinality(before) <= Max(before) /\ Cardinality(before) \in Nat
  <2>1. IsFiniteSet(1..Max(before)) /\ Cardinality(1..Max(before)) = Max(before)
    BY <1>8, FS_Interval
  <2> QED
    BY <1>8, <2>1, FS_Subset, FS_CardinalityType
<1>10. Cardinality(hers \cup before) = Cardinality(hers) + Cardinality(before) - Cardinality(hers \cap before)
  BY <1>7, <1>9, FS_Union
<1>11. Cardinality(hers \cap before) \in Nat
  <2>1. IsFiniteSet(hers \cap before)
    BY <1>7, FS_Subset
  <2> QED
    BY <2>1, FS_CardinalityType
<1>12. Cardinality(1..N) = N
  BY <1>1, FS_Interval
<1>13. N = Cardinality(hers) + Cardinality(before) - Cardinality(hers \cap before)
  BY <1>4, <1>10, <1>12
<1> HIDE DEF N
<1>14. PICK top \in 1..N : top = Max(before)
  BY <1>8
<1>15. PICK a, b, c, d \in Nat : /\ a = Cardinality(hers) /\ b = Cardinality(before)
                                /\ c = Cardinality(hers \cap before) /\ d = Cardinality(here)
  BY <1>5, <1>7, <1>9, <1>11
<1>16. N = a + b - c /\ a <= d /\ b <= top
  BY <1>7, <1>9, <1>13, <1>14, <1>15
<1>17. N <= top + d
  BY <1>1, <1>14, <1>15, <1>16
<1>18. ~ m.num > Max(before) + Cardinality(here)
  BY <1>1, <1>3, <1>14, <1>15, <1>17
<1> QED
  BY <1>18 DEF before

\* A proper change opens nothing but what was not there.
LEMMA ProperOpens ==
    ASSUME NEW old, NEW new, Proper(old, new), NEW b \in OpenedNew(old, new)
    PROVE  b \in Present(new) \ Present(old) /\ old[b] = NoDecl
BY DEF Proper, OpenedNew, Present

\* A proper change takes nothing away.
LEMMA ProperKeeps ==
    ASSUME NEW old, NEW new, Proper(old, new), NEW b \in Block
    PROVE  Members(old[b]) \subseteq Members(new[b])
<1>1. CASE old[b] = NoDecl
  BY <1>1 DEF Members
<1>2. CASE old[b] # NoDecl
  BY <1>2 DEF Proper
<1> QED
  BY <1>1, <1>2

\* The checks that count the numbers of fields (duplicateFieldNumbers, fieldNumberGaps).
LEMMA ProperCounts ==
    ASSUME NEW old, NEW new, Proper(old, new), \A b \in Block : IsFiniteSet(Members(new[b]))
    PROVE  ~DuplicateFieldNumbers(old, new) /\ ~FieldNumberGaps(old, new)
<1>1. \A b \in Named(new, "message") : IsFiniteSet(Fields(new[b])) /\ Dense(Fields(new[b]))
  <2> SUFFICES ASSUME NEW b \in Named(new, "message")
               PROVE  IsFiniteSet(Fields(new[b])) /\ Dense(Fields(new[b]))
    OBVIOUS
  <2>1. IsFiniteSet(Members(new[b])) /\ Fields(new[b]) \subseteq Members(new[b])
    BY DEF Named, Present, Fields, Of
  <2>2. Dense(Fields(new[b]))
    BY DEF Proper
  <2> QED
    BY <2>1, <2>2, FS_Subset
<1>2. ~DuplicateFieldNumbers(old, new)
  <2> SUFFICES ASSUME NEW b \in Named(new, "message"),
                      NEW m \in Fields(new[b]), NEW n \in Fields(new[b]), m.num = n.num
               PROVE  m = n
    BY DEF DuplicateFieldNumbers
  <2> QED
    BY <1>1, DenseDiffer
<1>3. ~FieldNumberGaps(old, new)
  <2> DEFINE added == {<<m.name, m.num>> : m \in Of("field", Added(old, new))}
             here(b) == {m \in Fields(new[b]) : <<m.name, m.num>> \in added}
  <2> HIDE DEF added
  <2>1. ASSUME NEW b \in Named(new, "message"), NEW m \in here(b),
               {x.num : x \in Fields(new[b]) \ here(b)} # {}
        PROVE  ~ m.num > Max({x.num : x \in Fields(new[b]) \ here(b)}) + Cardinality(here(b))
    <3>1. here(b) \in SUBSET Fields(new[b]) /\ m \in Fields(new[b])
      OBVIOUS
    <3> HIDE DEF here
    <3> QED
      BY <1>1, <2>1, <3>1, DenseHasNoGap
  <2> QED
    BY <2>1 DEF FieldNumberGaps, added
<1> QED
  BY <1>2, <1>3

\* States of a proper change have a type that was there (stateFieldTypeOffHabit).
LEMMA ProperIsTyped ==
    ASSUME NEW old, NEW new, Proper(old, new),
           IsFiniteSet(Block), \A b \in Block : IsFiniteSet(Members(new[b]))
    PROVE  ~StateFieldTypeOffHabit(old, new)
<1> DEFINE habit == {t \in StateTypes(new) : CountStates(old, new, t) > 0}
<1>1. \A b \in Block : Fields(old[b]) \subseteq Fields(new[b])
  BY ProperKeeps DEF Fields, Of
<1>2. habit = StateTypes(old)
  BY <1>1, HabitStands
<1>3. \A m \in Added(old, new) : IsState(m) => m.type \in StateTypes(old)
  BY DEF Proper
<1>4. ~ \E m \in Added(old, new) :
          IsState(m) /\ m.type \notin habit \cup {new[b].name : b \in Named(new, "enum")}
  BY <1>2, <1>3
<1> QED
  BY <1>4 DEF StateFieldTypeOffHabit

\* The checks that read what was opened or declared.
LEMMA ProperDeclares ==
    ASSUME NEW old, NEW new, Proper(old, new)
    PROVE  /\ ~DuplicateDecls(old, new)
           /\ ~ChangedExisting(old, new)
           /\ ~NewServiceBesideOne(old, new)
           /\ ~EnumZeroMeansSomething(old, new)
           /\ ~SameNameDifferentType(old, new)
           /\ ~EmptyNewMessage(old, new)
           /\ ~SuffixNameOffHabit(old, new)
<1>1. ~DuplicateDecls(old, new)
  BY DEF DuplicateDecls, TouchedBlocks, Proper
<1>2. ~ChangedExisting(old, new)
  BY ProperKeeps DEF ChangedExisting, Removed, RemovedIn
<1>3. ~NewServiceBesideOne(old, new)
  <2>1. OpenedNew(old, new) \cap Named(new, "service") = {}
    BY ProperOpens DEF Named, Proper
  <2> QED
    BY <2>1 DEF NewServiceBesideOne
<1>4. ~EnumZeroMeansSomething(old, new)
  BY DEF EnumZeroMeansSomething, AddedIn, Proper
<1>5. ~SameNameDifferentType(old, new)
  BY DEF SameNameDifferentType, Proper
<1>6. ~EmptyNewMessage(old, new)
  BY ProperOpens DEF EmptyNewMessage, FieldsUnderHeader, Proper
<1>7. ~SuffixNameOffHabit(old, new)
  BY ProperOpens DEF SuffixNameOffHabit, Proper
<1> QED
  BY <1>1, <1>2, <1>3, <1>4, <1>5, <1>6, <1>7

\* No gate turns away a change that does what the request asks for, so that a child that
\* wrote one is not told to do it again (CheckProtoChange and gateChecks).
THEOREM ProperGetsThrough == Spec => []ProperChangePasses
<1>1. ChildInv => ProperChangePasses
  <2> SUFFICES ASSUME ChildInv, Proper(Old, work) PROVE ~Fails
    BY DEF ProperChangePasses
  <2>1. IsFiniteSet(Block) /\ \A b \in Block : IsFiniteSet(Members(work[b]))
    BY WorkFinite
  <2>2. ~CheckProtoChange(Old, work)
    BY <2>1, ProperCounts, ProperIsTyped, ProperDeclares DEF CheckProtoChange
  <2>3. ~StateChangeNeedsAnRPC(Old, work)
    BY DEF StateChangeNeedsAnRPC, Proper
  <2>4. ~FieldWentIntoNewMessage(Old, work)
    <3>1. PICK b \in Present(Old) : Of("field", AddedIn(Old, work, b)) # {}
      BY DEF Proper
    <3>2. b \in Block /\ b \notin OpenedNew(Old, work)
      BY <3>1, ProperOpens DEF Present
    <3> QED
      BY <3>1, <3>2 DEF FieldWentIntoNewMessage
  <2> QED
    BY <2>2, <2>3, <2>4 DEF Fails, GateHolds
<1> QED
  BY <1>1, ChildInductive, PTL

=============================================================================
