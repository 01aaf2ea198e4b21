--------------------------- MODULE AgentLoop_proofs ---------------------------
(***************************************************************************)
(* Theorems about a run of the agent and the servers it talks to, for any  *)
(* servers, catalogues, calls, answers, windows and numbers of turns.      *)
(***************************************************************************)
EXTENDS AgentLoop, FiniteSetTheorems, WellFoundedInduction, TLAPS

-----------------------------------------------------------------------------
(* Numbers and sequences.                                                  *)

\* The least number of a set.
LEMMA LeastNumber ==
    ASSUME NEW S \in SUBSET Nat, S # {}
    PROVE  \E m \in S : \A n \in S : m <= n
<1> DEFINE Less == {p \in Nat \X Nat : p[1] < p[2]}
<1>1. IsWellFoundedOn(Less, Nat)
  BY NatLessThanWellFounded DEF OpToRel
<1>2. \A m, n \in Nat : <<n, m>> \notin Less => m <= n
  OBVIOUS
<1> HIDE DEF Less
<1>3. PICK m \in S : \A n \in S : <<n, m>> \notin Less
  BY <1>1, WFMin
<1> QED
  BY <1>2, <1>3

\* What holds of 0 and of each number after one it holds of, holds of all up to n.
LEMMA NumbersUpTo ==
    ASSUME NEW n \in Nat, NEW H, 0 \in H, \A k \in 1..n : k - 1 \in H => k \in H
    PROVE  0..n \subseteq H
<1> DEFINE Off == {k \in 0..n : k \notin H}
<1> SUFFICES ASSUME Off # {} PROVE FALSE
  OBVIOUS
<1>1. Off \in SUBSET Nat
  OBVIOUS
<1>2. PICK m \in Off : \A k \in Off : m <= k
  BY <1>1, LeastNumber
<1>3. m \in 1..n /\ m - 1 \in 0..n /\ ~ m <= m - 1
  BY <1>2
<1>4. m - 1 \in H
  BY <1>2, <1>3
<1> QED
  BY <1>2, <1>3, <1>4

\* What holds of the empty set and of each set where it holds without one of its elements,
\* holds of every part of a finite set.
LEMMA PartsOf ==
    ASSUME NEW D, IsFiniteSet(D), NEW H, {} \in H,
           \A s \in SUBSET D : s # {} /\ (\A x \in s : s \ {x} \in H) => s \in H
    PROVE  SUBSET D \subseteq H
<1> DEFINE Size == {k \in Nat : \A s \in SUBSET D : Cardinality(s) = k => s \in H}
<1>1. ASSUME NEW s \in SUBSET D
      PROVE  /\ Cardinality(s) \in Nat /\ Cardinality(s) <= Cardinality(D)
             /\ Cardinality(s) = 0 <=> s = {}
             /\ \A x \in s : Cardinality(s \ {x}) = Cardinality(s) - 1
  <2>1. IsFiniteSet(s) /\ Cardinality(s) <= Cardinality(D)
    BY FS_Subset
  <2> QED
    BY <2>1, FS_CardinalityType, FS_EmptySet, FS_RemoveElement
<1>2. 0 \in Size
  BY <1>1
<1>3. ASSUME NEW k \in 1..Cardinality(D), k - 1 \in Size PROVE k \in Size
  <2> SUFFICES ASSUME NEW s \in SUBSET D, Cardinality(s) = k PROVE s \in H
    BY <1>1
  <2>1. s # {}
    BY <1>1
  <2>2. \A x \in s : s \ {x} \in SUBSET D /\ Cardinality(s \ {x}) = k - 1
    BY <1>1
  <2>3. \A x \in s : s \ {x} \in H
    BY <1>3, <2>2
  <2> QED
    BY <2>1, <2>3
<1>4. Cardinality(D) \in Nat
  BY FS_CardinalityType
<1> HIDE DEF Size
<1>5. 0..Cardinality(D) \subseteq Size
  BY <1>2, <1>3, <1>4, NumbersUpTo
<1> SUFFICES ASSUME NEW s \in SUBSET D PROVE s \in H
  OBVIOUS
<1>6. Cardinality(s) \in 0..Cardinality(D)
  BY <1>1, <1>4
<1>7. Cardinality(s) \in Size
  BY <1>5, <1>6
<1> QED
  BY <1>7 DEF Size

\* The greatest place of a set of places.
LEMMA GreatestPlace ==
    ASSUME NEW n \in Nat, NEW S \in SUBSET (1..n), S # {}
    PROVE  \E m \in S : \A k \in S : k <= m
<1> DEFINE D == {n - k : k \in S}
<1>1. D \in SUBSET Nat /\ D # {}
  <2>1. \A k \in S : n - k \in Nat
    OBVIOUS
  <2> QED
    BY <2>1
<1>2. PICK d \in D : \A e \in D : d <= e
  BY <1>1, LeastNumber
<1>3. PICK m \in S : d = n - m
  OBVIOUS
<1>4. \A k \in S : n - m <= n - k
  BY <1>2, <1>3
<1> QED
  BY <1>4

\* What the last and the first element of a sequence do to it.
LEMMA SeqAppend ==
    ASSUME NEW T, NEW q \in Seq(T), NEW x \in T
    PROVE  /\ Append(q, x) \in Seq(T) /\ Len(Append(q, x)) = Len(q) + 1 /\ Len(q) \in Nat
           /\ \A i \in 1..Len(q) : Append(q, x)[i] = q[i]
           /\ Append(q, x)[Len(q) + 1] = x
           /\ \A i \in 1..Len(Append(q, x)) : i \in 1..Len(q) \/ i = Len(q) + 1
OBVIOUS

LEMMA SeqTail ==
    ASSUME NEW T, NEW q \in Seq(T), q # <<>>
    PROVE  /\ Head(q) = q[1] /\ Head(q) \in T /\ Tail(q) \in Seq(T)
           /\ Len(q) \in Nat /\ Len(q) >= 1 /\ Len(Tail(q)) = Len(q) - 1
           /\ \A i \in 1..Len(Tail(q)) : Tail(q)[i] = q[i + 1] /\ i + 1 \in 2..Len(q)
OBVIOUS

\* Sequences in a row are a sequence.
LEMMA FlattenTyped ==
    ASSUME NEW T, NEW seqs \in Seq(Seq(T))
    PROVE  FlattenSeq(seqs) \in Seq(T)
<1> DEFINE N == Len(seqs)
           Full(f) == f = [i \in 1..N |-> IF i = 1 THEN seqs[i] ELSE f[i - 1] \o seqs[i]]
<1>1. N \in Nat /\ \A i \in 1..N : seqs[i] \in Seq(T)
  OBVIOUS
<1>2. CASE N = 0
  <2>1. seqs = <<>>
    BY <1>2
  <2> QED
    BY <1>2, <2>1 DEF FlattenSeq
<1>3. CASE N # 0
  <2>1. FlattenSeq(seqs) = (CHOOSE f : Full(f))[N]
    BY <1>3 DEF FlattenSeq
  <2> DEFINE UpTo(n) == \E f \in [1..n -> Seq(T)] :
                 f = [i \in 1..n |-> IF i = 1 THEN seqs[i] ELSE f[i - 1] \o seqs[i]]
             Bad == {n \in 0..N : ~ UpTo(n)}
  <2>2. ASSUME Bad # {} PROVE FALSE
    <3> HIDE DEF UpTo, N
    <3>1. Bad \in SUBSET Nat
      BY <1>1
    <3> HIDE DEF Bad
    <3>2. PICK m \in Bad : \A n \in Bad : m <= n
      BY <2>2, <3>1, LeastNumber
    <3>9. m \in 0..N /\ ~ UpTo(m) /\ \A n \in 0..N : n < m => UpTo(n)
      BY <1>1, <3>2 DEF Bad
    <3>3. m # 0
      <4> SUFFICES ASSUME m = 0 PROVE FALSE
        OBVIOUS
      <4> DEFINE e == [i \in 1..0 |-> <<>>]
      <4>1. e \in [1..0 -> Seq(T)] /\ e = [i \in 1..0 |-> IF i = 1 THEN seqs[i] ELSE e[i - 1] \o seqs[i]]
        OBVIOUS
      <4> QED
        BY <3>9, <4>1 DEF UpTo
    <3>4. m \in 1..N /\ m - 1 \in 0..N /\ UpTo(m - 1)
      BY <1>1, <3>9, <3>3
    <3>5. PICK f \in [1..(m - 1) -> Seq(T)] :
             f = [i \in 1..(m - 1) |-> IF i = 1 THEN seqs[i] ELSE f[i - 1] \o seqs[i]]
      BY <3>4 DEF UpTo
    <3> DEFINE g == [i \in 1..m |-> IF i = 1 THEN seqs[i]
                                    ELSE IF i = m THEN f[i - 1] \o seqs[i] ELSE f[i]]
    <3>6. \A i \in 1..m : g[i] = IF i = 1 THEN seqs[i] ELSE g[i - 1] \o seqs[i]
      <4> SUFFICES ASSUME NEW i \in 1..m, i # 1 PROVE g[i] = g[i - 1] \o seqs[i]
        OBVIOUS
      <4>1. i - 1 \in 1..(m - 1)
        BY <3>4
      <4>2. g[i - 1] = f[i - 1]
        BY <3>4, <3>5, <4>1
      <4>3. CASE i = m
        BY <4>2, <4>3
      <4>4. CASE i # m
        <5>1. i \in 1..(m - 1) /\ g[i] = f[i]
          BY <3>4, <4>4
        <5> QED
          BY <3>5, <4>2, <5>1
      <4> QED
        BY <4>3, <4>4
    <3>7. g \in [1..m -> Seq(T)]
      <4> SUFFICES ASSUME NEW i \in 1..m PROVE g[i] \in Seq(T)
        OBVIOUS
      <4>1. seqs[i] \in Seq(T)
        BY <1>1, <3>4
      <4>2. CASE i = 1
        BY <4>1, <4>2
      <4>3. CASE i # 1 /\ i = m
        <5>1. f[i - 1] \in Seq(T)
          BY <3>4, <4>3
        <5> QED
          BY <4>1, <4>3, <5>1
      <4>4. CASE i # 1 /\ i # m
        BY <3>4, <4>4
      <4> QED
        BY <4>2, <4>3, <4>4
    <3>8. g = [i \in 1..m |-> IF i = 1 THEN seqs[i] ELSE g[i - 1] \o seqs[i]]
      BY <3>6
    <3> QED
      BY <3>9, <3>7, <3>8 DEF UpTo
  <2>3. \E f : Full(f)
    <3>1. UpTo(N)
      <4> HIDE DEF UpTo, N
      <4> QED
        BY <1>1, <2>2
    <3> QED
      BY <3>1
  <2> DEFINE flat == CHOOSE f : Full(f)
  <2>4. Full(flat)
    BY <2>3
  <2> HIDE DEF flat
  <2> DEFINE Off == {i \in 1..N : flat[i] \notin Seq(T)}
  <2>5. ASSUME Off # {} PROVE FALSE
    <3> HIDE DEF N
    <3>1. Off \in SUBSET Nat
      BY <1>1
    <3>2. PICK m \in Off : \A n \in Off : m <= n
      BY <2>5, <3>1, LeastNumber
    <3>3. flat[m] = IF m = 1 THEN seqs[m] ELSE flat[m - 1] \o seqs[m]
      BY <2>4, <3>2
    <3>4. CASE m = 1
      BY <1>1, <3>2, <3>3, <3>4
    <3>5. CASE m # 1
      <4>1. m - 1 \in 1..N /\ ~ m <= m - 1
        BY <1>1, <3>2, <3>5
      <4>2. flat[m - 1] \in Seq(T) /\ seqs[m] \in Seq(T)
        BY <1>1, <3>2, <4>1
      <4>3. flat[m - 1] \o seqs[m] \in Seq(T)
        BY <4>2
      <4> QED
        BY <3>2, <3>3, <3>5, <4>3
    <3> QED
      BY <3>4, <3>5
  <2>6. N \in 1..N
    BY <1>1, <1>3
  <2>7. flat[N] \in Seq(T)
    BY <2>5, <2>6
  <2> QED
    BY <2>1, <2>7 DEF flat
<1> QED
  BY <1>2, <1>3

\* f folds W over the parts of D, pick by pick, from base.
Folds(f, D, base, pick, W) ==
    f = [s \in SUBSET D |-> IF s = {} THEN base ELSE W[<<pick[s], f[s \ {pick[s]}]>>]]

\* A fold over a finite set is a function.
LEMMA FoldStands ==
    ASSUME NEW D, IsFiniteSet(D), NEW T, NEW base \in T, NEW W \in [D \X T -> T],
           NEW pick, \A s \in SUBSET D : s # {} => pick[s] \in s
    PROVE  \E f \in [SUBSET D -> T] : Folds(f, D, base, pick, W)
<1> DEFINE Small(n) == {s \in SUBSET D : Cardinality(s) <= n}
           FoldsOn(S) == \E f \in [S -> T] :
               f = [s \in S |-> IF s = {} THEN base ELSE W[<<pick[s], f[s \ {pick[s]}]>>]]
           UpTo(n) == FoldsOn(Small(n))
           H == {n \in Nat : UpTo(n)}
<1>1. Cardinality(D) \in Nat
  BY FS_CardinalityType
<1>2. ASSUME NEW s \in SUBSET D
      PROVE  /\ Cardinality(s) \in Nat /\ Cardinality(s) <= Cardinality(D)
             /\ Cardinality(s) = 0 <=> s = {}
             /\ s # {} => pick[s] \in D /\ Cardinality(s \ {pick[s]}) = Cardinality(s) - 1
  <2>1. IsFiniteSet(s) /\ Cardinality(s) <= Cardinality(D)
    BY FS_Subset
  <2> QED
    BY <2>1, FS_CardinalityType, FS_EmptySet, FS_RemoveElement
<1>3. UpTo(0)
  <2>1. ASSUME NEW s \in Small(0) PROVE s = {}
    <3>1. s \in SUBSET D /\ Cardinality(s) <= 0
      OBVIOUS
    <3>2. Cardinality(s) \in Nat
      BY <1>2, <3>1
    <3>3. Cardinality(s) = 0
      BY <3>1, <3>2
    <3> QED
      BY <1>2, <3>1, <3>3
  <2> DEFINE f == [s \in Small(0) |-> base]
  <2>2. f \in [Small(0) -> T]
    OBVIOUS
  <2>3. \A s \in Small(0) : base = IF s = {} THEN base ELSE W[<<pick[s], f[s \ {pick[s]}]>>]
    BY <2>1
  <2> DEFINE again(g) == [s \in Small(0) |-> IF s = {} THEN base ELSE W[<<pick[s], g[s \ {pick[s]}]>>]]
  <2>4. f = again(f)
    BY <2>3, Zenon
  <2> QED
    BY <2>2, <2>4
<1>4. ASSUME NEW m \in 1..Cardinality(D), UpTo(m - 1) PROVE UpTo(m)
  <2>1. PICK f \in [Small(m - 1) -> T] :
           f = [s \in Small(m - 1) |-> IF s = {} THEN base ELSE W[<<pick[s], f[s \ {pick[s]}]>>]]
    BY <1>4
  <2> DEFINE g == [s \in Small(m) |-> IF s = {} THEN base ELSE W[<<pick[s], f[s \ {pick[s]}]>>]]
  <2>2. ASSUME NEW s \in Small(m), s # {}
        PROVE  /\ s \ {pick[s]} \in Small(m - 1) /\ s \ {pick[s]} \in Small(m)
               /\ pick[s] \in D /\ s \in SUBSET D
    BY <1>1, <1>2, <1>4, <2>2
  <2>3. g \in [Small(m) -> T]
    <3> SUFFICES ASSUME NEW s \in Small(m) PROVE g[s] \in T
      OBVIOUS
    <3>1. CASE s = {}
      BY <3>1
    <3>2. CASE s # {}
      <4> HIDE DEF Small
      <4>1. f[s \ {pick[s]}] \in T /\ pick[s] \in D
        BY <2>2, <3>2
      <4>2. W[<<pick[s], f[s \ {pick[s]}]>>] \in T
        BY <4>1
      <4> QED
        BY <3>2, <4>2
    <3> QED
      BY <3>1, <3>2
  <2>4. \A s \in Small(m - 1) : s \in Small(m) /\ g[s] = f[s]
    <3>1. ASSUME NEW s \in Small(m - 1) PROVE s \in Small(m)
      <4>1. s \in SUBSET D /\ Cardinality(s) <= m - 1
        OBVIOUS
      <4>2. Cardinality(s) \in Nat
        BY <1>2, <4>1
      <4> QED
        BY <1>1, <4>1, <4>2
    <3> HIDE DEF Small
    <3> QED
      BY <2>1, <3>1
  <2>5. g = [s \in Small(m) |-> IF s = {} THEN base ELSE W[<<pick[s], g[s \ {pick[s]}]>>]]
    <3>1. ASSUME NEW s \in Small(m), s # {} PROVE g[s \ {pick[s]}] = f[s \ {pick[s]}]
      BY <2>2, <2>4, <3>1
    <3> HIDE DEF Small
    <3>2. \A s \in Small(m) :
            (IF s = {} THEN base ELSE W[<<pick[s], f[s \ {pick[s]}]>>])
            = IF s = {} THEN base ELSE W[<<pick[s], g[s \ {pick[s]}]>>]
      BY <3>1
    <3>3. g = [s \in Small(m) |-> IF s = {} THEN base ELSE W[<<pick[s], f[s \ {pick[s]}]>>]]
      OBVIOUS
    <3> HIDE DEF g
    <3> QED
      BY <3>2, <3>3, Zenon
  <2> QED
    BY <2>3, <2>5
<1>5. UpTo(Cardinality(D))
  <2> HIDE DEF UpTo
  <2>1. 0 \in H /\ \A k \in 1..Cardinality(D) : k - 1 \in H => k \in H
    BY <1>1, <1>3, <1>4
  <2> HIDE DEF H
  <2>2. Cardinality(D) \in H
    BY <1>1, <2>1, NumbersUpTo
  <2> QED
    BY <2>2 DEF H
<1>6. Small(Cardinality(D)) = SUBSET D
  BY <1>2
<1>7. FoldsOn(SUBSET D)
  <2> HIDE DEF FoldsOn, Small
  <2> QED
    BY <1>5, <1>6
<1> QED
  BY <1>7 DEF Folds

\* The tokens of the results of a turn are a number.
LEMMA TokensTyped ==
    ASSUME NEW rs, NEW n \in Nat, DOMAIN rs = 1..n, \A i \in 1..n : rs[i].tokens \in Nat
    PROVE  FoldSeq(LAMBDA x, k : k + x.tokens, 0, rs) \in Nat
<1> DEFINE D == 1..n
           p(s) == CHOOSE x \in s : TRUE
           pick == [s \in SUBSET D |-> p(s)]
           W == [q \in D \X Nat |-> q[2] + rs[q[1]].tokens]
           Eq(f) == f = [s \in SUBSET D |-> IF s = {} THEN 0 ELSE f[s \ {p(s)}] + rs[p(s)].tokens]
           it == CHOOSE f : Eq(f)
<1>1. FoldSeq(LAMBDA x, k : k + x.tokens, 0, rs) = it[D]
  BY DEF FoldSeq, FoldFunction, FoldFunctionOnSet, MapThenFoldSet
<1>2. IsFiniteSet(D) /\ \A i \in D : rs[i].tokens \in Nat
  BY FS_Interval
<1>3. \A s \in SUBSET D : s # {} => pick[s] \in s /\ pick[s] = p(s) /\ p(s) \in D
  OBVIOUS
<1>4. W \in [D \X Nat -> Nat] /\ \A i \in D, k \in Nat : W[<<i, k>>] = k + rs[i].tokens
  <2>1. ASSUME NEW q \in D \X Nat PROVE q[2] + rs[q[1]].tokens \in Nat
    <3>1. rs[q[1]].tokens \in Nat /\ q[2] \in Nat
      BY <1>2
    <3> QED
      BY <3>1
  <2> QED
    BY <2>1
<1> HIDE DEF p, pick, W
<1>5. \E f : Eq(f)
  <2> HIDE DEF D
  <2>1. PICK f \in [SUBSET D -> Nat] : Folds(f, D, 0, pick, W)
    BY <1>2, <1>3, <1>4, FoldStands
  <2>2. ASSUME NEW s \in SUBSET D, s # {}
        PROVE  W[<<pick[s], f[s \ {pick[s]}]>>] = f[s \ {p(s)}] + rs[p(s)].tokens
    <3>1. pick[s] = p(s) /\ p(s) \in D /\ s \ {p(s)} \in SUBSET D
      BY <1>3, <2>2
    <3>2. f[s \ {p(s)}] \in Nat
      BY <3>1
    <3> QED
      BY <1>4, <3>1, <3>2
  <2>3. \A s \in SUBSET D :
           (IF s = {} THEN 0 ELSE W[<<pick[s], f[s \ {pick[s]}]>>])
           = IF s = {} THEN 0 ELSE f[s \ {p(s)}] + rs[p(s)].tokens
    BY <2>2
  <2>4. Eq(f)
    BY <2>1, <2>3, Zenon DEF Folds
  <2> QED
    BY <2>4
<1>6. \A s \in SUBSET D : it[s] = IF s = {} THEN 0 ELSE it[s \ {p(s)}] + rs[p(s)].tokens
  <2>1. Eq(it)
    BY <1>5
  <2> QED
    BY <2>1
<1> HIDE DEF it, Eq, D
<1> DEFINE H == {s \in SUBSET D : it[s] \in Nat}
<1>7. {} \in H
  <2>1. {} \in SUBSET D
    OBVIOUS
  <2>2. it[{}] = 0
    BY <1>6, <2>1
  <2> QED
    BY <2>1, <2>2
<1>8. ASSUME NEW s \in SUBSET D, s # {}, \A x \in s : s \ {x} \in H PROVE s \in H
  <2>1. p(s) \in s /\ p(s) \in D
    BY <1>3, <1>8
  <2>2. it[s \ {p(s)}] \in Nat /\ rs[p(s)].tokens \in Nat
    BY <1>2, <1>8, <2>1
  <2>3. it[s] = it[s \ {p(s)}] + rs[p(s)].tokens
    BY <1>6, <1>8
  <2>4. it[s] \in Nat
    <3> HIDE DEF H
    <3> QED
      BY <2>2, <2>3
  <2> QED
    BY <2>4
<1>9. SUBSET D \subseteq H
  <2> HIDE DEF H
  <2> QED
    BY <1>2, <1>7, <1>8, PartsOf
<1> QED
  BY <1>1, <1>9 DEF D

-----------------------------------------------------------------------------
(* The catalogue.                                                          *)

FlatTool == [server : Server, tool : ServedTool]

\* All tools of a catalogue stand in a row, and their list follows it.
LEMMA FlatTyped ==
    ASSUME NEW cat \in Catalogue
    PROVE  /\ Flat(cat) \in Seq(FlatTool)
           /\ DOMAIN AllTools(cat) = 1..Len(Flat(cat))
           /\ \A i \in 1..Len(Flat(cat)) :
                 /\ AllTools(cat)[i].name = NameOf(cat, Flat(cat)[i])
                 /\ AllTools(cat)[i].server = Flat(cat)[i].server
                 /\ AllTools(cat)[i].cost \in Nat /\ AllTools(cat)[i].score \in Nat
<1> DEFINE one(s) == [i \in DOMAIN cat[s].tools |-> [server |-> cat[s].server, tool |-> cat[s].tools[i]]]
           row == [s \in DOMAIN cat |-> one(s)]
<1>1. cat \in Seq([server : Server, tools : Seq(ServedTool)]) /\ DOMAIN cat = 1..Len(cat) /\ Len(cat) \in Nat
  BY DEF Catalogue
<1>2. ASSUME NEW s \in DOMAIN cat PROVE one(s) \in Seq(FlatTool)
  <2>1. \A T : \A q \in Seq(T) : \A k \in DOMAIN q : q[k] \in T
    OBVIOUS
  <2>5. cat[s] \in [server : Server, tools : Seq(ServedTool)]
    BY <1>1, <2>1
  <2>2. cat[s].tools \in Seq(ServedTool) /\ cat[s].server \in Server
    BY <2>5
  <2>3. /\ DOMAIN cat[s].tools = 1..Len(cat[s].tools) /\ Len(cat[s].tools) \in Nat
        /\ \A i \in DOMAIN cat[s].tools : cat[s].tools[i] \in ServedTool
    BY <2>2
  <2>4. \A i \in DOMAIN cat[s].tools : [server |-> cat[s].server, tool |-> cat[s].tools[i]] \in FlatTool
    BY <2>2, <2>3 DEF FlatTool
  <2> QED
    BY <2>3, <2>4
<1>3. row \in Seq(Seq(FlatTool))
  <2> HIDE DEF one
  <2> QED
    BY <1>1, <1>2
<1>4. Flat(cat) = FlattenSeq(row)
  BY DEF Flat
<1>5. Flat(cat) \in Seq(FlatTool)
  BY <1>3, <1>4, FlattenTyped
<1>6. DOMAIN Flat(cat) = 1..Len(Flat(cat))
  BY <1>5
<1>7. \A i \in 1..Len(Flat(cat)) : Flat(cat)[i].tool.cost \in Nat /\ Flat(cat)[i].tool.score \in Nat
  <2>1. \A i \in 1..Len(Flat(cat)) : Flat(cat)[i] \in FlatTool
    BY <1>5
  <2> QED
    BY <2>1 DEF FlatTool, ServedTool
<1> QED
  BY <1>5, <1>6, <1>7 DEF AllTools

\* Two tools of one name are of one server.
LEMMA NamesTellServers ==
    ASSUME NEW cat \in Catalogue, NEW i \in 1..Len(Flat(cat)), NEW j \in 1..Len(Flat(cat)),
           NameOf(cat, Flat(cat)[i]) = NameOf(cat, Flat(cat)[j])
    PROVE  Flat(cat)[i].server = Flat(cat)[j].server
<1> DEFINE b == Flat(cat)[i].tool.base
           S == {k \in DOMAIN Flat(cat) : Flat(cat)[k].tool.base = b}
<1>1. Flat(cat) \in Seq(FlatTool) /\ DOMAIN Flat(cat) = 1..Len(Flat(cat)) /\ Len(Flat(cat)) \in Nat
  BY FlatTyped
<1>2. Flat(cat)[j].tool.base = b
  BY DEF NameOf
<1>3. CASE Seen(cat, b) > 1
  BY <1>2, <1>3 DEF NameOf
<1>4. CASE ~ Seen(cat, b) > 1
  <2>1. IsFiniteSet(S)
    <3>1. IsFiniteSet(1..Len(Flat(cat))) /\ S \in SUBSET (1..Len(Flat(cat)))
      BY <1>1, FS_Interval
    <3> QED
      BY <3>1, FS_Subset
  <2>2. Seen(cat, b) = Cardinality(S) /\ Cardinality(S) \in Nat
    BY <2>1, FS_CardinalityType DEF Seen
  <2>3. {i, j} \subseteq S
    BY <1>1, <1>2
  <2>4. ASSUME i # j PROVE Cardinality({i, j}) = 2
    <3>1. IsFiniteSet({i}) /\ Cardinality({i}) = 1 /\ j \notin {i}
      BY <2>4, FS_Singleton
    <3>2. Cardinality({i} \cup {j}) = Cardinality({i}) + 1
      BY <3>1, FS_AddElement
    <3>3. {i} \cup {j} = {i, j}
      OBVIOUS
    <3>4. Cardinality({i} \cup {j}) = 2
      <4>1. Cardinality({i} \cup {j}) = 1 + 1
        BY <3>1, <3>2, Zenon
      <4> DEFINE both == Cardinality({i} \cup {j})
      <4> HIDE DEF both
      <4>2. both = 1 + 1
        BY <4>1 DEF both
      <4>3. both = 2
        BY <4>2
      <4> QED
        BY <4>3 DEF both
    <3> QED
      BY <3>3, <3>4, Zenon
  <2>5. Cardinality({i, j}) <= Cardinality(S)
    BY <2>1, <2>3, FS_Subset
  <2>6. i = j
    BY <1>4, <2>2, <2>4, <2>5
  <2> QED
    BY <2>6
<1> QED
  BY <1>3, <1>4

\* Every name finds the server that has the tool.
LEMMA OwnerFinds ==
    ASSUME NEW cat \in Catalogue
    PROVE  LET own == Owner(AllTools(cat)) IN
           /\ \A i \in DOMAIN Flat(cat) : own[AllTools(cat)[i].name] = Flat(cat)[i].server
           /\ \A n \in DOMAIN own :
                 /\ n \in Name /\ own[n] \in Server
                 /\ \E x \in ToSet(Flat(cat)) : x.server = own[n] /\ x.tool.base = n[2]
<1> DEFINE ts == AllTools(cat)
           flat == Flat(cat)
           own == Owner(ts)
           IsLast(n, i) == ts[i].name = n /\ \A j \in DOMAIN ts : ts[j].name = n => j <= i
           last(n) == CHOOSE i \in DOMAIN ts : IsLast(n, i)
<1>1. /\ flat \in Seq(FlatTool) /\ DOMAIN ts = 1..Len(flat) /\ DOMAIN flat = 1..Len(flat) /\ Len(flat) \in Nat
      /\ \A i \in 1..Len(flat) : ts[i].name = NameOf(cat, flat[i]) /\ ts[i].server = flat[i].server
  BY FlatTyped
<1>2. own = [n \in {ts[i].name : i \in DOMAIN ts} |-> ts[last(n)].server]
  BY DEF Owner
<1> HIDE DEF ts, flat, own
<1>3. ASSUME NEW i \in DOMAIN ts
      PROVE  last(ts[i].name) \in DOMAIN ts /\ ts[last(ts[i].name)].name = ts[i].name
  <2> DEFINE n == ts[i].name
             S == {k \in DOMAIN ts : ts[k].name = n}
  <2>1. S \in SUBSET (1..Len(flat)) /\ S # {}
    BY <1>1
  <2>2. \E m \in S : \A k \in S : k <= m
    BY <1>1, <2>1, GreatestPlace
  <2>3. \E m \in DOMAIN ts : IsLast(n, m)
    BY <2>2
  <2>4. last(n) \in DOMAIN ts /\ IsLast(n, last(n))
    <3> HIDE DEF IsLast
    <3> QED
      BY <2>3
  <2> QED
    BY <2>4
<1> HIDE DEF last
<1>4. \A i \in DOMAIN ts : own[ts[i].name] = ts[last(ts[i].name)].server
  BY <1>2
<1>5. ASSUME NEW i \in DOMAIN flat
      PROVE  own[ts[i].name] = flat[i].server
  <2> DEFINE l == last(ts[i].name)
  <2>1. l \in 1..Len(flat) /\ ts[l].name = ts[i].name
    BY <1>1, <1>3
  <2>2. NameOf(cat, flat[l]) = NameOf(cat, flat[i])
    BY <1>1, <2>1
  <2>3. flat[l].server = flat[i].server
    BY <1>1, <2>1, <2>2, NamesTellServers DEF flat
  <2> QED
    BY <1>1, <1>4, <2>1, <2>3
<1>6. ASSUME NEW n \in DOMAIN own
      PROVE  /\ n \in Name /\ own[n] \in Server
             /\ \E x \in ToSet(flat) : x.server = own[n] /\ x.tool.base = n[2]
  <2>1. PICK i \in DOMAIN ts : n = ts[i].name
    BY <1>2, <1>6
  <2>2. own[n] = flat[i].server /\ flat[i] \in FlatTool /\ i \in DOMAIN flat
    BY <1>1, <1>5, <2>1
  <2>3. n = NameOf(cat, flat[i])
    BY <1>1, <2>1
  <2>4. flat[i].server \in Server /\ flat[i].tool.base \in Base
    BY <2>2 DEF FlatTool, ServedTool
  <2>5. n \in Name /\ n[2] = flat[i].tool.base
    BY <2>3, <2>4 DEF NameOf, Name
  <2>6. flat[i] \in ToSet(flat)
    BY <2>2 DEF ToSet
  <2> QED
    BY <2>2, <2>4, <2>5, <2>6
<1> QED
  BY <1>5, <1>6 DEF own, flat, ts

-----------------------------------------------------------------------------
(* The tools of a catalogue that the goal picks.                            *)

\* The list of a catalogue.
Listed(ts, n) ==
    /\ DOMAIN ts = 1..n
    /\ \A i \in 1..n : ts[i].cost \in Nat /\ ts[i].score \in Nat

\* f has the costs of all parts of S.
Costs(f, ts, S) ==
    f = [s \in SUBSET S |-> IF s = {} THEN 0
            ELSE ts[CHOOSE x \in s : TRUE].cost + f[s \ {CHOOSE x \in s : TRUE}]]

LEMMA CostsStand ==
    ASSUME NEW n \in Nat, NEW ts, Listed(ts, n), NEW S \in SUBSET (1..n)
    PROVE  \E f \in [SUBSET S -> Nat] : Costs(f, ts, S)
<1> DEFINE pick == [s \in SUBSET S |-> CHOOSE x \in s : TRUE]
           W == [p \in S \X Nat |-> ts[p[1]].cost + p[2]]
<1>1. IsFiniteSet(S)
  <2>1. IsFiniteSet(1..n)
    BY FS_Interval
  <2> QED
    BY <2>1, FS_Subset
<1>2. W \in [S \X Nat -> Nat] /\ \A i \in S, k \in Nat : W[<<i, k>>] = ts[i].cost + k
  <2>1. \A i \in S : ts[i].cost \in Nat
    BY DEF Listed
  <2>2. \A p \in S \X Nat : p[1] \in S /\ p[2] \in Nat
    OBVIOUS
  <2>3. ASSUME NEW p \in S \X Nat PROVE ts[p[1]].cost + p[2] \in Nat
    <3>1. ts[p[1]].cost \in Nat /\ p[2] \in Nat
      BY <2>1, <2>2
    <3> QED
      BY <3>1
  <2> QED
    BY <2>3
<1>3. \A s \in SUBSET S : pick[s] = CHOOSE x \in s : TRUE
  OBVIOUS
<1>4. \A s \in SUBSET S : s # {} => pick[s] \in s
  OBVIOUS
<1> HIDE DEF pick, W
<1>5. PICK f \in [SUBSET S -> Nat] : Folds(f, S, 0, pick, W)
  BY <1>1, <1>2, <1>4, FoldStands
<1>6. ASSUME NEW s \in SUBSET S, s # {}
      PROVE  W[<<pick[s], f[s \ {pick[s]}]>>]
             = ts[CHOOSE x \in s : TRUE].cost + f[s \ {CHOOSE x \in s : TRUE}]
  <2>1. pick[s] \in S /\ s \ {pick[s]} \in SUBSET S
    BY <1>4, <1>6
  <2>2. f[s \ {pick[s]}] \in Nat
    BY <2>1
  <2>3. W[<<pick[s], f[s \ {pick[s]}]>>] = ts[pick[s]].cost + f[s \ {pick[s]}]
    BY <1>2, <2>1, <2>2
  <2> QED
    BY <1>3, <2>3
<1>7. \A s \in SUBSET S :
         (IF s = {} THEN 0 ELSE W[<<pick[s], f[s \ {pick[s]}]>>])
         = IF s = {} THEN 0 ELSE ts[CHOOSE x \in s : TRUE].cost + f[s \ {CHOOSE x \in s : TRUE}]
  BY <1>6
<1>8. Costs(f, ts, S)
  BY <1>5, <1>7, Zenon DEF Folds, Costs
<1> QED
  BY <1>8

\* The cost of places is one of them, whatever else they are part of.
LEMMA CostIs ==
    ASSUME NEW n \in Nat, NEW ts, Listed(ts, n), NEW f, Costs(f, ts, 1..n), NEW S \in SUBSET (1..n)
    PROVE  CostOf(ts, S) = f[S]
<1> DEFINE it == CHOOSE g : Costs(g, ts, S)
<1>1. CostOf(ts, S) = it[S]
  BY DEF CostOf, MapThenSumSet, MapThenFoldSet, Costs
<1>2. Costs(it, ts, S)
  <2>1. \E g : Costs(g, ts, S)
    BY CostsStand
  <2> QED
    BY <2>1
<1> HIDE DEF it
<1> DEFINE H == {s \in SUBSET S : it[s] = f[s]}
           p(s) == CHOOSE x \in s : TRUE
<1>3. /\ \A s \in SUBSET S : it[s] = IF s = {} THEN 0 ELSE ts[p(s)].cost + it[s \ {p(s)}]
      /\ \A s \in SUBSET S : f[s] = IF s = {} THEN 0 ELSE ts[p(s)].cost + f[s \ {p(s)}]
  <2>1. \A s \in SUBSET S : s \in SUBSET (1..n)
    OBVIOUS
  <2> QED
    BY <1>2, <2>1 DEF Costs
<1>4. \A s : s # {} => p(s) \in s
  OBVIOUS
<1> HIDE DEF p
<1>5. {} \in H
  BY <1>3
<1>6. ASSUME NEW s \in SUBSET S, s # {}, \A x \in s : s \ {x} \in H PROVE s \in H
  <2>1. it[s \ {p(s)}] = f[s \ {p(s)}]
    BY <1>4, <1>6
  <2> QED
    BY <1>3, <1>6, <2>1
<1>7. IsFiniteSet(S)
  <2>1. IsFiniteSet(1..n)
    BY FS_Interval
  <2> QED
    BY <2>1, FS_Subset
<1> HIDE DEF H
<1>8. SUBSET S \subseteq H
  BY <1>5, <1>6, <1>7, PartsOf
<1> QED
  BY <1>1, <1>8 DEF H

\* Costs add up: one more place, no place, more places.
LEMMA CostAdds ==
    ASSUME NEW n \in Nat, NEW ts, Listed(ts, n)
    PROVE  /\ \A S \in SUBSET (1..n) : CostOf(ts, S) \in Nat
           /\ CostOf(ts, {}) = 0
           /\ \A S \in SUBSET (1..n) : \A i \in S : CostOf(ts, S) = ts[i].cost + CostOf(ts, S \ {i})
           /\ \A S \in SUBSET (1..n) : \A R \in SUBSET S : CostOf(ts, R) <= CostOf(ts, S)
<1> DEFINE D == 1..n
           p(s) == CHOOSE x \in s : TRUE
<1>1. PICK f \in [SUBSET D -> Nat] : Costs(f, ts, D)
  BY CostsStand
<1>2. \A S \in SUBSET D : CostOf(ts, S) = f[S] /\ f[S] \in Nat
  BY <1>1, CostIs
<1>3. \A s \in SUBSET D : f[s] = IF s = {} THEN 0 ELSE ts[p(s)].cost + f[s \ {p(s)}]
  BY <1>1 DEF Costs
<1>4. \A s : s # {} => p(s) \in s
  OBVIOUS
<1>5. IsFiniteSet(D) /\ \A i \in D : ts[i].cost \in Nat
  BY FS_Interval DEF Listed
<1> HIDE DEF p, D
<1> DEFINE H == {s \in SUBSET D : \A i \in s : f[s] = ts[i].cost + f[s \ {i}]}
<1>6. ASSUME NEW s \in SUBSET D, s # {}, \A x \in s : s \ {x} \in H PROVE s \in H
  <2> SUFFICES ASSUME NEW i \in s PROVE f[s] = ts[i].cost + f[s \ {i}]
    OBVIOUS
  <2> DEFINE k == p(s)
  <2>1. k \in s /\ f[s] = ts[k].cost + f[s \ {k}]
    BY <1>3, <1>4, <1>6
  <2> HIDE DEF k
  <2>2. CASE i = k
    BY <2>1, <2>2
  <2>3. CASE i # k
    <3>1. i \in s \ {k} /\ k \in s \ {i}
      BY <2>1, <2>3
    <3>2. f[s \ {k}] = ts[i].cost + f[(s \ {k}) \ {i}]
      BY <1>6, <2>1, <3>1
    <3>3. f[s \ {i}] = ts[k].cost + f[(s \ {i}) \ {k}]
      BY <1>6, <2>1, <3>1
    <3>4. (s \ {k}) \ {i} = (s \ {i}) \ {k} /\ (s \ {k}) \ {i} \in SUBSET D
      OBVIOUS
    <3>5. f[(s \ {k}) \ {i}] \in Nat /\ ts[i].cost \in Nat /\ ts[k].cost \in Nat
      BY <1>2, <1>5, <2>1, <3>4
    <3> DEFINE rest == f[(s \ {k}) \ {i}]
    <3>6. f[s] = ts[k].cost + (ts[i].cost + rest) /\ f[s \ {i}] = ts[k].cost + rest
      BY <2>1, <3>2, <3>3, <3>4
    <3>7. rest \in Nat
      BY <3>5
    <3> HIDE DEF rest
    <3> QED
      BY <3>5, <3>6, <3>7
  <2> QED
    BY <2>2, <2>3
<1>7. SUBSET D \subseteq H
  <2>1. {} \in H
    OBVIOUS
  <2> HIDE DEF H
  <2> QED
    BY <1>5, <1>6, <2>1, PartsOf
<1>8. \A s \in SUBSET D : \A i \in s : f[s] = ts[i].cost + f[s \ {i}]
  BY <1>7
<1> DEFINE M == {s \in SUBSET D : \A r \in SUBSET s : f[r] <= f[s]}
<1>9. ASSUME NEW s \in SUBSET D, s # {}, \A x \in s : s \ {x} \in M PROVE s \in M
  <2> SUFFICES ASSUME NEW r \in SUBSET s PROVE f[r] <= f[s]
    OBVIOUS
  <2>1. f[s] \in Nat
    BY <1>2
  <2>2. CASE r = s
    BY <2>1, <2>2
  <2>3. CASE r # s
    <3>1. PICK x \in s : x \notin r
      BY <2>3
    <3>2. r \in SUBSET (s \ {x}) /\ s \ {x} \in SUBSET D /\ r \in SUBSET D /\ x \in D
      BY <3>1
    <3>3. f[r] <= f[s \ {x}]
      BY <1>9, <3>2
    <3>4. f[s] = ts[x].cost + f[s \ {x}] /\ ts[x].cost \in Nat /\ f[s \ {x}] \in Nat /\ f[r] \in Nat
      BY <1>2, <1>5, <1>8, <3>2
    <3> QED
      BY <2>1, <3>3, <3>4
  <2> QED
    BY <2>2, <2>3
<1>10. SUBSET D \subseteq M
  <2>1. {} \in M
    <3>1. {} \in SUBSET D /\ f[{}] \in Nat
      BY <1>2
    <3>2. ASSUME NEW r \in SUBSET {} PROVE f[r] <= f[{}]
      <4>1. r = {}
        OBVIOUS
      <4>2. f[{}] <= f[{}]
        BY <3>1
      <4> QED
        BY <4>1, <4>2
    <3> QED
      BY <3>1, <3>2
  <2> HIDE DEF M
  <2> QED
    BY <1>5, <1>9, <2>1, PartsOf
<1>11. \A s \in SUBSET D : \A r \in SUBSET s : r \in SUBSET D /\ f[r] <= f[s]
  BY <1>10
<1>12. \A s \in SUBSET D : \A i \in s : s \ {i} \in SUBSET D
  OBVIOUS
<1>13. {} \in SUBSET D /\ f[{}] = 0
  BY <1>3
<1> QED
  BY <1>2, <1>8, <1>11, <1>12, <1>13 DEF D

\* Of some places one is ranked last.
LEMMA WorstPlace ==
    ASSUME NEW n \in Nat, NEW ts, Listed(ts, n), NEW S \in SUBSET (1..n), S # {}
    PROVE  \E w \in S : \A i \in S \ {w} : Better(ts, i, w)
<1> DEFINE Scores == {ts[i].score : i \in S}
<1>1. Scores \in SUBSET Nat /\ Scores # {}
  BY DEF Listed
<1>2. PICK least \in Scores : \A k \in Scores : least <= k
  BY <1>1, LeastNumber
<1> DEFINE L == {i \in S : ts[i].score = least}
<1>3. L \in SUBSET (1..n) /\ L # {}
  OBVIOUS
<1>4. PICK w \in L : \A i \in L : i <= w
  BY <1>3, GreatestPlace
<1>5. ASSUME NEW i \in S \ {w} PROVE Better(ts, i, w)
  <2>1. least <= ts[i].score /\ ts[w].score = least /\ least \in Nat /\ ts[i].score \in Nat
    BY <1>1, <1>2, <1>4
  <2>2. CASE ts[i].score = least
    <3>1. i <= w /\ i # w /\ i \in 1..n /\ w \in 1..n
      BY <1>4, <2>2
    <3> QED
      BY <2>1, <2>2, <3>1 DEF Better
  <2>3. CASE ts[i].score # least
    BY <2>1, <2>3 DEF Better
  <2> QED
    BY <2>2, <2>3
<1> QED
  BY <1>4, <1>5

Ranks(q, ts, S) ==
    /\ q \in [1..Cardinality(S) -> S]
    /\ \A a, b \in 1..Cardinality(S) : a < b => Better(ts, q[a], q[b])

\* Places can be ranked, and in a ranking each has its place.
LEMMA RankedStands ==
    ASSUME NEW n \in Nat, NEW ts, Listed(ts, n), NEW S \in SUBSET (1..n)
    PROVE  /\ Ranks(Ranked(ts, S), ts, S)
           /\ \A i \in S : \E a \in 1..Cardinality(S) : Ranked(ts, S)[a] = i
<1>1. IsFiniteSet(1..n)
  BY FS_Interval
<1>2. ASSUME NEW s \in SUBSET (1..n)
      PROVE  IsFiniteSet(s) /\ Cardinality(s) \in Nat /\ (s # {} => Cardinality(s) > 0)
  <2>1. IsFiniteSet(s)
    BY <1>1, FS_Subset
  <2> QED
    BY <2>1, FS_CardinalityType, FS_EmptySet
<1> DEFINE H == {s \in SUBSET (1..n) : \E q : Ranks(q, ts, s)}
<1>3. {} \in H
  <2> DEFINE q == [a \in 1..0 |-> a]
  <2>1. q \in [1..0 -> {}] /\ \A a, b \in 1..0 : FALSE
    OBVIOUS
  <2>2. Ranks(q, ts, {})
    BY <2>1, FS_EmptySet DEF Ranks
  <2> QED
    BY <2>2
<1>4. ASSUME NEW s \in SUBSET (1..n), s # {}, \A x \in s : s \ {x} \in H PROVE s \in H
  <2>1. PICK w \in s : \A i \in s \ {w} : Better(ts, i, w)
    BY <1>4, WorstPlace
  <2>2. PICK q : Ranks(q, ts, s \ {w})
    BY <1>4
  <2> DEFINE m == Cardinality(s)
             r == [a \in 1..m |-> IF a = m THEN w ELSE q[a]]
  <2>3. m \in Nat /\ m > 0 /\ Cardinality(s \ {w}) = m - 1
    BY <1>2, <1>4, FS_RemoveElement
  <2> HIDE DEF m
  <2>4. /\ q \in [1..(m - 1) -> s \ {w}]
        /\ \A a, b \in 1..(m - 1) : a < b => Better(ts, q[a], q[b])
    BY <2>2, <2>3 DEF Ranks
  <2>5. \A a \in 1..m : a # m => a \in 1..(m - 1) /\ r[a] = q[a] /\ q[a] \in s \ {w}
    BY <2>3, <2>4
  <2>6. r \in [1..m -> s]
    BY <2>4, <2>5
  <2>7. ASSUME NEW a \in 1..m, NEW b \in 1..m, a < b PROVE Better(ts, r[a], r[b])
    <3>1. a # m
      BY <2>3, <2>7
    <3>2. CASE b = m
      <4>1. r[b] = w /\ r[a] = q[a] /\ q[a] \in s \ {w}
        BY <2>5, <3>1, <3>2
      <4> QED
        BY <2>1, <4>1
    <3>3. CASE b # m
      <4>1. r[b] = q[b] /\ r[a] = q[a] /\ a \in 1..(m - 1) /\ b \in 1..(m - 1)
        BY <2>5, <3>1, <3>3
      <4> QED
        BY <2>4, <2>7, <4>1
    <3> QED
      BY <3>2, <3>3
  <2> HIDE DEF r
  <2>8. Ranks(r, ts, s)
    BY <2>6, <2>7 DEF Ranks, m
  <2> QED
    BY <2>8
<1>5. S \in H
  <2> HIDE DEF H
  <2> QED
    BY <1>1, <1>3, <1>4, PartsOf
<1> DEFINE q == Ranked(ts, S)
           m == Cardinality(S)
<1>6. Ranks(q, ts, S)
  <2>1. PICK r : Ranks(r, ts, S)
    BY <1>5
  <2>2. r \in [1..m -> S] /\ \A a, b \in DOMAIN r : a < b => Better(ts, r[a], r[b])
    BY <2>1 DEF Ranks
  <2>3. q \in [1..m -> S] /\ \A a, b \in DOMAIN q : a < b => Better(ts, q[a], q[b])
    BY <2>2 DEF Ranked
  <2> QED
    BY <2>3 DEF Ranks
<1> HIDE DEF q
<1>7. \A a, b \in 1..m : q[a] = q[b] => a = b
  <2> SUFFICES ASSUME NEW a \in 1..m, NEW b \in 1..m, q[a] = q[b], a < b PROVE FALSE
    BY <1>2
  <2>1. Better(ts, q[a], q[a]) /\ q[a] \in 1..n
    BY <1>6 DEF Ranks
  <2> QED
    BY <2>1 DEF Better, Listed
<1>8. q \in Surjection(1..m, S)
  <2>1. q \in Injection(1..m, S)
    BY <1>6, <1>7 DEF Ranks, Injection, IsInjective
  <2>2. Cardinality(1..m) = m
    <3>1. m \in Nat
      BY <1>2
    <3> HIDE DEF m
    <3>2. Cardinality(1..m) = IF 1 > m THEN 0 ELSE m - 1 + 1
      BY <3>1, FS_Interval
    <3> QED
      BY <3>1, <3>2
  <2> QED
    BY <1>2, <2>1, <2>2, FS_Injection
<1> QED
  BY <1>6, <1>8 DEF q, Surjection

\* The greatest of the first k places is the last of them.
LEMMA LastOfFirst ==
    ASSUME NEW k \in Nat, k # 0
    PROVE  1..k # {} /\ Max(1..k) = k /\ (1..k) \ {k} = 1..(k - 1)
<1>1. k \in 1..k /\ \A y \in 1..k : k >= y
  OBVIOUS
<1>2. \A x \in 1..k : (\A y \in 1..k : x >= y) => x = k
  OBVIOUS
<1>3. Max(1..k) \in 1..k /\ \A y \in 1..k : Max(1..k) >= y
  BY <1>1 DEF Max
<1> QED
  BY <1>1, <1>2, <1>3

\* What is picked fits, and what is passed over would not, behind those no worse.
LEMMA PickFills ==
    ASSUME NEW n \in Nat, NEW ts, Listed(ts, n), NEW S \in SUBSET (1..n), NEW room \in Nat
    PROVE  LET told == Pick(ts, S, room)
               noWorse(i) == {j \in told : ts[j].score >= ts[i].score}
           IN  /\ told \in SUBSET S
               /\ CostOf(ts, told) <= room
               /\ \A i \in S \ told : ts[i].score = 0 \/ CostOf(ts, noWorse(i)) + ts[i].cost > room
<1> DEFINE m == Cardinality(S)
           q == Ranked(ts, S)
           Eq(f) == f = [s \in SUBSET DOMAIN q |-> IF s = {} THEN {}
                           ELSE TakeIfFits(ts, room, f[s \ {Max(s)}], q[Max(s)])]
           it == CHOOSE f : Eq(f)
           A(k) == it[1..k]
<1>1. Pick(ts, S, room) = it[DOMAIN q]
  BY DEF Pick, FoldLeft, MapThenFoldSet
<1>2. /\ q \in [1..m -> S] /\ DOMAIN q = 1..m
      /\ \A a, b \in 1..m : a < b => Better(ts, q[a], q[b])
      /\ \A i \in S : \E a \in 1..m : q[a] = i
  BY RankedStands DEF Ranks
<1>3. m \in Nat /\ IsFiniteSet(1..m)
  <2>1. IsFiniteSet(1..n)
    BY FS_Interval
  <2>2. IsFiniteSet(S)
    BY <2>1, FS_Subset
  <2>3. m \in Nat
    BY <2>2, FS_CardinalityType
  <2> HIDE DEF m
  <2>4. IsFiniteSet(1..m)
    BY <2>3, FS_Interval
  <2> QED
    BY <2>3, <2>4
<1> HIDE DEF m, q
<1>4. Eq(it)
  <2> DEFINE pick == [s \in SUBSET (1..m) |-> Max(s)]
             W == [p \in (1..m) \X SUBSET S |-> TakeIfFits(ts, room, p[2], q[p[1]])]
  <2>1. \A s \in SUBSET (1..m) : s # {} => pick[s] \in s
    <3> SUFFICES ASSUME NEW s \in SUBSET (1..m), s # {} PROVE Max(s) \in s
      OBVIOUS
    <3>1. PICK x \in s : \A y \in s : y <= x
      BY <1>3, GreatestPlace
    <3>2. \A y \in s : x >= y
      BY <1>3, <3>1
    <3> QED
      BY <3>2 DEF Max
  <2>2. /\ W \in [(1..m) \X SUBSET S -> SUBSET S]
        /\ \A k \in 1..m, v \in SUBSET S : W[<<k, v>>] = TakeIfFits(ts, room, v, q[k])
    <3>1. \A p \in (1..m) \X SUBSET S : p[2] \in SUBSET S /\ q[p[1]] \in S
      BY <1>2
    <3>2. \A p \in (1..m) \X SUBSET S : TakeIfFits(ts, room, p[2], q[p[1]]) \in SUBSET S
      BY <3>1 DEF TakeIfFits
    <3> QED
      BY <3>2
  <2>3. {} \in SUBSET S
    OBVIOUS
  <2>4. \A s \in SUBSET (1..m) : pick[s] = Max(s)
    OBVIOUS
  <2> HIDE DEF pick, W
  <2>5. PICK f \in [SUBSET (1..m) -> SUBSET S] : Folds(f, 1..m, {}, pick, W)
    BY <1>3, <2>1, <2>2, <2>3, FoldStands
  <2>6. ASSUME NEW s \in SUBSET (1..m), s # {}
        PROVE  W[<<pick[s], f[s \ {pick[s]}]>>] = TakeIfFits(ts, room, f[s \ {Max(s)}], q[Max(s)])
    <3>1. pick[s] \in 1..m /\ s \ {pick[s]} \in SUBSET (1..m)
      BY <2>1, <2>6
    <3>2. f[s \ {pick[s]}] \in SUBSET S
      BY <3>1
    <3> QED
      BY <2>2, <2>4, <3>1, <3>2
  <2>7. \A s \in SUBSET (1..m) :
           (IF s = {} THEN {} ELSE W[<<pick[s], f[s \ {pick[s]}]>>])
           = IF s = {} THEN {} ELSE TakeIfFits(ts, room, f[s \ {Max(s)}], q[Max(s)])
    BY <2>6
  <2>8. f = [s \in SUBSET (1..m) |-> IF s = {} THEN {}
               ELSE TakeIfFits(ts, room, f[s \ {Max(s)}], q[Max(s)])]
    BY <2>5, <2>7, Zenon DEF Folds
  <2>9. Eq(f)
    BY <1>2, <2>8, Zenon
  <2> QED
    BY <2>9
<1>5. A(0) = {} /\ \A k \in 1..m : A(k) = TakeIfFits(ts, room, A(k - 1), q[k])
  <2>1. \A s \in SUBSET (1..m) :
           it[s] = IF s = {} THEN {} ELSE TakeIfFits(ts, room, it[s \ {Max(s)}], q[Max(s)])
    BY <1>2, <1>4
  <2> HIDE DEF it, Eq
  <2>2. 1..0 = {} /\ {} \in SUBSET (1..m)
    OBVIOUS
  <2>3. ASSUME NEW k \in 1..m PROVE A(k) = TakeIfFits(ts, room, A(k - 1), q[k])
    <3>0. k \in Nat /\ k # 0
      BY <1>3
    <3>1. 1..k # {} /\ Max(1..k) = k /\ (1..k) \ {k} = 1..(k - 1)
      BY <3>0, LastOfFirst
    <3>2. 1..k \in SUBSET (1..m)
      BY <1>3
    <3> QED
      BY <2>1, <3>1, <3>2
  <2> QED
    BY <2>1, <2>2, <2>3
<1>6. Pick(ts, S, room) = A(m)
  BY <1>1, <1>2
<1> HIDE DEF it, Eq, A
<1> DEFINE First(k) == {q[a] : a \in 1..k}
           Good(k) == /\ A(k) \in SUBSET First(k) /\ CostOf(ts, A(k)) <= room
                      /\ \A a \in 1..k : \/ q[a] \in A(k) \/ ts[q[a]].score = 0
                                         \/ CostOf(ts, A(a - 1)) + ts[q[a]].cost > room
                      /\ \A a \in 0..k : A(a) \in SUBSET A(k) /\ A(a) \in SUBSET First(a)
           H == {k \in 0..m : Good(k)}
<1>7. \A k \in 0..m : First(k) \in SUBSET S /\ First(k) \in SUBSET (1..n)
  <2> SUFFICES ASSUME NEW k \in 0..m PROVE First(k) \in SUBSET S
    OBVIOUS
  <2>1. \A a \in 1..k : a \in 1..m
    BY <1>3
  <2>2. \A a \in 1..k : q[a] \in S
    BY <1>2, <2>1
  <2> QED
    BY <2>2
<1>8. 0 \in H
  <2>1. A(0) = {} /\ CostOf(ts, {}) = 0
    BY <1>5, CostAdds
  <2>2. Good(0)
    BY <2>1
  <2> QED
    BY <1>3, <2>2
<1>9. ASSUME NEW k \in 1..m, k - 1 \in H PROVE k \in H
  <2>1. Good(k - 1) /\ k \in Nat /\ k - 1 \in 0..m
    BY <1>3, <1>9
  <2> DEFINE x == q[k]
             old == A(k - 1)
  <2>2. A(k) = TakeIfFits(ts, room, old, x) /\ x \in S /\ x \in 1..n
    BY <1>2, <1>5
  <2>3. old \in SUBSET First(k - 1) /\ CostOf(ts, old) <= room /\ old \in SUBSET (1..n)
    BY <1>7, <2>1
  <2>4. ts[x].cost \in Nat /\ ts[x].score \in Nat /\ CostOf(ts, old) \in Nat
    BY <2>2, <2>3, CostAdds DEF Listed
  <2>5. First(k) = First(k - 1) \cup {x}
    <3>1. 1..k = (1..(k - 1)) \cup {k}
      BY <2>1
    <3> QED
      BY <3>1
  <2>6. old \in SUBSET A(k) /\ A(k) \in SUBSET First(k)
    <3>1. A(k) = old \/ A(k) = old \cup {x}
      BY <2>2 DEF TakeIfFits
    <3> HIDE DEF First, old, x
    <3> QED
      BY <2>3, <2>5, <3>1
  <2>7. CostOf(ts, A(k)) <= room
    <3>1. CASE A(k) = old
      BY <2>3, <3>1
    <3>2. CASE A(k) # old
      <4>1. A(k) = old \cup {x} /\ CostOf(ts, old) + ts[x].cost <= room /\ x \notin old
        BY <2>2, <3>2 DEF TakeIfFits, Fits
      <4>2. old \cup {x} \in SUBSET (1..n) /\ x \in old \cup {x} /\ (old \cup {x}) \ {x} = old
        BY <2>2, <2>3, <4>1
      <4> HIDE DEF old, x
      <4>3. CostOf(ts, old \cup {x}) = ts[x].cost + CostOf(ts, (old \cup {x}) \ {x})
        BY <4>2, CostAdds
      <4> QED
        BY <2>4, <4>1, <4>2, <4>3
    <3> QED
      BY <3>1, <3>2
  <2>8. \/ x \in A(k) \/ ts[x].score = 0
        \/ CostOf(ts, A(k - 1)) + ts[x].cost > room
    <3>1. ts[x].score > 0 /\ Fits(ts, CostOf(ts, old), x, room) => x \in A(k)
      BY <2>2 DEF TakeIfFits
    <3> QED
      BY <2>4, <3>1 DEF Fits
  <2>9. \A a \in 1..k : \/ q[a] \in A(k) \/ ts[q[a]].score = 0
                        \/ CostOf(ts, A(a - 1)) + ts[q[a]].cost > room
    <3>1. \A a \in 1..k : a = k \/ a \in 1..(k - 1)
      BY <2>1
    <3> QED
      BY <2>1, <2>6, <2>8, <3>1
  <2>10. \A a \in 0..k : A(a) \in SUBSET A(k) /\ A(a) \in SUBSET First(a)
    <3>1. \A a \in 0..k : a = k \/ a \in 0..(k - 1)
      BY <2>1
    <3> HIDE DEF First
    <3> QED
      BY <2>1, <2>6, <3>1
  <2> QED
    BY <2>6, <2>7, <2>9, <2>10
<1>10. Good(m)
  <2> HIDE DEF H, Good
  <2>1. 0..m \subseteq H
    BY <1>3, <1>8, <1>9, NumbersUpTo
  <2> QED
    BY <1>3, <2>1 DEF H
<1>11. A(m) \in SUBSET S /\ A(m) \in SUBSET (1..n) /\ CostOf(ts, A(m)) <= room
  BY <1>3, <1>7, <1>10
<1>12. ASSUME NEW i \in S \ A(m), ts[i].score # 0
       PROVE  CostOf(ts, {j \in A(m) : ts[j].score >= ts[i].score}) + ts[i].cost > room
  <2>1. PICK a \in 1..m : q[a] = i
    BY <1>2
  <2>2. CostOf(ts, A(a - 1)) + ts[i].cost > room /\ a - 1 \in 0..m
    BY <1>3, <1>10, <1>12, <2>1
  <2> DEFINE N == {j \in A(m) : ts[j].score >= ts[i].score}
  <2>3. A(a - 1) \in SUBSET N
    <3> SUFFICES ASSUME NEW j \in A(a - 1) PROVE j \in A(m) /\ ts[j].score >= ts[i].score
      OBVIOUS
    <3>1. A(a - 1) \in SUBSET A(m) /\ A(a - 1) \in SUBSET First(a - 1)
      BY <1>10, <2>2
    <3>2. PICK b \in 1..(a - 1) : j = q[b]
      BY <3>1
    <3>3. Better(ts, j, i)
      BY <1>2, <1>3, <2>1, <3>2
    <3>4. ts[j].score \in Nat /\ ts[i].score \in Nat
      BY <1>11, <3>1 DEF Listed
    <3> QED
      BY <3>1, <3>3, <3>4 DEF Better
  <2>4. N \in SUBSET (1..n)
    BY <1>11
  <2> HIDE DEF N
  <2>5. CostOf(ts, A(a - 1)) <= CostOf(ts, N) /\ CostOf(ts, N) \in Nat /\ CostOf(ts, A(a - 1)) \in Nat
    BY <2>3, <2>4, CostAdds
  <2>6. ts[i].cost \in Nat
    BY DEF Listed
  <2> QED
    BY <2>2, <2>5, <2>6 DEF N
<1> QED
  BY <1>6, <1>11, <1>12

\* What is advertised of any catalogue fits its room, and fills it.
LEMMA AdvertisedFills ==
    ASSUME NEW cat \in Catalogue, NEW deferAll \in BOOLEAN
    PROVE  LET tools == AllTools(cat)
               told  == Advertised(tools, deferAll)
               noWorse(i) == {j \in told : tools[j].score >= tools[i].score}
           IN  /\ CostOf(tools, told) <= ToolChars
               /\ \A i \in Visible(tools) \ told :
                     \/ deferAll \/ tools[i].score = 0
                     \/ CostOf(tools, noWorse(i)) + tools[i].cost > ToolChars
<1> DEFINE ts == AllTools(cat)
           n == Len(Flat(cat))
           S == Visible(ts)
<1>1. Listed(ts, n) /\ n \in Nat
  BY FlatTyped DEF Listed
<1>2. S \in SUBSET (1..n)
  BY <1>1 DEF Visible, Listed
<1>3. ToolChars \in Nat
  BY CatalogueAssumption
<1> HIDE DEF ts, n, S
<1>4. CostOf(ts, S) \in Nat /\ CostOf(ts, {}) = 0
  BY <1>1, <1>2, CostAdds
<1>5. CASE ~ OffersFindTools(ts, deferAll)
  <2>1. Advertised(ts, deferAll) = S /\ CostOf(ts, S) <= ToolChars
    BY <1>3, <1>4, <1>5 DEF Advertised, OffersFindTools, S
  <2> QED
    BY <2>1 DEF ts, S
<1>6. CASE OffersFindTools(ts, deferAll) /\ deferAll
  <2>1. Advertised(ts, deferAll) = {} /\ CostOf(ts, {}) <= ToolChars
    BY <1>3, <1>4, <1>6 DEF Advertised
  <2> QED
    BY <1>6, <2>1 DEF ts
<1>7. CASE OffersFindTools(ts, deferAll) /\ ~ deferAll
  <2>1. Advertised(ts, deferAll) = Pick(ts, S, ToolChars)
    BY <1>7 DEF Advertised, S
  <2> QED
    BY <1>1, <1>2, <1>3, <2>1, PickFills DEF ts, S
<1> QED
  BY <1>5, <1>6, <1>7

-----------------------------------------------------------------------------
(* Folding.                                                                *)

PieceSet == [is : Piece, tokens : Nat]

\* Whatever pairs go, the first pieces stay, and what is left fits or is short.
LEMMA DropKeeps ==
    ASSUME NEW h \in Seq(PieceSet), NEW keep \in {1, 2}, Len(h) > keep
    PROVE  LET out == DropPairs(h, keep) IN
           /\ out \in Seq(PieceSet) /\ Len(out) >= keep /\ out[1] = h[1]
           /\ out[Len(out)] \in {h[keep], h[Len(h)]}
           /\ Len(out) <= keep + 2 \/ TokensOf(out) <= Budget
<1> DEFINE enough(n) == Len(Without(h, keep, n)) <= keep + 2 \/ TokensOf(Without(h, keep, n)) <= Budget
           first(n) == enough(n) /\ \A k \in 0..n - 1 : ~ enough(k)
           n0 == CHOOSE n \in 0..Len(h) : first(n)
<1>0. Len(h) \in Nat
  OBVIOUS
<1>1. ASSUME NEW n \in 0..Len(h)
      PROVE  LET w == Without(h, keep, n) IN
             /\ w \in Seq(PieceSet) /\ Len(w) >= keep /\ w[1] = h[1]
             /\ w[Len(w)] \in {h[keep], h[Len(h)]}
             /\ n = Len(h) => Len(w) = keep
  <2> DEFINE a == SubSeq(h, 1, keep)
             b == SubSeq(h, keep + 2 * n + 1, Len(h))
  <2>1. a \in Seq(PieceSet) /\ Len(a) = keep /\ \A i \in 1..keep : a[i] = h[i]
    OBVIOUS
  <2>2. CASE keep + 2 * n + 1 > Len(h)
    <3>1. b = <<>>
      BY <2>2
    <3>2. Without(h, keep, n) = a \o b
      BY DEF Without
    <3> HIDE DEF a, b
    <3>3. Without(h, keep, n) = a
      BY <2>1, <3>1, <3>2
    <3>4. a[keep] = h[keep] /\ a[1] = h[1]
      BY <2>1
    <3> QED
      BY <2>1, <3>3, <3>4
  <2>3. CASE keep + 2 * n + 1 <= Len(h)
    <3> DEFINE d == keep + 2 * n
    <3>1. d \in Nat /\ d + 1 <= Len(h) /\ d >= n
      BY <2>3
    <3> HIDE DEF d
    <3>2. b = SubSeq(h, d + 1, Len(h))
      BY DEF d
    <3> HIDE DEF b
    <3>3. /\ b \in Seq(PieceSet) /\ Len(b) = Len(h) - d
          /\ b[Len(h) - d] = h[Len(h)]
      BY <3>1, <3>2
    <3>4. Without(h, keep, n) = a \o b
      BY DEF Without, b
    <3> HIDE DEF a
    <3>5. /\ a \o b \in Seq(PieceSet) /\ Len(a \o b) = keep + (Len(h) - d)
          /\ (a \o b)[1] = a[1] /\ (a \o b)[keep + (Len(h) - d)] = b[Len(h) - d]
      BY <2>1, <3>1, <3>3
    <3>6. n # Len(h)
      BY <3>1
    <3> QED
      BY <2>1, <3>1, <3>3, <3>4, <3>5, <3>6
  <2> QED
    BY <2>2, <2>3
<1>2. enough(Len(h))
  BY <1>0, <1>1
<1> HIDE DEF enough
<1>3. \E n \in 0..Len(h) : first(n)
  <2> DEFINE S == {n \in 0..Len(h) : enough(n)}
  <2>1. S \in SUBSET Nat /\ S # {}
    BY <1>0, <1>2
  <2>2. PICK n \in S : \A k \in S : n <= k
    BY <2>1, LeastNumber
  <2>3. \A k \in 0..n - 1 : ~ enough(k)
    BY <1>0, <2>2
  <2> QED
    BY <2>2, <2>3
<1>4. n0 \in 0..Len(h) /\ enough(n0)
  <2> HIDE DEF first
  <2>1. n0 \in 0..Len(h) /\ first(n0)
    BY <1>3
  <2> QED
    BY <2>1 DEF first
<1>5. DropPairs(h, keep) = Without(h, keep, n0)
  BY DEF DropPairs, enough
<1> HIDE DEF n0
<1> QED
  BY <1>1, <1>4, <1>5 DEF enough

\* What is sent fits: the budget, or the goal alone, or a few pieces with the least share.
InWindow(h) ==
    \/ TokensOf(h) <= Budget \/ Len(h) = 1
    \/ Len(h) <= 4 /\ \A i \in DOMAIN h : h[i].tokens <= Share(Len(h))

\* A conversation from its head, with nothing on its mind.
Orderly(h) ==
    h \in Seq(PieceSet) /\ Len(h) >= 1 /\ h[1].is = "head" /\ h[Len(h)].is # "notice"

\* Fitting keeps the head and the order, and makes it fit.
LEMMA FitFits ==
    ASSUME NEW h, Orderly(h), NEW keep \in {1, 2}, keep = 1 \/ Len(h) > 2, h[keep].is # "notice"
    PROVE  Orderly(Fit(h, keep)) /\ InWindow(Fit(h, keep))
<1>0. /\ h \in Seq(PieceSet) /\ Len(h) \in Nat /\ Len(h) >= 1 /\ h[1].is = "head"
      /\ h[Len(h)].is # "notice"
  BY DEF Orderly
<1>1. CASE Len(h) <= keep \/ TokensOf(h) <= Budget
  <2>1. Fit(h, keep) = h
    BY <1>1 DEF Fit
  <2>2. Len(h) <= keep => Len(h) = 1
    <3>1. PICK n \in Nat : n = Len(h) /\ n >= 1
      BY <1>0
    <3>2. keep = 1 \/ n > 2
      BY <3>1, Zenon
    <3> QED
      BY <3>1, <3>2
  <2> QED
    BY <1>1, <2>1, <2>2 DEF InWindow
<1>2. CASE ~ (Len(h) <= keep \/ TokensOf(h) <= Budget)
  <2> DEFINE out == DropPairs(h, keep)
             clip == [i \in DOMAIN out |-> Clipped(out[i], Share(Len(out)))]
  <2>1. Fit(h, keep) = IF TokensOf(out) <= Budget THEN out ELSE clip
    BY <1>2 DEF Fit
  <2>2. Len(h) > keep
    BY <1>0, <1>2
  <2>3. /\ out \in Seq(PieceSet) /\ Len(out) >= keep /\ out[1] = h[1]
        /\ out[Len(out)] \in {h[keep], h[Len(h)]}
        /\ Len(out) <= keep + 2 \/ TokensOf(out) <= Budget
    BY <1>0, <2>2, DropKeeps
  <2> HIDE DEF out
  <2>4. Len(out) \in Nat /\ Len(out) >= 1 /\ out[1].is = "head" /\ out[Len(out)].is # "notice"
    BY <1>0, <2>3
  <2>5. CASE TokensOf(out) <= Budget
    BY <2>1, <2>3, <2>4, <2>5 DEF Orderly, InWindow
  <2>6. CASE ~ TokensOf(out) <= Budget
    <3> DEFINE share == Share(Len(out))
    <3>1. share \in Nat
      BY <2>4, AgentAssumption DEF Share
    <3> HIDE DEF share
    <3>2. DOMAIN out = 1..Len(out) /\ \A i \in 1..Len(out) : out[i] \in PieceSet
      BY <2>3
    <3>3. ASSUME NEW i \in 1..Len(out)
          PROVE  /\ Clipped(out[i], share) \in PieceSet
                 /\ Clipped(out[i], share).is = out[i].is
                 /\ Clipped(out[i], share).tokens <= share
      BY <3>1, <3>2 DEF Clipped, PieceSet
    <3>4. clip = [i \in 1..Len(out) |-> Clipped(out[i], share)]
      BY <3>2 DEF share
    <3> HIDE DEF clip
    <3>5. clip \in Seq(PieceSet) /\ Len(clip) = Len(out) /\ DOMAIN clip = 1..Len(out)
      BY <2>4, <3>3, <3>4
    <3>6. Orderly(clip)
      BY <2>4, <3>3, <3>4, <3>5 DEF Orderly
    <3>7. Len(clip) <= 4 /\ \A i \in DOMAIN clip : clip[i].tokens <= Share(Len(clip))
      BY <2>3, <2>4, <2>6, <3>3, <3>4, <3>5 DEF share
    <3> QED
      BY <2>1, <2>6, <3>6, <3>7 DEF InWindow
  <2> QED
    BY <2>5, <2>6
<1> QED
  BY <1>1, <1>2

\* With a summary or without, the conversation fits after the folding.
LEMMA CompactFits ==
    ASSUME NEW h, Orderly(h), NEW b \in BOOLEAN, b => Len(h) > 5
    PROVE  Orderly(Compact(h, b)) /\ InWindow(Compact(h, b))
<1>0. /\ h \in Seq(PieceSet) /\ Len(h) \in Nat /\ Len(h) >= 1 /\ h[1].is = "head"
      /\ h[Len(h)].is # "notice"
  BY DEF Orderly
<1>1. CASE ~ b
  BY <1>0, <1>1, FitFits DEF Compact
<1>2. CASE b
  <2> DEFINE t == SubSeq(h, Len(h) - 3, Len(h))
             f == <<Head(h), Summary>> \o t
  <2>1. t \in Seq(PieceSet) /\ Len(t) = 4 /\ t[4] = h[Len(h)]
    BY <1>0, <1>2
  <2> HIDE DEF t
  <2>2. /\ Head(h) = h[1] /\ Head(h) \in PieceSet
        /\ Summary \in PieceSet /\ Summary.is = "summary"
    <3>1. Head(h) = h[1] /\ Head(h) \in PieceSet
      BY <1>0
    <3> QED
      BY <3>1 DEF PieceSet, Piece, Summary
  <2> DEFINE g == <<Head(h), Summary>>
  <2>7. g \in Seq(PieceSet) /\ Len(g) = 2 /\ g[1] = h[1] /\ g[2] = Summary
    BY <2>2
  <2> HIDE DEF g
  <2>8. /\ g \o t \in Seq(PieceSet) /\ Len(g \o t) = 6
        /\ (g \o t)[1] = g[1] /\ (g \o t)[2] = g[2] /\ (g \o t)[6] = t[4]
    <3>1. \A u, w \in Seq(PieceSet) :
             /\ u \o w \in Seq(PieceSet) /\ Len(u \o w) = Len(u) + Len(w)
             /\ \A i \in 1..Len(u) : (u \o w)[i] = u[i]
             /\ \A i \in 1..Len(w) : (u \o w)[Len(u) + i] = w[i]
      OBVIOUS
    <3>2. g \in Seq(PieceSet) /\ t \in Seq(PieceSet)
      BY <2>1, <2>7
    <3>3. /\ g \o t \in Seq(PieceSet) /\ Len(g \o t) = Len(g) + Len(t)
          /\ \A i \in 1..Len(g) : (g \o t)[i] = g[i]
          /\ \A i \in 1..Len(t) : (g \o t)[Len(g) + i] = t[i]
      BY <3>1, <3>2, Zenon
    <3>4. 1 \in 1..Len(g) /\ 2 \in 1..Len(g) /\ 4 \in 1..Len(t) /\ Len(g) + 4 = 6 /\ Len(g) + Len(t) = 6
      BY <2>1, <2>7
    <3>5. (g \o t)[6] = t[4]
      BY <3>3, <3>4, Zenon
    <3> QED
      BY <3>3, <3>4, <3>5, Zenon
  <2>3. f \in Seq(PieceSet) /\ Len(f) = 6 /\ f[1] = h[1] /\ f[2] = Summary /\ f[6] = t[4]
    BY <2>7, <2>8 DEF g
  <2>4. Folded(h) = f
    BY DEF Folded, t
  <2> HIDE DEF f
  <2>5. Orderly(f)
    <3>1. Len(f) >= 1 /\ f[Len(f)] = t[4]
      BY <2>3
    <3>2. f[1].is = "head" /\ f[Len(f)].is # "notice"
      BY <1>0, <2>1, <2>3, <3>1
    <3> QED
      BY <2>3, <3>1, <3>2 DEF Orderly
  <2>6. Orderly(Fit(f, 2)) /\ InWindow(Fit(f, 2))
    BY <2>2, <2>3, <2>5, FitFits, SMTT(40)
  <2> QED
    BY <1>2, <2>4, <2>6 DEF Compact
<1> QED
  BY <1>1, <1>2

-----------------------------------------------------------------------------
(* The loop and the servers.                                               *)

LoopTyped ==
    /\ offer \in Offers /\ owner = Owner(AllTools(offer.catalogue))
    /\ pc \in {"fold", "ask", "work", "wait", "over"}
    /\ turn \in 1..MaxTurns + 1 /\ (pc # "over" => turn <= MaxTurns)
    /\ outcome \in {"", "answer", "error", "spent"}
    /\ history \in Seq(PieceSet)
    /\ queue \in Seq(Call) /\ results \in Seq(Result)
    /\ called \subseteq Call /\ shown \subseteq Texts

ServersTyped ==
    /\ seq \in [Server -> Nat]
    /\ asked \in [Server -> Seq([id : Nat, call : Call])] /\ pipe \in [Server -> Seq(Line)]
    /\ lines \in 0..MaxLines /\ dead \subseteq Server

\* The loop waits for the answer of s.
Waits(s) == pc = "wait" /\ ServerOf(Head(queue)) = s

\* Of the ids that a server has seen only the latest is waited for.
IdsOf(s) ==
    /\ seq[s] >= 3
    /\ \A i \in 1..Len(asked[s]) :
        /\ asked[s][i].id <= seq[s]
        /\ ToolOf[asked[s][i].call] \in DOMAIN owner /\ ServerOf(asked[s][i].call) = s
        /\ s \notin dead /\ asked[s][i].id = seq[s] => Waits(s) /\ asked[s][i].call = Head(queue)
    /\ \A i \in 1..Len(pipe[s]) :
        /\ pipe[s][i].id <= seq[s]
        /\ pipe[s][i].id = seq[s] => Waits(s) /\ pipe[s][i].of = Head(queue)

\* Its answer comes once: it is in the pipe, or still to be given by a server that lives.
OnceOf(s) ==
    /\ \A i, j \in 1..Len(asked[s]) : asked[s][i].id = seq[s] /\ asked[s][j].id = seq[s] => i = j
    /\ \A i, j \in 1..Len(pipe[s]) : pipe[s][i].id = seq[s] /\ pipe[s][j].id = seq[s] => i = j
    /\ s \notin dead => \A i \in 1..Len(asked[s]), j \in 1..Len(pipe[s]) :
                           ~ (asked[s][i].id = seq[s] /\ pipe[s][j].id = seq[s])

IdsStand ==
    /\ pc = "wait" => queue # <<>> /\ IsTool(Head(queue))
    /\ \A s \in Server : IdsOf(s) /\ OnceOf(s)

\* The conversation begins with its head, and ends with no notice when it is folded.
HistoryStands ==
    /\ Len(history) >= 1 /\ history[1].is = "head"
    /\ pc = "fold" => history[Len(history)].is # "notice"
    /\ WindowHolds

AgentInv == LoopTyped /\ ServersTyped /\ IdsStand /\ AnswersAreMatched /\ HistoryStands

\* What is called is a tool of a server.
LEMMA ServerTyped ==
    ASSUME LoopTyped, NEW c \in Call, IsTool(c)
    PROVE  ServerOf(c) \in Server
<1>1. offer.catalogue \in Catalogue
  BY AgentAssumption DEF LoopTyped
<1> QED
  BY <1>1, OwnerFinds DEF LoopTyped, IsTool, ServerOf

Kind == {"answer", "failure", "seen before", "repeated"}
Sender == Call \cup {"loop", "nobody"}

LEMMA TextTyped ==
    ASSUME NEW text \in Texts
    PROVE  text.is \in {"answer", "failure"} /\ (text.is = "answer" => text.says \in Answers)
<1>1. CASE \E a \in Answers : text = [is |-> "answer", says |-> a]
  BY <1>1
<1>2. CASE \E a \in Answers \cup Call \cup {"cut off"} : text = [is |-> "failure", says |-> a]
  <2>1. \A a : [is |-> "failure", says |-> a].is = "failure"
    OBVIOUS
  <2>2. text.is = "failure"
    BY <1>2, <2>1, Zenon
  <2> QED
    BY <2>2
<1> QED
  BY <1>1, <1>2 DEF Texts, Answer, Failure

\* A result more.
LEMMA GiveTyped ==
    ASSUME LoopTyped, queue # <<>>, NEW c \in Call, NEW from \in Sender, NEW kind \in Kind, NEW n \in Nat,
           Give(c, from, kind, n)
    PROVE  /\ results' \in Seq(Result) /\ queue' \in Seq(Call) /\ pc' = "work"
           /\ \A i \in 1..Len(results') :
                 \/ i \in 1..Len(results) /\ results'[i] = results[i]
                 \/ results'[i].call = c /\ results'[i].from = from
<1>0. queue \in Seq(Call) /\ results \in Seq(Result)
  BY DEF LoopTyped
<1> DEFINE r == [call |-> c, from |-> from, kind |-> kind, tokens |-> n]
<1>1. r \in Result /\ r.call = c /\ r.from = from
  BY DEF Result, Sender, Kind
<1> HIDE DEF r
<1>2. results' = Append(results, r) /\ queue' = Tail(queue) /\ pc' = "work"
  BY DEF Give, r
<1>3. /\ results' \in Seq(Result) /\ Len(results') = Len(results) + 1
      /\ \A i \in 1..Len(results) : results'[i] = results[i]
      /\ results'[Len(results) + 1] = r
      /\ \A i \in 1..Len(results') : i \in 1..Len(results) \/ i = Len(results) + 1
  <2>1. /\ Append(results, r) \in Seq(Result) /\ Len(Append(results, r)) = Len(results) + 1
        /\ \A i \in 1..Len(results) : Append(results, r)[i] = results[i]
        /\ Append(results, r)[Len(results) + 1] = r
        /\ \A i \in 1..Len(Append(results, r)) : i \in 1..Len(results) \/ i = Len(results) + 1
    BY <1>0, <1>1, SeqAppend
  <2> QED
    BY <1>2, <2>1, Zenon
<1>4. queue' \in Seq(Call)
  BY <1>0, <1>2, SeqTail
<1> QED
  BY <1>1, <1>2, <1>3, <1>4

\* A text as a result.
LEMMA GivenTyped ==
    ASSUME LoopTyped, queue # <<>>, NEW c \in Call, NEW from \in Sender, NEW text \in Texts,
           GiveText(c, from, text)
    PROVE  /\ results' \in Seq(Result) /\ queue' \in Seq(Call) /\ shown' \subseteq Texts /\ pc' = "work"
           /\ \A i \in 1..Len(results') :
                 \/ i \in 1..Len(results) /\ results'[i] = results[i]
                 \/ results'[i].call = c /\ results'[i].from = from
<1>1. text.is \in {"answer", "failure"} /\ (text.is = "answer" => text.says \in Answers)
  BY TextTyped
<1>2. TokensIn(text) \in Nat
  BY <1>1, AgentAssumption DEF TokensIn
<1>3. PICK kind \in Kind, n \in Nat : Give(c, from, kind, n)
  BY <1>1, <1>2 DEF GiveText, Kind
<1>4. shown' \subseteq Texts
  BY DEF GiveText, LoopTyped
<1> QED
  BY <1>3, <1>4, GiveTyped

\* The servers while the loop does not wait.
LEMMA ServersRest ==
    ASSUME ServersTyped, IdsStand, UNCHANGED <<clientVars, catVars>>,
           pc # "wait", pc' # "wait"
    PROVE  ServersTyped' /\ IdsStand'
<1>1. UNCHANGED <<seq, asked, pipe, lines, dead, owner>>
  BY DEF clientVars, catVars
<1>2. \A c : ServerOf(c)' = ServerOf(c)
  BY <1>1 DEF ServerOf
<1>3. ServersTyped'
  BY <1>1 DEF ServersTyped
<1>4. IdsStand'
  BY <1>1, <1>2 DEF IdsStand, IdsOf, OnceOf, Waits
<1> QED
  BY <1>3, <1>4

\* A call that the loop answers, or for which it makes up the result.
LEMMA GivenKept ==
    ASSUME AgentInv, pc \in {"work", "wait"}, queue # <<>>, NEW from \in {Head(queue), "loop"},
           UNCHANGED <<turn, outcome, history, catVars>>, called' \subseteq Call,
           \/ \E text \in Texts : GiveText(Head(queue), from, text)
           \/ UNCHANGED shown /\ \E kind \in Kind, n \in Nat : Give(Head(queue), from, kind, n)
    PROVE  LoopTyped' /\ AnswersAreMatched' /\ HistoryStands' /\ pc' = "work"
<1>0. LoopTyped /\ AnswersAreMatched /\ HistoryStands
  BY DEF AgentInv
<1>1. queue \in Seq(Call) /\ results \in Seq(Result)
  BY <1>0 DEF LoopTyped
<1>2. Head(queue) \in Call
  BY <1>1, SeqTail
<1>3. from \in Sender
  BY <1>2 DEF Sender
<1>4. /\ results' \in Seq(Result) /\ queue' \in Seq(Call) /\ shown' \subseteq Texts /\ pc' = "work"
      /\ \A i \in 1..Len(results') :
            \/ i \in 1..Len(results) /\ results'[i] = results[i]
            \/ results'[i].call = Head(queue) /\ results'[i].from = from
  <2>1. CASE \E text \in Texts : GiveText(Head(queue), from, text)
    BY <1>0, <1>2, <1>3, <2>1, GivenTyped
  <2>2. CASE UNCHANGED shown /\ \E kind \in Kind, n \in Nat : Give(Head(queue), from, kind, n)
    <3>1. shown' \subseteq Texts
      BY <1>0, <2>2 DEF LoopTyped
    <3> QED
      BY <1>0, <1>2, <1>3, <2>2, <3>1, GiveTyped
  <2> QED
    BY <2>1, <2>2
<1>5. LoopTyped'
  BY <1>0, <1>4 DEF LoopTyped, catVars
<1>6. AnswersAreMatched'
  <2>1. DOMAIN results = 1..Len(results) /\ DOMAIN results' = 1..Len(results')
    BY <1>1, <1>4
  <2> QED
    BY <1>0, <1>4, <2>1 DEF AnswersAreMatched
<1>7. HistoryStands'
  BY <1>0, <1>4 DEF HistoryStands, WindowHolds
<1> QED
  BY <1>4, <1>5, <1>6, <1>7

\* The conversation is folded and sent.
LEMMA FoldKept ==
    ASSUME AgentInv, Fold, UNCHANGED catVars
    PROVE  AgentInv'
<1>0. /\ LoopTyped /\ ServersTyped /\ IdsStand /\ AnswersAreMatched /\ HistoryStands
      /\ pc = "fold" /\ pc' = "ask"
      /\ UNCHANGED <<turn, outcome, queue, results, called, shown, clientVars, catVars>>
  BY DEF AgentInv, Fold
<1>1. ServersTyped' /\ IdsStand'
  BY <1>0, ServersRest
<1>2. PICK b \in BOOLEAN : /\ b => Len(history) > 5
                           /\ history' = WithNotice(Compact(history, b))
  BY DEF Fold
<1> DEFINE out == Compact(history, b)
<1>3. Orderly(history)
  BY <1>0 DEF LoopTyped, HistoryStands, Orderly
<1>4. Orderly(out) /\ InWindow(out)
  BY <1>2, <1>3, CompactFits
<1> HIDE DEF out
<1>5. out \in Seq(PieceSet) /\ Len(out) \in Nat /\ Len(out) >= 1 /\ out[1].is = "head" /\ out[Len(out)].is # "notice"
  BY <1>4 DEF Orderly
<1>6. history' \in {out, Append(out, Notice)}
  BY <1>2 DEF WithNotice, out
<1>7. Notice \in PieceSet /\ Notice.is = "notice"
  BY DEF Notice, PieceSet, Piece
<1>8. history' \in Seq(PieceSet) /\ Len(history') >= 1 /\ history'[1].is = "head"
  <2>1. CASE history' = out
    BY <1>5, <2>1
  <2>2. CASE history' = Append(out, Notice)
    BY <1>5, <1>7, <2>2, SeqAppend
  <2> QED
    BY <1>6, <2>1, <2>2
<1>9. (IF Last(history').is = "notice" THEN Front(history') ELSE history') = out
  <2>1. CASE history' = out
    BY <1>5, <2>1 DEF Last
  <2>2. CASE history' = Append(out, Notice)
    <3>1. /\ Len(Append(out, Notice)) = Len(out) + 1
          /\ Append(out, Notice)[Len(out) + 1] = Notice
      BY <1>5, <1>7, SeqAppend
    <3>2. Last(history').is = "notice"
      BY <1>7, <2>2, <3>1 DEF Last
    <3>3. Front(history') = out
      <4>1. \A q \in Seq(PieceSet) : \A x \in PieceSet : SubSeq(Append(q, x), 1, Len(Append(q, x)) - 1) = q
        OBVIOUS
      <4> QED
        BY <1>5, <1>7, <2>2, <4>1 DEF Front
    <3> QED
      BY <3>2, <3>3
  <2> QED
    BY <1>6, <2>1, <2>2
<1>10. WindowHolds'
  BY <1>4, <1>8, <1>9 DEF WindowHolds, InWindow
<1>11. HistoryStands'
  BY <1>0, <1>8, <1>10 DEF HistoryStands
<1>12. LoopTyped' /\ AnswersAreMatched'
  BY <1>0, <1>8 DEF LoopTyped, AnswersAreMatched, catVars
<1> QED
  BY <1>1, <1>11, <1>12 DEF AgentInv

\* The model answers.
LEMMA AskKept ==
    ASSUME AgentInv, EndRun \/ CallTools, UNCHANGED catVars
    PROVE  AgentInv'
<1>0. /\ LoopTyped /\ ServersTyped /\ IdsStand /\ AnswersAreMatched /\ HistoryStands
      /\ pc = "ask" /\ pc' \in {"over", "work"}
      /\ UNCHANGED <<turn, called, shown, clientVars, catVars>>
  BY DEF AgentInv, EndRun, CallTools, Over
<1>1. ServersTyped' /\ IdsStand'
  BY <1>0, ServersRest
<1>2. CASE EndRun
  <2>1. /\ UNCHANGED <<history, queue, results>> /\ pc' = "over" /\ outcome' \in {"answer", "error"}
    BY <1>2 DEF EndRun, Over
  <2>2. LoopTyped' /\ AnswersAreMatched' /\ HistoryStands'
    BY <1>0, <2>1 DEF LoopTyped, AnswersAreMatched, HistoryStands, WindowHolds, catVars
  <2> QED
    BY <1>1, <2>2 DEF AgentInv
<1>3. CASE CallTools
  <2> DEFINE piece == [is |-> "calls", tokens |-> 1]
  <2>1. piece \in PieceSet
    BY DEF PieceSet, Piece
  <2> HIDE DEF piece
  <2>2. /\ history' = Append(history, piece) /\ results' = <<>> /\ pc' = "work"
        /\ outcome' = outcome
    BY <1>3 DEF CallTools, piece
  <2>3. queue' \in Seq(Call)
    <3>1. \A c, d \in Call : <<c>> \in Seq(Call) /\ <<c, d>> \in Seq(Call)
      OBVIOUS
    <3>2. \A q \in {<<c>> : c \in Call} \cup {<<c, d>> : c, d \in Call} : q \in Seq(Call)
      <4> SUFFICES ASSUME NEW q \in {<<c>> : c \in Call} \cup {<<c, d>> : c, d \in Call}
                   PROVE  q \in Seq(Call)
        OBVIOUS
      <4>1. CASE q \in {<<c>> : c \in Call}
        <5>1. PICK c \in Call : q = <<c>>
          BY <4>1
        <5>2. <<c>> \in Seq(Call)
          OBVIOUS
        <5> QED
          BY <5>1, <5>2
      <4>2. CASE q \in {<<c, d>> : c, d \in Call}
        <5>1. PICK c \in Call, d \in Call : q = <<c, d>>
          BY <4>2
        <5> QED
          BY <3>1, <5>1
      <4> QED
        BY <4>1, <4>2
    <3>3. queue' \in {<<c>> : c \in Call} \cup {<<c, d>> : c, d \in Call}
      BY <1>3 DEF CallTools
    <3> QED
      BY <3>2, <3>3
  <2>4. history' \in Seq(PieceSet) /\ Len(history') >= 1 /\ history'[1] = history[1]
    <3>1. history \in Seq(PieceSet) /\ Len(history) >= 1
      BY <1>0 DEF LoopTyped, HistoryStands
    <3>2. /\ Append(history, piece) \in Seq(PieceSet) /\ Len(Append(history, piece)) = Len(history) + 1
          /\ Len(history) \in Nat /\ \A i \in 1..Len(history) : Append(history, piece)[i] = history[i]
      BY <2>1, <3>1, SeqAppend
    <3>3. Len(Append(history, piece)) >= 1 /\ 1 \in 1..Len(history)
      BY <3>1, <3>2
    <3> QED
      BY <2>2, <3>2, <3>3, Zenon
  <2>5. AnswersAreMatched' /\ results' \in Seq(Result)
    BY <2>2 DEF AnswersAreMatched
  <2>7. LoopTyped'
    <3>1. pc' = "work" /\ pc # "over" /\ UNCHANGED <<outcome, offer, owner, turn, called, shown>>
      BY <1>0, <2>2 DEF catVars
    <3> QED
      BY <1>0, <2>3, <2>4, <2>5, <3>1 DEF LoopTyped
  <2>6. HistoryStands'
    BY <1>0, <2>2, <2>4 DEF HistoryStands, WindowHolds
  <2> QED
    BY <1>1, <2>5, <2>6, <2>7 DEF AgentInv
<1> QED
  BY <1>2, <1>3

\* The turn ends.
LEMMA EndTurnKept ==
    ASSUME AgentInv, EndTurn, UNCHANGED catVars
    PROVE  AgentInv'
<1>0. /\ LoopTyped /\ ServersTyped /\ IdsStand /\ AnswersAreMatched /\ HistoryStands
      /\ pc = "work" /\ pc' \in {"over", "fold"}
      /\ UNCHANGED <<queue, called, shown, clientVars, catVars>>
  BY DEF AgentInv, EndTurn, Over
<1>1. ServersTyped' /\ IdsStand'
  BY <1>0, ServersRest
<1> DEFINE sum == FoldSeq(LAMBDA x, n : n + x.tokens, 0, results)
           piece == [is |-> "results", tokens |-> sum]
<1>2. sum \in Nat
  <2>1. results \in Seq(Result)
    BY <1>0 DEF LoopTyped
  <2>2. Len(results) \in Nat /\ DOMAIN results = 1..Len(results) /\ \A i \in 1..Len(results) : results[i] \in Result
    BY <2>1
  <2>3. \A i \in 1..Len(results) : results[i].tokens \in Nat
    BY <2>2 DEF Result
  <2> QED
    BY <2>2, <2>3, TokensTyped
<1> HIDE DEF sum
<1>3. piece \in PieceSet /\ piece.is = "results"
  BY <1>2 DEF PieceSet, Piece
<1>4. /\ history' = Append(history, piece) /\ results' = <<>> /\ turn' = turn + 1
      /\ \/ turn < MaxTurns /\ pc' = "fold" /\ outcome' = outcome
         \/ ~ turn < MaxTurns /\ pc' = "over" /\ outcome' = "spent"
  BY DEF EndTurn, Over, sum
<1> HIDE DEF piece
<1>5. /\ history' \in Seq(PieceSet) /\ Len(history') = Len(history) + 1 /\ Len(history) \in Nat
      /\ history'[1] = history[1] /\ history'[Len(history')] = piece
  <2>1. history \in Seq(PieceSet) /\ Len(history) >= 1
    BY <1>0 DEF LoopTyped, HistoryStands
  <2>2. /\ Append(history, piece) \in Seq(PieceSet) /\ Len(Append(history, piece)) = Len(history) + 1
        /\ Len(history) \in Nat /\ \A i \in 1..Len(history) : Append(history, piece)[i] = history[i]
        /\ Append(history, piece)[Len(history) + 1] = piece
    BY <1>3, <2>1, SeqAppend
  <2>3. 1 \in 1..Len(history)
    BY <2>1, <2>2
  <2> QED
    BY <1>4, <2>2, <2>3, Zenon
<1>6. turn' \in 1..MaxTurns + 1 /\ (pc' # "over" => turn' <= MaxTurns)
  <2>1. turn \in 1..MaxTurns + 1 /\ turn <= MaxTurns /\ MaxTurns \in Nat
    BY <1>0, AgentAssumption DEF LoopTyped
  <2>2. CASE turn < MaxTurns /\ turn' = turn + 1
    BY <2>1, <2>2
  <2>3. CASE ~ turn < MaxTurns /\ turn' = turn + 1 /\ pc' = "over"
    BY <2>1, <2>3
  <2> QED
    BY <1>4, <2>2, <2>3
<1>9. AnswersAreMatched' /\ results' \in Seq(Result)
  BY <1>4 DEF AnswersAreMatched
<1>7. LoopTyped'
  <2>1. outcome' \in {"", "answer", "error", "spent"}
    BY <1>0, <1>4 DEF LoopTyped
  <2>2. UNCHANGED <<offer, owner, queue, called, shown>>
    BY <1>0 DEF catVars
  <2> QED
    BY <1>0, <1>5, <1>6, <1>9, <2>1, <2>2 DEF LoopTyped
<1>8. HistoryStands'
  BY <1>0, <1>3, <1>4, <1>5 DEF HistoryStands, WindowHolds
<1> QED
  BY <1>1, <1>7, <1>8, <1>9 DEF AgentInv

\* A server that the loop does not talk to.
LEMMA OtherStands ==
    ASSUME ServersTyped, NEW t \in Server, IdsOf(t), OnceOf(t), owner' = owner,
           seq'[t] = seq[t], asked'[t] = asked[t], pipe'[t] = pipe[t], dead \subseteq dead',
           Waits(t) => Waits(t)' /\ Head(queue)' = Head(queue)
    PROVE  IdsOf(t)' /\ OnceOf(t)'
<1>1. \A c : ServerOf(c)' = ServerOf(c)
  BY DEF ServerOf
<1>2. OnceOf(t)'
  BY DEF OnceOf
<1>3. ASSUME NEW i \in 1..Len(asked'[t])
      PROVE  (/\ asked[t][i].id <= seq[t]
              /\ ToolOf[asked[t][i].call] \in DOMAIN owner /\ ServerOf(asked[t][i].call) = t
              /\ t \notin dead /\ asked[t][i].id = seq[t] => Waits(t) /\ asked[t][i].call = Head(queue))'
  BY <1>1 DEF IdsOf
<1>4. ASSUME NEW i \in 1..Len(pipe'[t])
      PROVE  (/\ pipe[t][i].id <= seq[t]
              /\ pipe[t][i].id = seq[t] => Waits(t) /\ pipe[t][i].of = Head(queue))'
  BY DEF IdsOf
<1>5. seq'[t] >= 3
  BY DEF IdsOf
<1> QED
  BY <1>2, <1>3, <1>4, <1>5 DEF IdsOf

\* A call that was made, and one that the loop answers itself.
LEMMA HereKept ==
    ASSUME AgentInv, Repeated \/ DispatchHere, UNCHANGED catVars
    PROVE  AgentInv'
<1>0. /\ LoopTyped /\ ServersTyped /\ IdsStand /\ pc = "work" /\ queue # <<>>
      /\ UNCHANGED <<turn, outcome, history, clientVars, catVars>>
  BY DEF AgentInv, Repeated, DispatchHere
<1>1. Head(queue) \in Call
  BY <1>0, SeqTail DEF LoopTyped
<1>2. "loop" \in {Head(queue), "loop"}
  OBVIOUS
<1>3. LoopTyped' /\ AnswersAreMatched' /\ HistoryStands' /\ pc' = "work"
  <2>1. CASE Repeated
    <3>1. UNCHANGED <<called, shown>> /\ Give(Head(queue), "loop", "repeated", 1)
      BY <2>1 DEF Repeated
    <3>2. "repeated" \in Kind /\ 1 \in Nat /\ called' \subseteq Call
      BY <1>0, <3>1 DEF Kind, LoopTyped
    <3> QED
      BY <1>0, <1>2, <3>1, <3>2, GivenKept
  <2>2. CASE DispatchHere
    <3>1. called' \subseteq Call
      BY <1>0, <1>1, <2>2 DEF DispatchHere, LoopTyped
    <3>2. \E text \in Texts : GiveText(Head(queue), "loop", text)
      <4>1. Failure(Head(queue)) \in Texts /\ \A a \in Answers : Answer(a) \in Texts
        BY <1>1 DEF Texts
      <4> QED
        BY <2>2, <4>1 DEF DispatchHere
    <3> QED
      BY <1>0, <1>2, <3>1, <3>2, GivenKept
  <2> QED
    BY <2>1, <2>2
<1>4. ServersTyped' /\ IdsStand'
  BY <1>0, <1>3, ServersRest
<1> QED
  BY <1>3, <1>4 DEF AgentInv

\* No answer can come any more.
LEMMA CutOffKept ==
    ASSUME AgentInv, CutOff, UNCHANGED catVars
    PROVE  AgentInv'
<1>0. /\ LoopTyped /\ ServersTyped /\ IdsStand /\ pc = "wait"
      /\ UNCHANGED <<turn, outcome, history, called, clientVars, catVars>>
      /\ pipe[ServerOf(Head(queue))] = <<>> /\ ServerOf(Head(queue)) \in dead
      /\ GiveText(Head(queue), "loop", Failure("cut off"))
  BY DEF AgentInv, CutOff
<1>1. UNCHANGED <<seq, asked, pipe, lines, dead, owner>> /\ queue # <<>>
  BY <1>0 DEF clientVars, catVars, IdsStand
<1>2. LoopTyped' /\ AnswersAreMatched' /\ HistoryStands' /\ pc' = "work"
  <2>1. Failure("cut off") \in Texts /\ called' \subseteq Call
    BY <1>0 DEF Texts, LoopTyped
  <2> QED
    BY <1>0, <1>1, <2>1, GivenKept
<1>3. ServersTyped'
  BY <1>0, <1>1 DEF ServersTyped
<1>4. ASSUME NEW t \in Server PROVE IdsOf(t)' /\ OnceOf(t)'
  <2>1. IdsOf(t) /\ OnceOf(t)
    BY <1>0 DEF IdsStand
  <2>2. CASE ~ Waits(t)
    BY <1>0, <1>1, <2>1, <2>2, OtherStands
  <2>3. CASE Waits(t)
    <3>1. t \in dead' /\ Len(pipe'[t]) = 0
      BY <1>0, <1>1, <2>3 DEF Waits
    <3>2. \A c : ServerOf(c)' = ServerOf(c)
      BY <1>1 DEF ServerOf
    <3>3. IdsOf(t)'
      BY <1>1, <2>1, <3>1, <3>2 DEF IdsOf
    <3>4. OnceOf(t)'
      BY <1>1, <2>1, <3>1 DEF OnceOf
    <3> QED
      BY <3>3, <3>4
  <2> QED
    BY <2>2, <2>3
<1>5. IdsStand'
  BY <1>2, <1>4 DEF IdsStand
<1> QED
  BY <1>2, <1>3, <1>5 DEF AgentInv

\* The id of what is asked and of what is sent.
LEMMA IdTyped ==
    /\ \A q \in Seq([id : Nat, call : Call]) : \A i \in 1..Len(q) : q[i].id \in Nat /\ q[i].call \in Call
    /\ \A q \in Seq(Line) : \A i \in 1..Len(q) : q[i].id \in Nat /\ q[i] \in Line
<1>1. \A T : \A q \in Seq(T) : \A i \in 1..Len(q) : q[i] \in T
  OBVIOUS
<1>2. \A x \in [id : Nat, call : Call] : x.id \in Nat /\ x.call \in Call
  OBVIOUS
<1>3. \A x \in Line : x.id \in Nat
  BY DEF Line
<1>4. \A q \in Seq([id : Nat, call : Call]) : \A i \in 1..Len(q) : q[i].id \in Nat /\ q[i].call \in Call
  BY <1>1, <1>2, Zenon
<1>5. \A q \in Seq(Line) : \A i \in 1..Len(q) : q[i].id \in Nat /\ q[i] \in Line
  BY <1>1, <1>3, Zenon
<1> QED
  BY <1>4, <1>5

\* A request goes out, or breaks on a pipe that is closed.
LEMMA RequestKept ==
    ASSUME AgentInv, Request, UNCHANGED catVars
    PROVE  AgentInv' /\ Head(queue) \notin called /\ Head(queue) \in called'
<1>1. PICK c \in Call : c = Head(queue) /\ queue \in Seq(Call)
  BY SeqTail DEF AgentInv, LoopTyped, Request
<1>2. PICK s \in Server : s = ServerOf(c)
  BY <1>1, ServerTyped DEF AgentInv, Request
<1>0. /\ LoopTyped /\ ServersTyped /\ IdsStand /\ AnswersAreMatched /\ HistoryStands
      /\ pc = "work" /\ queue # <<>> /\ IsTool(c)
      /\ called' = called \cup {c} /\ c \notin called
      /\ seq' = [seq EXCEPT ![s] = seq[s] + 1]
      /\ UNCHANGED <<turn, outcome, history, pipe, lines, dead, owner, offer>>
  BY <1>1, <1>2 DEF AgentInv, Request, NextId, IsRepeat, catVars
<1>3. called' \subseteq Call
  BY <1>0, <1>1 DEF LoopTyped
<1>4. \A d : ServerOf(d)' = ServerOf(d)
  BY <1>0 DEF ServerOf
<1>5. \A t \in Server : IdsOf(t) /\ OnceOf(t) /\ ~ Waits(t)
  BY <1>0 DEF IdsStand, Waits
<1>6. seq' \in [Server -> Nat] /\ seq'[s] = seq[s] + 1 /\ \A t \in Server \ {s} : seq'[t] = seq[t]
  BY <1>0, <1>2 DEF ServersTyped
<1>7. seq[s] \in Nat /\ seq[s] >= 3
  BY <1>0, <1>2, <1>5 DEF ServersTyped, IdsOf
<1>8. /\ asked[s] \in Seq([id : Nat, call : Call]) /\ pipe[s] \in Seq(Line)
      /\ \A i \in 1..Len(asked[s]) : asked[s][i].id <= seq'[s] /\ asked[s][i].id # seq'[s]
      /\ \A i \in 1..Len(pipe[s]) : pipe[s][i].id <= seq'[s] /\ pipe[s][i].id # seq'[s]
  <2>1. asked[s] \in Seq([id : Nat, call : Call]) /\ pipe[s] \in Seq(Line)
    BY <1>0, <1>2 DEF ServersTyped
  <2>2. \A i \in 1..Len(asked[s]) : asked[s][i].id \in Nat
    BY <2>1, IdTyped
  <2>3. \A i \in 1..Len(pipe[s]) : pipe[s][i].id \in Nat
    BY <2>1, IdTyped
  <2>4. /\ \A i \in 1..Len(asked[s]) : asked[s][i].id <= seq[s]
        /\ \A i \in 1..Len(pipe[s]) : pipe[s][i].id <= seq[s]
    BY <1>2, <1>5 DEF IdsOf
  <2>5. \A n \in Nat : n <= seq[s] => n <= seq'[s] /\ n # seq'[s]
    BY <1>6, <1>7
  <2> QED
    BY <2>1, <2>2, <2>3, <2>4, <2>5
<1>11. \A i \in 1..Len(asked[s]) : ToolOf[asked[s][i].call] \in DOMAIN owner /\ owner[ToolOf[asked[s][i].call]] = s
  BY <1>2, <1>5 DEF IdsOf, ServerOf
<1>12. seq'[s] >= 3
  BY <1>6, <1>7
<1>9. CASE s \in dead
  <2>1. GiveText(c, "loop", Failure("cut off")) /\ UNCHANGED asked
    BY <1>1, <1>2, <1>9 DEF Request
  <2>2. LoopTyped' /\ AnswersAreMatched' /\ HistoryStands' /\ pc' = "work"
    <3>1. Failure("cut off") \in Texts
      BY DEF Texts
    <3>2. \E text \in Texts : GiveText(Head(queue), "loop", text)
      BY <1>1, <2>1, <3>1
    <3>3. UNCHANGED <<turn, outcome, history, catVars>>
      BY <1>0 DEF catVars
    <3> QED
      BY <1>0, <1>3, <3>2, <3>3, GivenKept
  <2>3. ServersTyped'
    BY <1>0, <1>6, <2>1 DEF ServersTyped
  <2>4. IdsOf(s)'
    <3>1. ASSUME NEW i \in 1..Len(asked'[s])
          PROVE  (/\ asked[s][i].id <= seq[s]
                  /\ ToolOf[asked[s][i].call] \in DOMAIN owner /\ ServerOf(asked[s][i].call) = s
                  /\ s \notin dead /\ asked[s][i].id = seq[s] => Waits(s) /\ asked[s][i].call = Head(queue))'
      BY <1>0, <1>8, <1>9, <1>11, <2>1 DEF ServerOf
    <3>2. ASSUME NEW i \in 1..Len(pipe'[s])
          PROVE  (/\ pipe[s][i].id <= seq[s]
                  /\ pipe[s][i].id = seq[s] => Waits(s) /\ pipe[s][i].of = Head(queue))'
      BY <1>0, <1>8
    <3> QED
      BY <1>12, <3>1, <3>2 DEF IdsOf
  <2>5. OnceOf(s)'
    BY <1>0, <1>8, <2>1 DEF OnceOf
  <2>6. \A t \in Server \ {s} : IdsOf(t)' /\ OnceOf(t)'
    BY <1>0, <1>5, <1>6, <2>1, OtherStands
  <2>7. IdsStand'
    BY <2>2, <2>4, <2>5, <2>6 DEF IdsStand
  <2> QED
    BY <1>0, <1>1, <2>2, <2>3, <2>7 DEF AgentInv
<1>10. CASE s \notin dead
  <2> DEFINE a == [id |-> seq[s] + 1, call |-> c]
  <2>1. /\ asked' = [asked EXCEPT ![s] = Append(asked[s], a)] /\ pc' = "wait"
        /\ UNCHANGED <<queue, results, shown>>
    BY <1>1, <1>2, <1>10 DEF Request, NextId
  <2>2. a \in [id : Nat, call : Call] /\ a.id = seq'[s] /\ a.call = c
    BY <1>1, <1>6, <1>7
  <2> HIDE DEF a
  <2>3. LoopTyped'
    BY <1>0, <1>3, <2>1 DEF LoopTyped
  <2>4. AnswersAreMatched' /\ HistoryStands'
    BY <1>0, <2>1 DEF AnswersAreMatched, HistoryStands, WindowHolds
  <2>5. /\ Append(asked[s], a) \in Seq([id : Nat, call : Call])
        /\ Len(Append(asked[s], a)) = Len(asked[s]) + 1 /\ Len(asked[s]) \in Nat
        /\ \A i \in 1..Len(asked[s]) : Append(asked[s], a)[i] = asked[s][i]
        /\ Append(asked[s], a)[Len(asked[s]) + 1] = a
        /\ \A i \in 1..Len(Append(asked[s], a)) : i \in 1..Len(asked[s]) \/ i = Len(asked[s]) + 1
    BY <1>8, <2>2, SeqAppend
  <2>6. /\ asked' \in [Server -> Seq([id : Nat, call : Call])] /\ asked'[s] = Append(asked[s], a)
        /\ \A t \in Server \ {s} : asked'[t] = asked[t]
    BY <1>0, <1>2, <2>1, <2>5 DEF ServersTyped
  <2>7. ServersTyped'
    BY <1>0, <1>6, <2>6 DEF ServersTyped
  <2>8. Waits(s)' /\ c = Head(queue)' /\ queue' # <<>> /\ IsTool(Head(queue))'
    BY <1>0, <1>1, <1>2, <1>4, <2>1 DEF Waits, IsTool
  <2>9. \A i \in 1..Len(asked'[s]) :
           \/ i = Len(asked[s]) + 1 /\ asked'[s][i] = a
           \/ i \in 1..Len(asked[s]) /\ asked'[s][i] = asked[s][i]
    BY <2>5, <2>6
  <2>10. IdsOf(s)'
    <3>1. seq'[s] >= 3 /\ ToolOf[c] \in DOMAIN owner /\ ServerOf(c) = s
      BY <1>0, <1>2, <1>6, <1>7 DEF IsTool
    <3>2. ASSUME NEW i \in 1..Len(asked'[s])
          PROVE  (/\ asked[s][i].id <= seq[s]
                  /\ ToolOf[asked[s][i].call] \in DOMAIN owner /\ ServerOf(asked[s][i].call) = s
                  /\ s \notin dead /\ asked[s][i].id = seq[s] => Waits(s) /\ asked[s][i].call = Head(queue))'
      <4>1. CASE asked'[s][i] = a
        BY <1>0, <1>4, <1>6, <1>7, <2>2, <2>8, <3>1, <4>1
      <4>2. CASE i \in 1..Len(asked[s]) /\ asked'[s][i] = asked[s][i]
        BY <1>0, <1>8, <1>11, <4>2 DEF ServerOf
      <4> QED
        BY <2>9, <4>1, <4>2
    <3>3. ASSUME NEW i \in 1..Len(pipe'[s])
          PROVE  (/\ pipe[s][i].id <= seq[s]
                  /\ pipe[s][i].id = seq[s] => Waits(s) /\ pipe[s][i].of = Head(queue))'
      BY <1>0, <1>8
    <3> QED
      BY <3>1, <3>2, <3>3 DEF IdsOf
  <2>11. OnceOf(s)'
    <3>1. \A i \in 1..Len(asked'[s]) : asked'[s][i].id = seq'[s] => i = Len(asked[s]) + 1
      BY <1>8, <2>9
    <3>2. \A i \in 1..Len(pipe'[s]) : pipe'[s][i].id # seq'[s]
      BY <1>0, <1>8
    <3> QED
      BY <3>1, <3>2 DEF OnceOf
  <2>12. \A t \in Server \ {s} : IdsOf(t)' /\ OnceOf(t)'
    BY <1>0, <1>5, <1>6, <2>6, OtherStands
  <2>13. IdsStand'
    BY <2>8, <2>10, <2>11, <2>12 DEF IdsStand
  <2> QED
    BY <1>0, <1>1, <2>3, <2>4, <2>7, <2>13 DEF AgentInv
<1> QED
  BY <1>9, <1>10

\* A line is read: the answer to the call, or one that is skipped.
LEMMA ReceiveKept ==
    ASSUME AgentInv, Receive, UNCHANGED catVars
    PROVE  AgentInv'
<1>1. PICK c \in Call : c = Head(queue) /\ queue # <<>> /\ IsTool(c)
  BY SeqTail DEF AgentInv, LoopTyped, IdsStand, Receive
<1>2. PICK s \in Server : s = ServerOf(c)
  BY <1>1, ServerTyped DEF AgentInv
<1>3. pipe[s] \in Seq(Line) /\ pipe[s] # <<>>
  BY <1>1, <1>2 DEF AgentInv, ServersTyped, Receive
<1>4. PICK line \in Line : line = Head(pipe[s]) /\ line = pipe[s][1]
  BY <1>3, SeqTail
<1>0. /\ LoopTyped /\ ServersTyped /\ IdsStand /\ AnswersAreMatched /\ HistoryStands /\ pc = "wait"
      /\ pipe' = [pipe EXCEPT ![s] = Tail(pipe[s])]
      /\ IF line.id # seq[s]
         THEN UNCHANGED <<pc, queue, results, shown>>
         ELSE GiveText(c, line.of, IF line.ok THEN Answer(line.says) ELSE Failure(line.says))
      /\ UNCHANGED <<turn, outcome, history, called, seq, asked, lines, dead, owner, offer>>
  BY <1>1, <1>2, <1>4 DEF AgentInv, Receive, IsMine, catVars
<1>5. /\ Tail(pipe[s]) \in Seq(Line) /\ Len(pipe[s]) \in Nat /\ Len(pipe[s]) >= 1
      /\ \A i \in 1..Len(Tail(pipe[s])) : Tail(pipe[s])[i] = pipe[s][i + 1] /\ i + 1 \in 2..Len(pipe[s])
  BY <1>3, SeqTail
<1>6. /\ pipe' \in [Server -> Seq(Line)] /\ pipe'[s] = Tail(pipe[s])
      /\ \A t \in Server \ {s} : pipe'[t] = pipe[t]
  BY <1>0, <1>5 DEF ServersTyped
<1>7. \A i \in 1..Len(pipe'[s]) : /\ pipe'[s][i] = pipe[s][i + 1]
                                  /\ i + 1 \in 1..Len(pipe[s]) /\ i + 1 # 1 /\ i \in Nat
  BY <1>5, <1>6
<1>8. ServersTyped'
  BY <1>0, <1>6 DEF ServersTyped
<1>9. IdsOf(s) /\ OnceOf(s) /\ 1 \in 1..Len(pipe[s])
  BY <1>0, <1>5 DEF IdsStand
<1>10. \A d : ServerOf(d)' = ServerOf(d)
  BY <1>0 DEF ServerOf
<1>11. \A t \in Server \ {s} : IdsOf(t)' /\ OnceOf(t)'
  <2> SUFFICES ASSUME NEW t \in Server, t # s PROVE IdsOf(t)' /\ OnceOf(t)'
    OBVIOUS
  <2>1. ~ Waits(t) /\ IdsOf(t) /\ OnceOf(t)
    BY <1>0, <1>1, <1>2 DEF Waits, IdsStand
  <2> QED
    BY <1>0, <1>6, <2>1, OtherStands
<1>12. CASE line.id # seq[s]
  <2>1. UNCHANGED <<pc, queue, results, shown>>
    BY <1>0, <1>12
  <2>2. LoopTyped' /\ AnswersAreMatched' /\ HistoryStands'
    BY <1>0, <2>1 DEF LoopTyped, AnswersAreMatched, HistoryStands, WindowHolds
  <2>3. IdsOf(s)'
    <3>1. ASSUME NEW i \in 1..Len(asked'[s])
          PROVE  (/\ asked[s][i].id <= seq[s]
                  /\ ToolOf[asked[s][i].call] \in DOMAIN owner /\ ServerOf(asked[s][i].call) = s
                  /\ s \notin dead /\ asked[s][i].id = seq[s] => Waits(s) /\ asked[s][i].call = Head(queue))'
      BY <1>0, <1>9, <2>1 DEF IdsOf, Waits, ServerOf
    <3>2. ASSUME NEW i \in 1..Len(pipe'[s])
          PROVE  (/\ pipe[s][i].id <= seq[s]
                  /\ pipe[s][i].id = seq[s] => Waits(s) /\ pipe[s][i].of = Head(queue))'
      BY <1>0, <1>7, <1>9, <2>1 DEF IdsOf, Waits, ServerOf
    <3>3. seq'[s] >= 3
      BY <1>0, <1>9 DEF IdsOf
    <3> QED
      BY <3>1, <3>2, <3>3 DEF IdsOf
  <2>4. OnceOf(s)'
    <3>1. \A i, j \in 1..Len(asked'[s]) : asked'[s][i].id = seq'[s] /\ asked'[s][j].id = seq'[s] => i = j
      BY <1>0, <1>9 DEF OnceOf
    <3>2. ASSUME NEW i \in 1..Len(pipe'[s]), NEW j \in 1..Len(pipe'[s]),
                 pipe'[s][i].id = seq'[s], pipe'[s][j].id = seq'[s]
          PROVE  i = j
      <4>1. /\ pipe[s][i + 1].id = seq[s] /\ pipe[s][j + 1].id = seq[s]
            /\ i + 1 \in 1..Len(pipe[s]) /\ j + 1 \in 1..Len(pipe[s]) /\ i \in Nat /\ j \in Nat
        BY <1>0, <1>7, <3>2
      <4>2. i + 1 = j + 1
        BY <1>9, <4>1 DEF OnceOf
      <4> QED
        BY <4>1, <4>2
    <3>3. ASSUME s \notin dead', NEW i \in 1..Len(asked'[s]), NEW j \in 1..Len(pipe'[s])
          PROVE  ~ (asked'[s][i].id = seq'[s] /\ pipe'[s][j].id = seq'[s])
      <4>1. pipe'[s][j] = pipe[s][j + 1] /\ j + 1 \in 1..Len(pipe[s])
        BY <1>7
      <4>2. s \notin dead /\ asked'[s] = asked[s] /\ seq'[s] = seq[s]
        BY <1>0, <3>3
      <4>3. \A k \in 1..Len(pipe[s]) : ~ (asked[s][i].id = seq[s] /\ pipe[s][k].id = seq[s])
        BY <1>9, <4>2 DEF OnceOf
      <4> QED
        BY <4>1, <4>2, <4>3
    <3> QED
      BY <3>1, <3>2, <3>3 DEF OnceOf
  <2>5. IdsStand'
    BY <1>0, <1>1, <1>11, <2>1, <2>3, <2>4 DEF IdsStand, IsTool
  <2> QED
    BY <1>8, <2>2, <2>5 DEF AgentInv
<1>13. CASE line.id = seq[s]
  <2> DEFINE text == IF line.ok THEN Answer(line.says) ELSE Failure(line.says)
  <2>1. line.of = c
    BY <1>1, <1>4, <1>9, <1>13 DEF IdsOf
  <2>2. text \in Texts
    BY DEF Texts, Line
  <2>3. GiveText(Head(queue), line.of, text) /\ line.of \in {Head(queue), "loop"}
    BY <1>0, <1>1, <1>13, <2>1
  <2> HIDE DEF text
  <2>4. LoopTyped' /\ AnswersAreMatched' /\ HistoryStands' /\ pc' = "work"
    <3>1. called' \subseteq Call /\ UNCHANGED <<turn, outcome, history, catVars>>
      BY <1>0 DEF LoopTyped, catVars
    <3> QED
      BY <1>0, <1>1, <2>2, <2>3, <3>1, GivenKept
  <2>5. \A i \in 1..Len(pipe'[s]) : pipe'[s][i].id # seq'[s] /\ pipe'[s][i].id <= seq'[s]
    BY <1>0, <1>4, <1>7, <1>9, <1>13 DEF OnceOf, IdsOf
  <2>6. s \notin dead => \A i \in 1..Len(asked[s]) : asked[s][i].id # seq[s]
    BY <1>4, <1>9, <1>13 DEF OnceOf
  <2>7. IdsOf(s)'
    <3>1. ASSUME NEW i \in 1..Len(asked'[s])
          PROVE  (/\ asked[s][i].id <= seq[s]
                  /\ ToolOf[asked[s][i].call] \in DOMAIN owner /\ ServerOf(asked[s][i].call) = s
                  /\ s \notin dead /\ asked[s][i].id = seq[s] => Waits(s) /\ asked[s][i].call = Head(queue))'
      BY <1>0, <1>9, <2>6 DEF IdsOf, ServerOf
    <3>2. ASSUME NEW i \in 1..Len(pipe'[s])
          PROVE  (/\ pipe[s][i].id <= seq[s]
                  /\ pipe[s][i].id = seq[s] => Waits(s) /\ pipe[s][i].of = Head(queue))'
      BY <2>5
    <3>3. seq'[s] >= 3
      BY <1>0, <1>9 DEF IdsOf
    <3> QED
      BY <3>1, <3>2, <3>3 DEF IdsOf
  <2>8. OnceOf(s)'
    BY <1>0, <1>9, <2>5 DEF OnceOf
  <2>9. IdsStand'
    BY <1>11, <2>4, <2>7, <2>8 DEF IdsStand
  <2> QED
    BY <1>8, <2>4, <2>9 DEF AgentInv
<1> QED
  BY <1>12, <1>13

\* While a server acts the loop stands still.
LEMMA LoopRests ==
    ASSUME AgentInv,
           UNCHANGED <<pc, turn, outcome, history, queue, results, called, shown, offer, owner>>
    PROVE  /\ LoopTyped' /\ AnswersAreMatched' /\ HistoryStands'
           /\ \A t \in Server : Waits(t)' = Waits(t)
           /\ pc' = "wait" => queue' # <<>> /\ IsTool(Head(queue))'
<1>1. LoopTyped' /\ AnswersAreMatched' /\ HistoryStands'
  BY DEF AgentInv, LoopTyped, AnswersAreMatched, HistoryStands, WindowHolds
<1>2. \A t \in Server : Waits(t)' = Waits(t)
  BY DEF Waits, ServerOf
<1>3. pc' = "wait" => queue' # <<>> /\ IsTool(Head(queue))'
  BY DEF AgentInv, IdsStand, IsTool
<1> QED
  BY <1>1, <1>2, <1>3

\* A server puts a line into its pipe: the answer to its oldest request, or one of its own.
LEMMA LineKept ==
    ASSUME AgentInv, NEW s \in Server, s \notin dead, NEW line \in Line,
           pipe' = [pipe EXCEPT ![s] = Append(pipe[s], line)], lines' \in 0..MaxLines,
           \/ /\ asked[s] # <<>> /\ asked' = [asked EXCEPT ![s] = Tail(asked[s])]
              /\ line.id = Head(asked[s]).id /\ line.of = Head(asked[s]).call
           \/ UNCHANGED asked /\ line.id <= seq[s] /\ line.id # seq[s],
           UNCHANGED <<pc, turn, outcome, history, queue, results, called, shown, seq, dead, offer, owner>>
    PROVE  AgentInv'
<1>1. /\ LoopTyped' /\ AnswersAreMatched' /\ HistoryStands'
      /\ \A t \in Server : Waits(t)' = Waits(t)
      /\ pc' = "wait" => queue' # <<>> /\ IsTool(Head(queue))'
  BY LoopRests
<1>2. ServersTyped /\ IdsOf(s) /\ OnceOf(s) /\ \A t \in Server : IdsOf(t) /\ OnceOf(t)
  BY DEF AgentInv, IdsStand
<1>3. pipe[s] \in Seq(Line) /\ asked[s] \in Seq([id : Nat, call : Call])
  BY <1>2 DEF ServersTyped
<1>4. /\ Append(pipe[s], line) \in Seq(Line) /\ Len(pipe[s]) \in Nat
      /\ \A i \in 1..Len(pipe[s]) : Append(pipe[s], line)[i] = pipe[s][i]
      /\ Append(pipe[s], line)[Len(pipe[s]) + 1] = line
      /\ \A i \in 1..Len(Append(pipe[s], line)) : i \in 1..Len(pipe[s]) \/ i = Len(pipe[s]) + 1
  BY <1>3, SeqAppend
<1>5. /\ pipe' \in [Server -> Seq(Line)] /\ pipe'[s] = Append(pipe[s], line)
      /\ \A t \in Server \ {s} : pipe'[t] = pipe[t]
  BY <1>2, <1>4 DEF ServersTyped
<1>6. \A i \in 1..Len(pipe'[s]) :
         \/ i \in 1..Len(pipe[s]) /\ pipe'[s][i] = pipe[s][i]
         \/ i = Len(pipe[s]) + 1 /\ pipe'[s][i] = line
  BY <1>4, <1>5
<1>7. ASSUME NEW t \in Server, t # s, asked'[t] = asked[t] PROVE IdsOf(t)' /\ OnceOf(t)'
  <2>1. Waits(t) => Waits(t)' /\ Head(queue)' = Head(queue)
    BY <1>1
  <2> QED
    BY <1>2, <1>5, <1>7, <2>1, OtherStands
<1>8. CASE /\ asked[s] # <<>> /\ asked' = [asked EXCEPT ![s] = Tail(asked[s])]
           /\ line.id = Head(asked[s]).id /\ line.of = Head(asked[s]).call
  <2>1. /\ Head(asked[s]) = asked[s][1] /\ Tail(asked[s]) \in Seq([id : Nat, call : Call])
        /\ Len(asked[s]) \in Nat /\ 1 \in 1..Len(asked[s])
        /\ \A i \in 1..Len(Tail(asked[s])) :
              Tail(asked[s])[i] = asked[s][i + 1] /\ i + 1 \in 2..Len(asked[s])
    BY <1>3, <1>8, SeqTail
  <2>2. /\ asked' \in [Server -> Seq([id : Nat, call : Call])] /\ asked'[s] = Tail(asked[s])
        /\ \A t \in Server \ {s} : asked'[t] = asked[t]
    BY <1>2, <1>8, <2>1 DEF ServersTyped
  <2>3. \A i \in 1..Len(asked'[s]) : /\ asked'[s][i] = asked[s][i + 1]
                                     /\ i + 1 \in 1..Len(asked[s]) /\ i + 1 # 1 /\ i \in Nat
    BY <2>1, <2>2
  <2>4. /\ line.id <= seq[s] /\ line.id = asked[s][1].id
        /\ line.id = seq[s] => Waits(s) /\ line.of = Head(queue)
    BY <1>2, <1>8, <2>1 DEF IdsOf
  <2>5. IdsOf(s)'
    <3>1. ASSUME NEW i \in 1..Len(asked'[s])
          PROVE  (/\ asked[s][i].id <= seq[s]
                  /\ ToolOf[asked[s][i].call] \in DOMAIN owner /\ ServerOf(asked[s][i].call) = s
                  /\ s \notin dead /\ asked[s][i].id = seq[s] => Waits(s) /\ asked[s][i].call = Head(queue))'
      <4>1. /\ asked[s][i + 1].id <= seq[s]
            /\ ToolOf[asked[s][i + 1].call] \in DOMAIN owner /\ owner[ToolOf[asked[s][i + 1].call]] = s
            /\ asked[s][i + 1].id = seq[s] => Waits(s) /\ asked[s][i + 1].call = Head(queue)
        BY <1>2, <2>3 DEF IdsOf, ServerOf
      <4>2. asked'[s][i] = asked[s][i + 1]
        BY <2>3
      <4> QED
        BY <1>1, <4>1, <4>2 DEF ServerOf
    <3>2. ASSUME NEW i \in 1..Len(pipe'[s])
          PROVE  (/\ pipe[s][i].id <= seq[s]
                  /\ pipe[s][i].id = seq[s] => Waits(s) /\ pipe[s][i].of = Head(queue))'
      BY <1>1, <1>2, <1>6, <2>4 DEF IdsOf
    <3>3. seq'[s] >= 3
      BY <1>2 DEF IdsOf
    <3> QED
      BY <3>1, <3>2, <3>3 DEF IdsOf
  <2>6. OnceOf(s)'
    <3>1. ASSUME NEW i \in 1..Len(asked'[s]), NEW j \in 1..Len(asked'[s]),
                 asked'[s][i].id = seq'[s], asked'[s][j].id = seq'[s]
          PROVE  i = j
      <4>1. /\ asked[s][i + 1].id = seq[s] /\ asked[s][j + 1].id = seq[s]
            /\ i + 1 \in 1..Len(asked[s]) /\ j + 1 \in 1..Len(asked[s]) /\ i \in Nat /\ j \in Nat
        BY <2>3, <3>1
      <4>2. i + 1 = j + 1
        BY <1>2, <4>1 DEF OnceOf
      <4> QED
        BY <4>1, <4>2
    <3>2. \A j \in 1..Len(pipe[s]) : ~ (line.id = seq[s] /\ pipe[s][j].id = seq[s])
      BY <1>2, <2>1, <2>4 DEF OnceOf
    <3>3. \A i, j \in 1..Len(pipe'[s]) : pipe'[s][i].id = seq'[s] /\ pipe'[s][j].id = seq'[s] => i = j
      BY <1>2, <1>6, <3>2 DEF OnceOf
    <3>4. ASSUME NEW i \in 1..Len(asked'[s]), NEW j \in 1..Len(pipe'[s]),
                 asked'[s][i].id = seq'[s], pipe'[s][j].id = seq'[s]
          PROVE  FALSE
      <4>1. asked[s][i + 1].id = seq[s] /\ i + 1 \in 1..Len(asked[s]) /\ i + 1 # 1
        BY <2>3, <3>4
      <4>2. CASE pipe'[s][j] = line
        <5>1. \A k \in 1..Len(asked[s]) : asked[s][k].id = seq[s] /\ asked[s][1].id = seq[s] => k = 1
          BY <1>2, <2>1 DEF OnceOf
        <5>2. asked[s][1].id = seq[s]
          BY <1>2, <2>4, <3>4, <4>2
        <5> QED
          BY <4>1, <5>1, <5>2
      <4>3. CASE j \in 1..Len(pipe[s]) /\ pipe'[s][j] = pipe[s][j]
        <5>1. \A k \in 1..Len(asked[s]) : ~ (asked[s][k].id = seq[s] /\ pipe[s][j].id = seq[s])
          BY <1>2, <4>3 DEF OnceOf
        <5>2. seq'[s] = seq[s]
          BY <1>2
        <5> QED
          BY <3>4, <4>1, <4>3, <5>1, <5>2
      <4> QED
        BY <1>6, <4>2, <4>3
    <3> QED
      BY <3>1, <3>3, <3>4 DEF OnceOf
  <2>7. ServersTyped'
    BY <1>2, <1>5, <2>2 DEF ServersTyped
  <2>8. IdsStand'
    BY <1>1, <1>7, <2>2, <2>5, <2>6 DEF IdsStand
  <2> QED
    BY <1>1, <2>7, <2>8 DEF AgentInv
<1>9. CASE UNCHANGED asked /\ line.id <= seq[s] /\ line.id # seq[s]
  <2>1. IdsOf(s)'
    <3>1. ASSUME NEW i \in 1..Len(asked'[s])
          PROVE  (/\ asked[s][i].id <= seq[s]
                  /\ ToolOf[asked[s][i].call] \in DOMAIN owner /\ ServerOf(asked[s][i].call) = s
                  /\ s \notin dead /\ asked[s][i].id = seq[s] => Waits(s) /\ asked[s][i].call = Head(queue))'
      BY <1>1, <1>2, <1>9 DEF IdsOf, ServerOf
    <3>2. ASSUME NEW i \in 1..Len(pipe'[s])
          PROVE  (/\ pipe[s][i].id <= seq[s]
                  /\ pipe[s][i].id = seq[s] => Waits(s) /\ pipe[s][i].of = Head(queue))'
      BY <1>1, <1>2, <1>6, <1>9 DEF IdsOf
    <3>3. seq'[s] >= 3
      BY <1>2 DEF IdsOf
    <3> QED
      BY <3>1, <3>2, <3>3 DEF IdsOf
  <2>2. OnceOf(s)'
    BY <1>2, <1>6, <1>9 DEF OnceOf
  <2>3. ServersTyped'
    BY <1>2, <1>5, <1>9 DEF ServersTyped
  <2>4. IdsStand'
    BY <1>1, <1>7, <1>9, <2>1, <2>2 DEF IdsStand
  <2> QED
    BY <1>1, <2>3, <2>4 DEF AgentInv
<1> QED
  BY <1>8, <1>9

\* A server more may be dead.
LEMMA DeadKept ==
    ASSUME AgentInv, dead \subseteq dead', dead' \subseteq Server,
           UNCHANGED <<pc, turn, outcome, history, queue, results, called, shown, offer, owner>>,
           UNCHANGED <<seq, asked, pipe, lines>>
    PROVE  AgentInv'
<1>1. /\ LoopTyped' /\ AnswersAreMatched' /\ HistoryStands'
      /\ \A t \in Server : Waits(t)' = Waits(t)
      /\ pc' = "wait" => queue' # <<>> /\ IsTool(Head(queue))'
  BY LoopRests
<1>2. ASSUME NEW t \in Server PROVE IdsOf(t)' /\ OnceOf(t)'
  <2>1. IdsOf(t) /\ OnceOf(t) /\ ServersTyped
    BY DEF AgentInv, IdsStand
  <2>2. Waits(t) => Waits(t)' /\ Head(queue)' = Head(queue)
    BY <1>1
  <2> QED
    BY <2>1, <2>2, OtherStands
<1>3. ServersTyped'
  BY DEF AgentInv, ServersTyped
<1>4. IdsStand'
  BY <1>1, <1>2 DEF IdsStand
<1> QED
  BY <1>1, <1>3, <1>4 DEF AgentInv

\* What servers do.
LEMMA ServerKept ==
    ASSUME AgentInv, ServerStep, UNCHANGED catVars
    PROVE  AgentInv'
<1>1. PICK s \in Server : Respond(s) \/ SpeakUp(s) \/ Die(s)
  BY DEF ServerStep
<1>2. UNCHANGED <<offer, owner>>
  BY DEF catVars
<1>3. ServersTyped
  BY DEF AgentInv
<1>4. MaxLines \in Nat
  BY AgentAssumption
<1>5. CASE Respond(s)
  <2>1. PICK ok \in BOOLEAN, a \in Answers :
           pipe' = [pipe EXCEPT ![s] = Append(@, [id |-> Head(asked[s]).id, of |-> Head(asked[s]).call,
                                                  ok |-> ok, says |-> a])]
    BY <1>5 DEF Respond
  <2> DEFINE line == [id |-> Head(asked[s]).id, of |-> Head(asked[s]).call, ok |-> ok, says |-> a]
  <2>2. s \notin dead /\ asked[s] # <<>> /\ asked[s] \in Seq([id : Nat, call : Call])
    BY <1>3, <1>5 DEF Respond, ServersTyped
  <2>3. Head(asked[s]) \in [id : Nat, call : Call]
    BY <2>2, SeqTail
  <2>4. line \in Line /\ line.id = Head(asked[s]).id /\ line.of = Head(asked[s]).call
    BY <2>3 DEF Line
  <2> HIDE DEF line
  <2>5. /\ pipe' = [pipe EXCEPT ![s] = Append(pipe[s], line)]
        /\ asked' = [asked EXCEPT ![s] = Tail(asked[s])] /\ lines' \in 0..MaxLines
        /\ UNCHANGED <<pc, turn, outcome, history, queue, results, called, shown, seq, dead, offer, owner>>
    BY <1>2, <1>3, <1>5, <2>1 DEF Respond, ServersTyped, line
  <2> QED
    BY <2>2, <2>4, <2>5, LineKept
<1>6. CASE SpeakUp(s)
  <2>1. PICK id \in {0} \cup 3..seq[s] - 1, a \in Answers :
           pipe' = [pipe EXCEPT ![s] = Append(@, [id |-> id, of |-> "nobody", ok |-> TRUE, says |-> a])]
    BY <1>6 DEF SpeakUp
  <2> DEFINE line == [id |-> id, of |-> "nobody", ok |-> TRUE, says |-> a]
  <2>2. seq[s] \in Nat /\ seq[s] >= 3
    BY <1>3 DEF ServersTyped, AgentInv, IdsStand, IdsOf
  <2>3. id \in Nat /\ id <= seq[s] /\ id # seq[s]
    BY <2>1, <2>2
  <2>4. line \in Line /\ line.id <= seq[s] /\ line.id # seq[s]
    BY <2>3 DEF Line
  <2> HIDE DEF line
  <2>5. lines' \in 0..MaxLines
    BY <1>3, <1>4, <1>6 DEF SpeakUp, ServersTyped
  <2>6. /\ pipe' = [pipe EXCEPT ![s] = Append(pipe[s], line)] /\ UNCHANGED asked /\ s \notin dead
        /\ UNCHANGED <<pc, turn, outcome, history, queue, results, called, shown, seq, dead, offer, owner>>
    BY <1>2, <1>6, <2>1 DEF SpeakUp, line
  <2> QED
    BY <2>4, <2>5, <2>6, LineKept
<1>7. CASE Die(s)
  <2>1. /\ UNCHANGED <<pc, turn, outcome, history, queue, results, called, shown, seq, asked, pipe, lines>>
        /\ dead \subseteq dead' /\ dead' \subseteq Server
    BY <1>3, <1>7 DEF Die, ServersTyped
  <2> QED
    BY <1>2, <2>1, DeadKept
<1> QED
  BY <1>1, <1>5, <1>6, <1>7

\* A run starts with its goal, and clients that wait for nothing.
LEMMA InitStands ==
    Init => AgentInv
<1> SUFFICES ASSUME Init PROVE AgentInv
  OBVIOUS
<1>1. {HeadWeight, MaxTurns, Budget, MinShare} \subseteq Nat \ {0} /\ MaxLines \in Nat
  BY AgentAssumption
<1> DEFINE head == [is |-> "head", tokens |-> HeadWeight]
<1>2. head \in PieceSet /\ head.is = "head"
  BY <1>1 DEF PieceSet, Piece
<1>3. history = <<head>> /\ pc = "fold" /\ turn = 1 /\ results = <<>>
  BY DEF Init
<1> HIDE DEF head
<1>4. history \in Seq(PieceSet) /\ Len(history) = 1 /\ history[1] = head
  BY <1>2, <1>3
<1>5. LoopTyped
  <2>1. 1 \in 1..MaxTurns + 1 /\ 1 <= MaxTurns
    BY <1>1
  <2>2. \A T : <<>> \in Seq(T)
    OBVIOUS
  <2>3. /\ offer \in Offers /\ owner = Owner(AllTools(offer.catalogue)) /\ outcome = ""
        /\ queue = <<>> /\ called = {} /\ shown = {}
    BY DEF Init
  <2> QED
    BY <1>3, <1>4, <2>1, <2>2, <2>3 DEF LoopTyped
<1>10. /\ seq = [s \in Server |-> 3] /\ asked = [s \in Server |-> <<>>] /\ pipe = [s \in Server |-> <<>>]
       /\ lines = 0 /\ dead = {}
  BY DEF Init
<1>6. ServersTyped
  BY <1>1, <1>10 DEF ServersTyped
<1>7. IdsStand
  <2>1. ASSUME NEW s \in Server PROVE IdsOf(s) /\ OnceOf(s)
    <3>1. seq[s] = 3 /\ asked[s] = <<>> /\ pipe[s] = <<>>
      BY <1>10
    <3>2. Len(asked[s]) = 0 /\ Len(pipe[s]) = 0
      BY <3>1
    <3> QED
      BY <3>1, <3>2 DEF IdsOf, OnceOf
  <2> QED
    BY <1>3, <2>1 DEF IdsStand
<1>8. AnswersAreMatched
  BY <1>3 DEF AnswersAreMatched
<1>9. HistoryStands
  <2>1. head.is # "notice"
    BY <1>2
  <2> QED
    BY <1>2, <1>3, <1>4, <2>1 DEF HistoryStands, WindowHolds
<1> QED
  BY <1>5, <1>6, <1>7, <1>8, <1>9 DEF AgentInv

\* Every step keeps the invariant, and one that writes a request writes a new call.
LEMMA StepKept ==
    AgentInv /\ [Next]_vars =>
        /\ AgentInv'
        /\ \A s \in Server : seq'[s] # seq[s] => Head(queue) \notin called /\ Head(queue) \in called'
<1> SUFFICES ASSUME AgentInv, [Next]_vars
             PROVE  /\ AgentInv'
                    /\ \A s \in Server : seq'[s] # seq[s] => Head(queue) \notin called /\ Head(queue) \in called'
  OBVIOUS
<1>1. CASE Fold /\ UNCHANGED catVars
  BY <1>1, FoldKept DEF Fold, clientVars
<1>2. CASE (EndRun \/ CallTools) /\ UNCHANGED catVars
  BY <1>2, AskKept DEF EndRun, CallTools, clientVars
<1>3. CASE (Repeated \/ DispatchHere) /\ UNCHANGED catVars
  BY <1>3, HereKept DEF Repeated, DispatchHere, clientVars
<1>4. CASE Request /\ UNCHANGED catVars
  BY <1>4, RequestKept
<1>5. CASE Receive /\ UNCHANGED catVars
  BY <1>5, ReceiveKept DEF Receive
<1>6. CASE CutOff /\ UNCHANGED catVars
  BY <1>6, CutOffKept DEF CutOff, clientVars
<1>7. CASE EndTurn /\ UNCHANGED catVars
  BY <1>7, EndTurnKept DEF EndTurn, clientVars
<1>8. CASE ServerStep /\ UNCHANGED catVars
  <2>1. seq' = seq
    BY <1>8 DEF ServerStep, Respond, SpeakUp, Die
  <2> QED
    BY <1>8, <2>1, ServerKept
<1>9. CASE UNCHANGED vars
  <2>1. UNCHANGED <<pc, turn, outcome, history, queue, results, called, shown, offer, owner,
                    seq, asked, pipe, lines, dead>>
    BY <1>9 DEF vars, clientVars, catVars
  <2>2. dead' \subseteq Server
    BY <2>1 DEF AgentInv, ServersTyped
  <2> QED
    BY <2>1, <2>2, DeadKept
<1> QED
  BY <1>1, <1>2, <1>3, <1>4, <1>5, <1>6, <1>7, <1>8, <1>9 DEF Next, LoopStep

\* The invariant of a run and its servers (loop.go, client.go).
THEOREM AgentInvHolds == Spec => []AgentInv
<1>1. AgentInv /\ [Next]_vars => AgentInv'
  BY StepKept
<1> QED
  BY InitStands, <1>1, PTL DEF Spec

-----------------------------------------------------------------------------
(* What the loop waits for comes.                                          *)

\* The server the loop waits for is dead, or has not answered, or its answer is in the pipe.
Met(s) ==
    \/ s \in dead
    \/ \E i \in 1..Len(asked[s]) : asked[s][i].id = seq[s]
    \/ \E i \in 1..Len(pipe[s]) : pipe[s][i].id = seq[s]

MetInv == pc = "wait" => Met(ServerOf(Head(queue)))

LEMMA MetIsToCome ==
    ASSUME AgentInv
    PROVE  MetInv <=> AnswerIsToCome
<1> SUFFICES ASSUME pc = "wait", NEW s \in Server, s = ServerOf(Head(queue))
             PROVE  Met(s) <=> \/ s \in dead
                               \/ \E i \in DOMAIN asked[s] : asked[s][i].id = seq[s]
                               \/ \E i \in DOMAIN pipe[s] : pipe[s][i].id = seq[s]
  <2>1. ASSUME pc = "wait" PROVE ServerOf(Head(queue)) \in Server
    <3>1. Head(queue) \in Call /\ IsTool(Head(queue))
      BY <2>1, SeqTail DEF AgentInv, LoopTyped, IdsStand
    <3> QED
      BY <3>1, ServerTyped DEF AgentInv
  <2> QED
    BY <2>1 DEF MetInv, AnswerIsToCome
<1>1. asked[s] \in Seq([id : Nat, call : Call]) /\ pipe[s] \in Seq(Line)
  BY DEF AgentInv, ServersTyped
<1>2. DOMAIN asked[s] = 1..Len(asked[s]) /\ DOMAIN pipe[s] = 1..Len(pipe[s])
  BY <1>1
<1> QED
  BY <1>2 DEF Met

\* A server that gives, adds or dies leaves what is to come.
LEMMA ServersMeet ==
    ASSUME AgentInv, MetInv, ServerStep, UNCHANGED catVars
    PROVE  MetInv'
<1>0. UNCHANGED <<pc, queue, seq, owner>> /\ dead \subseteq dead'
  BY DEF ServerStep, Respond, SpeakUp, Die, catVars
<1> SUFFICES ASSUME pc = "wait", NEW s, s = ServerOf(Head(queue)), Met(s)
             PROVE  Met(s)'
  <2>1. ServerOf(Head(queue))' = ServerOf(Head(queue))
    BY <1>0 DEF ServerOf
  <2> QED
    BY <1>0, <2>1 DEF MetInv
<1>1. s \in Server
  <2>1. Head(queue) \in Call /\ IsTool(Head(queue))
    BY SeqTail DEF AgentInv, LoopTyped, IdsStand
  <2> QED
    BY <2>1, ServerTyped DEF AgentInv
<1>2. asked \in [Server -> Seq([id : Nat, call : Call])] /\ pipe \in [Server -> Seq(Line)]
  BY DEF AgentInv, ServersTyped
<1>3. PICK r \in Server : Respond(r) \/ SpeakUp(r) \/ Die(r)
  BY DEF ServerStep
<1>4. CASE Die(r)
  <2>1. UNCHANGED <<asked, pipe>>
    BY <1>4 DEF Die
  <2> QED
    BY <1>0, <2>1 DEF Met
<1>5. CASE r # s /\ (Respond(r) \/ SpeakUp(r))
  <2>1. asked'[s] = asked[s] /\ pipe'[s] = pipe[s] /\ dead' = dead
    BY <1>1, <1>2, <1>5 DEF Respond, SpeakUp
  <2> QED
    BY <1>0, <2>1 DEF Met
<1>6. CASE r = s /\ Respond(s)
  <2>1. PICK ok \in BOOLEAN, a \in Answers :
           pipe' = [pipe EXCEPT ![s] = Append(@, [id |-> Head(asked[s]).id, of |-> Head(asked[s]).call,
                                                  ok |-> ok, says |-> a])]
    BY <1>6 DEF Respond
  <2> DEFINE line == [id |-> Head(asked[s]).id, of |-> Head(asked[s]).call, ok |-> ok, says |-> a]
  <2>2. s \notin dead /\ asked[s] # <<>> /\ asked[s] \in Seq([id : Nat, call : Call]) /\ pipe[s] \in Seq(Line)
    BY <1>1, <1>2, <1>6 DEF Respond
  <2>3. Head(asked[s]) \in [id : Nat, call : Call] /\ Head(asked[s]) = asked[s][1]
    BY <2>2, SeqTail
  <2>4. line \in Line /\ line.id = asked[s][1].id
    BY <2>3 DEF Line
  <2>5. pipe'[s] = Append(pipe[s], line) /\ asked'[s] = Tail(asked[s])
    BY <1>1, <1>2, <1>6, <2>1 DEF Respond
  <2> HIDE DEF line
  <2>6. /\ Len(pipe'[s]) = Len(pipe[s]) + 1 /\ Len(pipe[s]) \in Nat
        /\ pipe'[s][Len(pipe[s]) + 1] = line
        /\ \A i \in 1..Len(pipe[s]) : pipe'[s][i] = pipe[s][i]
    BY <2>2, <2>4, <2>5, SeqAppend
  <2>7. /\ Len(asked[s]) \in Nat /\ Len(asked'[s]) = Len(asked[s]) - 1
        /\ \A i \in 1..Len(asked'[s]) : asked'[s][i] = asked[s][i + 1]
    BY <2>2, <2>5, SeqTail
  <2>8. CASE \E i \in 1..Len(pipe[s]) : pipe[s][i].id = seq[s]
    BY <1>0, <2>6, <2>8 DEF Met
  <2>9. CASE \E i \in 1..Len(asked[s]) : asked[s][i].id = seq[s]
    <3>1. PICK i \in 1..Len(asked[s]) : asked[s][i].id = seq[s]
      BY <2>9
    <3>2. CASE i = 1
      BY <1>0, <2>4, <2>6, <3>1, <3>2 DEF Met
    <3>3. CASE i # 1
      <4>1. i - 1 \in 1..Len(asked'[s]) /\ (i - 1) + 1 = i
        BY <2>7, <3>1, <3>3
      <4>2. asked'[s][i - 1].id = seq'[s]
        BY <1>0, <2>7, <3>1, <4>1
      <4> QED
        BY <4>1, <4>2 DEF Met
    <3> QED
      BY <3>2, <3>3
  <2> QED
    BY <2>2, <2>8, <2>9 DEF Met
<1>7. CASE r = s /\ SpeakUp(s)
  <2>1. PICK id \in {0} \cup 3..seq[s] - 1, a \in Answers :
           pipe' = [pipe EXCEPT ![s] = Append(@, [id |-> id, of |-> "nobody", ok |-> TRUE, says |-> a])]
    BY <1>7 DEF SpeakUp
  <2> DEFINE line == [id |-> id, of |-> "nobody", ok |-> TRUE, says |-> a]
  <2>2. line \in Line
    BY <1>1, <2>1 DEF Line, AgentInv, ServersTyped
  <2>3. pipe'[s] = Append(pipe[s], line) /\ asked' = asked /\ pipe[s] \in Seq(Line)
    BY <1>1, <1>2, <1>7, <2>1 DEF SpeakUp
  <2> HIDE DEF line
  <2>4. /\ Len(pipe'[s]) = Len(pipe[s]) + 1 /\ Len(pipe[s]) \in Nat
        /\ \A i \in 1..Len(pipe[s]) : pipe'[s][i] = pipe[s][i]
    BY <2>2, <2>3, SeqAppend
  <2> QED
    BY <1>0, <2>3, <2>4 DEF Met
<1> QED
  BY <1>3, <1>4, <1>5, <1>6, <1>7

\* Only a request that goes out begins to wait, and only a line with another id is skipped.
LEMMA LoopMeets ==
    ASSUME AgentInv, MetInv, LoopStep, UNCHANGED catVars
    PROVE  MetInv'
<1> SUFFICES ASSUME pc' = "wait" PROVE Met(ServerOf(Head(queue)))'
  BY DEF MetInv
<1>1. Request \/ Receive
  <2>1. \A c, from, kind, n : Give(c, from, kind, n) => pc' = "work"
    BY DEF Give
  <2>2. \A c, from, text : GiveText(c, from, text) => pc' = "work"
    BY <2>1 DEF GiveText
  <2>3. ~ (Fold \/ EndRun \/ CallTools \/ EndTurn)
    <3>1. EndTurn => pc' \in {"fold", "over"}
      BY Zenon DEF EndTurn, Over
    <3> QED
      BY <3>1 DEF Fold, EndRun, CallTools, Over
  <2>4. ~ (Repeated \/ DispatchHere \/ CutOff)
    BY <2>1, <2>2 DEF Repeated, DispatchHere, CutOff
  <2> QED
    BY <2>3, <2>4 DEF LoopStep
<1>2. PICK s \in Server : s = ServerOf(Head(queue))
  <2>1. Head(queue) \in Call /\ IsTool(Head(queue))
    BY <1>1, SeqTail DEF AgentInv, LoopTyped, IdsStand, Request, Receive
  <2> QED
    BY <2>1, ServerTyped DEF AgentInv
<1>3. seq \in [Server -> Nat] /\ asked \in [Server -> Seq([id : Nat, call : Call])] /\ pipe \in [Server -> Seq(Line)]
  BY DEF AgentInv, ServersTyped
<1>4. CASE Request
  <2>1. s \notin dead
    BY <1>2, <1>4 DEF Request, GiveText, Give
  <2> DEFINE x == [id |-> seq[s] + 1, call |-> Head(queue)]
  <2>2. /\ seq' = [seq EXCEPT ![s] = seq[s] + 1] /\ asked' = [asked EXCEPT ![s] = Append(asked[s], x)]
        /\ queue' = queue /\ owner' = owner
    BY <1>2, <1>3, <1>4, <2>1 DEF Request, NextId, catVars
  <2>3. x \in [id : Nat, call : Call] /\ x.id = seq[s] + 1
    <3>1. Head(queue) \in Call
      BY <1>4, SeqTail DEF AgentInv, LoopTyped, Request
    <3>2. seq[s] + 1 \in Nat
      BY <1>3
    <3> QED
      BY <3>1, <3>2
  <2> HIDE DEF x
  <2>4. asked'[s] = Append(asked[s], x) /\ seq'[s] = x.id /\ asked[s] \in Seq([id : Nat, call : Call])
    BY <1>3, <2>2, <2>3
  <2>5. /\ Len(asked'[s]) = Len(asked[s]) + 1 /\ Len(asked[s]) \in Nat
        /\ asked'[s][Len(asked[s]) + 1] = x
    BY <2>3, <2>4, SeqAppend
  <2>6. ServerOf(Head(queue))' = s
    BY <1>2, <2>2 DEF ServerOf
  <2>7. Met(s)'
    BY <2>4, <2>5 DEF Met
  <2> QED
    BY <2>6, <2>7
<1>5. CASE Receive
  <2>1. pipe[s] # <<>> /\ pipe[s] \in Seq(Line) /\ pc = "wait" /\ owner' = owner
    BY <1>2, <1>3, <1>5 DEF Receive, catVars
  <2>2. ~ IsMine(Head(pipe[s]), s) /\ queue' = queue
    BY <1>2, <1>5 DEF Receive, GiveText, Give
  <2>3. UNCHANGED <<seq, asked, dead>> /\ pipe'[s] = Tail(pipe[s])
    BY <1>2, <1>3, <1>5 DEF Receive
  <2>4. /\ Head(pipe[s]) = pipe[s][1] /\ Len(pipe[s]) \in Nat /\ Len(pipe'[s]) = Len(pipe[s]) - 1
        /\ \A i \in 1..Len(pipe'[s]) : pipe'[s][i] = pipe[s][i + 1]
    BY <2>1, <2>3, SeqTail
  <2>5. ServerOf(Head(queue))' = s
    BY <1>2, <2>1, <2>2 DEF ServerOf
  <2>6. CASE \E i \in 1..Len(pipe[s]) : pipe[s][i].id = seq[s]
    <3>1. PICK i \in 1..Len(pipe[s]) : pipe[s][i].id = seq[s]
      BY <2>6
    <3>2. i # 1
      BY <2>2, <2>4, <3>1 DEF IsMine
    <3>3. i - 1 \in 1..Len(pipe'[s]) /\ (i - 1) + 1 = i
      BY <2>4, <3>1, <3>2
    <3>4. pipe'[s][i - 1].id = seq'[s]
      BY <2>3, <2>4, <3>1, <3>3
    <3> QED
      BY <2>5, <3>3, <3>4 DEF Met
  <2>7. CASE s \in dead \/ \E i \in 1..Len(asked[s]) : asked[s][i].id = seq[s]
    BY <2>3, <2>5, <2>7 DEF Met
  <2> QED
    BY <1>2, <2>1, <2>6, <2>7 DEF MetInv, Met
<1> QED
  BY <1>1, <1>4, <1>5

\* The answer the loop waits for was not skipped and is not lost: it is still to be read
\* or to be given, unless the server died, whose pipe breaks (client.go: readResponse).
THEOREM WaitsForSomething == Spec => []AnswerIsToCome
<1>1. Init => MetInv
  BY DEF Init, MetInv
<1>2. ASSUME AgentInv, MetInv, [Next]_vars PROVE MetInv'
  <2>1. CASE Next
    BY <1>2, <2>1, LoopMeets, ServersMeet DEF Next
  <2>2. CASE UNCHANGED vars
    <3>1. UNCHANGED <<pc, queue, owner, seq, asked, pipe, dead>>
      BY <2>2 DEF vars, clientVars, catVars
    <3>2. ServerOf(Head(queue))' = ServerOf(Head(queue))
      BY <3>1 DEF ServerOf
    <3> QED
      BY <1>2, <3>1, <3>2 DEF MetInv, Met
  <2> QED
    BY <1>2, <2>1, <2>2
<1>3. AgentInv /\ MetInv => AnswerIsToCome
  BY MetIsToCome
<1> QED
  BY <1>1, <1>2, <1>3, AgentInvHolds, PTL DEF Spec

-----------------------------------------------------------------------------
(* Theorems.                                                               *)

\* A call arrives at the server that has its tool, its answer is on its way while the loop
\* waits, and what is shown as its result answers it, whatever lines come late, twice or
\* unasked and whatever servers die
\* (Loop.dispatch, mcpclient.Client.call and readResponse, Registry.ToolOwner).
THEOREM Arrives == Spec => []CallsArrive
<1>1. ASSUME AgentInv PROVE AnswersAreMatched /\ NamesFindTheirServer
  <2> DEFINE cat == offer.catalogue
  <2>1. cat \in Catalogue /\ owner = Owner(AllTools(cat)) /\ ServersTyped /\ AnswersAreMatched
    BY <1>1, AgentAssumption DEF AgentInv, LoopTyped
  <2> HIDE DEF cat
  <2>2. \A i \in DOMAIN Flat(cat) : owner[AllTools(cat)[i].name] = Flat(cat)[i].server
    BY <2>1, OwnerFinds
  <2>3. ASSUME NEW s \in Server, NEW i \in DOMAIN asked[s]
        PROVE  \E x \in ToSet(Flat(cat)) : x.server = s /\ x.tool.base = ToolOf[asked[s][i].call][2]
    <3>1. i \in 1..Len(asked[s])
      BY <2>1 DEF ServersTyped
    <3>2. ToolOf[asked[s][i].call] \in DOMAIN owner /\ owner[ToolOf[asked[s][i].call]] = s
      BY <1>1, <3>1 DEF AgentInv, IdsStand, IdsOf, ServerOf
    <3> QED
      BY <2>1, <3>2, OwnerFinds
  <2> QED
    BY <2>1, <2>2, <2>3 DEF NamesFindTheirServer, cat
<1>2. AnswersAreMatched /\ NamesFindTheirServer /\ AnswerIsToCome => CallsArrive
  BY DEF CallsArrive
<1> QED
  BY <1>1, <1>2, AgentInvHolds, WaitsForSomething, PTL

\* No call of a run goes out a second time (loop.go: isRepeat, called).
THEOREM OutOnce == Spec => CalledOnce
<1>1. AgentInv /\ [Next]_vars =>
         [\A s \in Server : seq'[s] # seq[s] => Head(queue) \notin called /\ Head(queue) \in called']_vars
  BY StepKept
<1> QED
  BY <1>1, AgentInvHolds, PTL DEF Spec, CalledOnce

\* Every state is well typed, whatever is sent fits the window of the model, and the
\* tools it is told of fill the room they have and no more: for every catalogue and
\* every score, every window, every number of turns and every weight of an answer
\* (compact.go: fitHistory, clipToBudget; pick.go: Pick).
THEOREM SentFits == Spec => []WindowIsUsed
<1>1. ASSUME AgentInv PROVE WindowIsUsed
  <2>1. /\ offer.catalogue \in Catalogue /\ offer.deferAll \in BOOLEAN
        /\ LoopTyped /\ ServersTyped /\ WindowHolds
    BY <1>1, AgentAssumption DEF AgentInv, LoopTyped, HistoryStands
  <2>2. DOMAIN owner \subseteq Name /\ \A n \in DOMAIN owner : owner[n] \in Server
    BY <2>1, OwnerFinds DEF LoopTyped
  <2>3. PickIsFull
    BY <2>1, AdvertisedFills DEF PickIsFull
  <2>4. TypeOK
    BY <2>1, <2>2 DEF TypeOK, LoopTyped, ServersTyped, PieceSet
  <2> QED
    BY <2>1, <2>3, <2>4 DEF WindowIsUsed
<1> QED
  BY <1>1, AgentInvHolds, PTL

-----------------------------------------------------------------------------
(* How long a run lasts.                                                   *)

\* What leaves the loop where it is leaves its steps.
LEMMA RestLeaves ==
    ASSUME UNCHANGED <<pc, turn, queue>>
    PROVE  StepsLeft' = StepsLeft
<1>1. ToGo' = ToGo
  BY DEF ToGo
<1> QED
  BY <1>1 DEF StepsLeft

\* One server has given one thing of what it owes.
LEMMA GivenIsOwed ==
    ASSUME ServersTyped, NEW s \in Server,
           NEW q \in Seq([id : Nat, call : Call]), NEW p \in Seq(Line),
           asked' = [asked EXCEPT ![s] = q], pipe' = [pipe EXCEPT ![s] = p],
           \/ Len(q) = Len(asked[s]) - 1 /\ Len(p) = Len(pipe[s]) + 1
           \/ Len(q) = Len(asked[s]) /\ Len(p) = Len(pipe[s]) - 1
    PROVE  Elsewhere
<1>1. /\ asked'[s] = q /\ pipe'[s] = p
      /\ \A r \in Server \ {s} : asked'[r] = asked[r] /\ pipe'[r] = pipe[r]
  BY DEF ServersTyped
<1>2. Owed(s)' = 2 * Len(q) + Len(p) /\ Owed(s) = 2 * Len(asked[s]) + Len(pipe[s])
  BY <1>1 DEF Owed
<1>3. \A r \in Server \ {s} : Owed(r)' = Owed(r)
  BY <1>1 DEF Owed
<1>4. PICK m \in Nat, n \in Nat, k \in Nat, l \in Nat :
         m = Len(asked[s]) /\ n = Len(pipe[s]) /\ k = Len(q) /\ l = Len(p)
  <2>1. asked[s] \in Seq([id : Nat, call : Call]) /\ pipe[s] \in Seq(Line)
    BY DEF ServersTyped
  <2>2. Len(asked[s]) \in Nat /\ Len(pipe[s]) \in Nat /\ Len(q) \in Nat /\ Len(p) \in Nat
    BY <2>1
  <2> QED
    BY <2>2
<1>5. (k = m - 1 /\ l = n + 1) \/ (k = m /\ l = n - 1)
  BY <1>4
<1>6. Owed(s)' = 2 * k + l /\ Owed(s) = 2 * m + n
  BY <1>2, <1>4
<1>7. Owed(s)' \in 0..Owed(s) - 1
  BY <1>5, <1>6
<1> QED
  BY <1>3, <1>7 DEF Elsewhere

\* What servers do.
LEMMA ServersCount ==
    ASSUME ServersTyped, ServerStep
    PROVE  StepsLeft' = StepsLeft /\ Elsewhere
<1>1. PICK s \in Server : Respond(s) \/ SpeakUp(s) \/ Die(s)
  BY DEF ServerStep
<1>2. StepsLeft' = StepsLeft
  BY <1>1, RestLeaves DEF Respond, SpeakUp, Die
<1>3. CASE SpeakUp(s)
  <2>1. lines' = lines + 1 /\ lines \in Nat
    BY <1>3, AgentAssumption DEF SpeakUp, ServersTyped
  <2> QED
    BY <1>2, <2>1 DEF Elsewhere
<1>4. CASE Die(s)
  <2>1. dead \subseteq dead' /\ dead' # dead
    BY <1>4 DEF Die
  <2> QED
    BY <1>2, <2>1 DEF Elsewhere
<1>5. CASE Respond(s)
  <2>1. PICK ok \in BOOLEAN, a \in Answers :
           pipe' = [pipe EXCEPT ![s] = Append(@, [id |-> Head(asked[s]).id, of |-> Head(asked[s]).call,
                                                  ok |-> ok, says |-> a])]
    BY <1>5 DEF Respond
  <2> DEFINE line == [id |-> Head(asked[s]).id, of |-> Head(asked[s]).call, ok |-> ok, says |-> a]
  <2>2. asked[s] # <<>> /\ asked[s] \in Seq([id : Nat, call : Call]) /\ pipe[s] \in Seq(Line)
    BY <1>5 DEF Respond, ServersTyped
  <2>3. Head(asked[s]) \in [id : Nat, call : Call]
    BY <2>2, SeqTail
  <2>4. line \in Line
    BY <2>3 DEF Line
  <2>5. /\ asked' = [asked EXCEPT ![s] = Tail(asked[s])]
        /\ pipe' = [pipe EXCEPT ![s] = Append(pipe[s], line)]
    BY <1>5, <2>1 DEF Respond, ServersTyped
  <2> HIDE DEF line
  <2>6. /\ Append(pipe[s], line) \in Seq(Line)
        /\ Len(Append(pipe[s], line)) = Len(pipe[s]) + 1 /\ Len(pipe[s]) \in Nat
    BY <2>2, <2>4, SeqAppend
  <2>7. /\ Tail(asked[s]) \in Seq([id : Nat, call : Call])
        /\ Len(Tail(asked[s])) = Len(asked[s]) - 1 /\ Len(asked[s]) \in Nat
    BY <2>2, SeqTail
  <2> QED
    BY <1>2, <2>5, <2>6, <2>7, GivenIsOwed
<1> QED
  BY <1>1, <1>3, <1>4, <1>5

\* The turns that are left.
LEMMA TurnsTyped ==
    ASSUME AgentInv
    PROVE  turn \in Nat /\ MaxTurns \in Nat /\ (pc # "over" => turn <= MaxTurns)
<1>1. MaxTurns \in Nat
  BY AgentAssumption
<1>2. turn \in 1..MaxTurns + 1 /\ (pc # "over" => turn <= MaxTurns)
  BY DEF AgentInv, LoopTyped
<1> QED
  BY <1>1, <1>2

\* The answer to a call, or what stands for it, takes the call from the queue.
LEMMA GivenCounts ==
    ASSUME AgentInv, pc \in {"work", "wait"}, queue # <<>>, turn' = turn,
           \/ \E c, from, kind, n : Give(c, from, kind, n)
           \/ \E c, from, text : GiveText(c, from, text)
    PROVE  GetsOn
<1>1. queue' = Tail(queue) /\ pc' = "work"
  <2>1. \A c, from, kind, n : Give(c, from, kind, n) => queue' = Tail(queue) /\ pc' = "work"
    BY DEF Give
  <2> QED
    BY <2>1 DEF GiveText
<1>2. Len(queue) \in Nat /\ Len(queue) >= 1 /\ Len(queue') = Len(queue) - 1
  BY <1>1, SeqTail DEF AgentInv, LoopTyped
<1>3. MaxTurns - turn \in Nat
  <2>1. MaxTurns \in Nat /\ turn \in Nat /\ turn <= MaxTurns
    BY TurnsTyped
  <2> QED
    BY <2>1
<1>4. StepsLeft' = 7 * (MaxTurns - turn) + 2 * (Len(queue) - 1) + 1
  BY <1>1, <1>2, <1>3 DEF StepsLeft, ToGo
<1>5. StepsLeft \in {7 * (MaxTurns - turn) + 2 * Len(queue) + 1, 7 * (MaxTurns - turn) + 2 * Len(queue)}
  BY <1>2, <1>3 DEF StepsLeft, ToGo
<1> QED
  BY <1>2, <1>3, <1>4, <1>5 DEF GetsOn

\* What the loop does.
LEMMA LoopCounts ==
    ASSUME AgentInv, LoopStep
    PROVE  GetsOn \/ (StepsLeft' = StepsLeft /\ Elsewhere)
<1>2. turn \in Nat /\ MaxTurns \in Nat /\ (pc # "over" => turn <= MaxTurns)
  BY TurnsTyped
<1>1. MaxTurns - turn \in Nat \/ pc = "over"
  BY <1>2
<1>3. Len(queue) \in Nat
  <2>1. queue \in Seq(Call)
    BY DEF AgentInv, LoopTyped
  <2> QED
    BY <2>1
<1>4. CASE Fold
  <2>1. pc = "fold" /\ pc' = "ask" /\ turn' = turn
    BY <1>4 DEF Fold
  <2> QED
    BY <1>1, <2>1 DEF StepsLeft, ToGo, GetsOn
<1>5. CASE EndRun
  <2>1. pc = "ask" /\ pc' = "over"
    BY <1>5 DEF EndRun, Over
  <2> QED
    BY <1>1, <2>1 DEF StepsLeft, ToGo, GetsOn
<1>6. CASE CallTools
  <2>1. pc = "ask" /\ pc' = "work" /\ turn' = turn /\ Len(queue') \in 1..2
    <3>1. \A c, d : Len(<<c>>) = 1 /\ Len(<<c, d>>) = 2
      OBVIOUS
    <3>2. queue' \in {<<c>> : c \in Call} \cup {<<c, d>> : c, d \in Call}
      BY <1>6 DEF CallTools
    <3>3. Len(queue') \in 1..2
      BY <3>1, <3>2
    <3> QED
      BY <1>6, <3>3 DEF CallTools
  <2>2. PICK k \in Nat : k = MaxTurns - turn
    BY <1>1, <2>1
  <2>3. PICK n \in 1..2 : n = Len(queue')
    BY <2>1
  <2>4. StepsLeft = 7 * k + 6
    BY <2>1, <2>2 DEF StepsLeft, ToGo
  <2>5. StepsLeft' = 7 * k + 2 * n + 1
    BY <2>1, <2>2, <2>3 DEF StepsLeft, ToGo
  <2> QED
    BY <2>4, <2>5 DEF GetsOn
<1>7. CASE Repeated \/ DispatchHere
  <2>1. pc = "work" /\ queue # <<>> /\ turn' = turn
    BY <1>7 DEF Repeated, DispatchHere
  <2>2. \/ \E c, from, kind, n : Give(c, from, kind, n)
        \/ \E c, from, text : GiveText(c, from, text)
    BY <1>7 DEF Repeated, DispatchHere
  <2> QED
    BY <2>1, <2>2, GivenCounts
<1>8. CASE CutOff
  <2>1. pc = "wait" /\ queue # <<>> /\ turn' = turn
    BY <1>8 DEF CutOff, AgentInv, IdsStand
  <2>2. \E c, from, text : GiveText(c, from, text)
    BY <1>8 DEF CutOff
  <2> QED
    BY <2>1, <2>2, GivenCounts
<1>9. CASE Request
  <2>1. pc = "work" /\ queue # <<>> /\ turn' = turn
    BY <1>9 DEF Request
  <2>2. CASE \E c, from, text : GiveText(c, from, text)
    BY <2>1, <2>2, GivenCounts
  <2>3. CASE pc' = "wait" /\ queue' = queue
    BY <1>1, <1>3, <2>1, <2>3 DEF StepsLeft, ToGo, GetsOn
  <2> QED
    BY <1>9, <2>2, <2>3 DEF Request
<1>10. CASE Receive
  <2>1. pc = "wait" /\ queue # <<>> /\ turn' = turn
    BY <1>10 DEF Receive, AgentInv, IdsStand
  <2>2. CASE \E c, from, text : GiveText(c, from, text)
    BY <2>1, <2>2, GivenCounts
  <2>3. CASE UNCHANGED <<pc, queue>>
    <3>1. PICK s \in Server : s = ServerOf(Head(queue))
      <4>1. Head(queue) \in Call /\ IsTool(Head(queue))
        BY <2>1, SeqTail DEF AgentInv, LoopTyped, IdsStand
      <4> QED
        BY <4>1, ServerTyped DEF AgentInv
    <3>2. /\ ServersTyped /\ pipe[s] # <<>> /\ pipe[s] \in Seq(Line)
          /\ asked[s] \in Seq([id : Nat, call : Call])
      BY <1>10, <3>1 DEF Receive, AgentInv, ServersTyped
    <3>3. pipe' = [pipe EXCEPT ![s] = Tail(pipe[s])] /\ asked' = [asked EXCEPT ![s] = asked[s]]
      BY <1>10, <3>1, <3>2 DEF Receive, ServersTyped
    <3>4. Tail(pipe[s]) \in Seq(Line) /\ Len(Tail(pipe[s])) = Len(pipe[s]) - 1 /\ Len(pipe[s]) \in Nat
      BY <3>2, SeqTail
    <3>5. Elsewhere
      BY <3>2, <3>3, <3>4, GivenIsOwed
    <3> QED
      BY <2>1, <2>3, <3>5, RestLeaves
  <2> QED
    BY <1>10, <2>2, <2>3 DEF Receive
<1>11. CASE EndTurn
  <2>1. /\ pc = "work" /\ queue = <<>> /\ turn' = turn + 1
        /\ \/ turn < MaxTurns /\ pc' = "fold"
           \/ pc' = "over"
    BY <1>11, Zenon DEF EndTurn, Over
  <2>2. StepsLeft = 7 * (MaxTurns - turn) + 1
    BY <2>1 DEF StepsLeft, ToGo
  <2>3. CASE turn < MaxTurns /\ pc' = "fold"
    <3>1. StepsLeft' = 7 * (MaxTurns - (turn + 1)) + 7
      BY <2>1, <2>3 DEF StepsLeft, ToGo
    <3> QED
      BY <1>2, <2>2, <2>3, <3>1 DEF GetsOn
  <2>4. CASE pc' = "over"
    <3>1. StepsLeft' = 0
      BY <2>4 DEF StepsLeft
    <3> QED
      BY <1>1, <2>1, <2>2, <3>1 DEF GetsOn
  <2> QED
    BY <2>1, <2>3, <2>4
<1> QED
  BY <1>4, <1>5, <1>6, <1>7, <1>8, <1>9, <1>10, <1>11 DEF LoopStep

\* A run takes finitely many steps, however many calls the model makes in its turns,
\* whatever servers answer, repeat and skip, and whenever they die (Loop.Run, readResponse).
THEOREM RunIsSpent == Spec => EveryStepCounts
<1>1. AgentInv /\ [Next]_vars => [GetsOn \/ (StepsLeft' = StepsLeft /\ Elsewhere)]_vars
  BY LoopCounts, ServersCount DEF Next, AgentInv
<1> QED
  BY <1>1, AgentInvHolds, PTL DEF Spec, EveryStepCounts
=============================================================================
