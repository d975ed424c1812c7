---------------------------- MODULE Recursion_proofs ---------------------------
(***************************************************************************)
(* What the other proofs share.                                            *)
(*                                                                         *)
(* Functions that are defined recursively over a finite tree.  Such a      *)
(* definition is a CHOOSE of a function that satisfies the defining        *)
(* equation; that there is one follows from RecursionSolved, in which the  *)
(* right hand side of the equation is a function F from candidates to      *)
(* candidates and D[x] is what the value at x depends on.  What holds of   *)
(* its values follows by InductionAlong.  Least numbers, and sequences     *)
(* that are put together.                                                  *)
(***************************************************************************)
EXTENDS Integers, FiniteSets, SequencesExt, FiniteSetTheorems, WellFoundedInduction, TLAPS

-----------------------------------------------------------------------------
(* Recursive definitions.                                                  *)

\* No subset of S is without an element that depends on none of the subset.
WellFounded(S, D) ==
    \A T \in SUBSET S : T # {} => \E x \in T : D[x] \cap T = {}

\* F makes the value at x of the values at what x depends on.
Local(S, D, V, F) ==
    \A f, g \in [S -> V], x \in S : (\A y \in D[x] : f[y] = g[y]) => F[f][x] = F[g][x]

\* f = F[f] is a recursive definition of a function from S to V.
Recursion(S, D, V, F) ==
    /\ D \in [S -> SUBSET S] /\ WellFounded(S, D)
    /\ V # {} /\ F \in [[S -> V] -> [S -> V]] /\ Local(S, D, V, F)

\* Two functions that satisfy a recursive definition on a set that is closed
\* under dependence agree on it.
LEMMA RecursionUnique ==
    ASSUME NEW S, NEW D, NEW V, NEW F, Recursion(S, D, V, F),
           NEW U \in SUBSET S, \A x \in U : D[x] \subseteq U,
           NEW f \in [S -> V], NEW g \in [S -> V],
           \A x \in U : f[x] = F[f][x], \A x \in U : g[x] = F[g][x]
    PROVE  \A x \in U : f[x] = g[x]
<1> DEFINE T == {x \in U : f[x] # g[x]}
<1> SUFFICES ASSUME T # {} PROVE FALSE
  OBVIOUS
<1>1. PICK x \in T : D[x] \cap T = {}
  BY T \in SUBSET S DEF Recursion, WellFounded
<1>2. \A y \in D[x] : f[y] = g[y]
  BY <1>1
<1>3. F[f][x] = F[g][x]
  BY <1>1, <1>2 DEF Recursion, Local
<1> QED
  BY <1>1, <1>3

\* A recursive definition is satisfied by a function.
LEMMA RecursionSolved ==
    ASSUME NEW S, NEW D, NEW V, NEW F, Recursion(S, D, V, F)
    PROVE  \E f \in [S -> V] : f = F[f]
<1> DEFINE Closed(U) == U \in SUBSET S /\ \A x \in U : D[x] \subseteq U
           Solves(f, U) == f \in [S -> V] /\ \A x \in U : f[x] = F[f][x]
           Solvable == {x \in S : \E U, f : x \in U /\ Closed(U) /\ Solves(f, U)}
           Value(x) == CHOOSE v \in V : \E U, f : x \in U /\ Closed(U) /\ Solves(f, U) /\ v = f[x]
           h == [x \in S |-> IF x \in Solvable THEN Value(x) ELSE CHOOSE v \in V : TRUE]
<1>1. h \in [S -> V]
  <2>1. \A x \in Solvable : Value(x) \in V
    <3> SUFFICES ASSUME NEW x \in Solvable PROVE Value(x) \in V
      OBVIOUS
    <3>1. PICK U, f : x \in U /\ Closed(U) /\ Solves(f, U)
      OBVIOUS
    <3>2. f[x] \in V
      BY <3>1
    <3> HIDE DEF Closed, Solves, Solvable
    <3> QED
      BY <3>1, <3>2
  <2>2. (CHOOSE v \in V : TRUE) \in V
    BY DEF Recursion
  <2> HIDE DEF Solvable, Value
  <2> QED
    BY <2>1, <2>2
<1>2. ASSUME NEW U, NEW f, Closed(U), Solves(f, U), NEW x \in U
      PROVE  x \in Solvable /\ h[x] = f[x]
  <2>1. x \in Solvable /\ x \in S /\ f[x] \in V
    BY <1>2
  <2>2. ASSUME NEW U2, NEW f2, x \in U2, Closed(U2), Solves(f2, U2)
        PROVE  f2[x] = f[x]
    <3>1. Closed(U \cap U2)
      BY <1>2, <2>2
    <3>2. \A y \in U \cap U2 : f2[y] = f[y]
      <4> HIDE DEF Solvable, h
      <4> DEFINE I == U \cap U2
      <4>1. I \in SUBSET S /\ \A y \in I : D[y] \subseteq I
        BY <3>1
      <4>2. /\ f \in [S -> V] /\ f2 \in [S -> V]
            /\ \A y \in I : f2[y] = F[f2][y]
            /\ \A y \in I : f[y] = F[f][y]
        BY <1>2, <2>2
      <4> HIDE DEF I
      <4>3. \A y \in I : f2[y] = f[y]
        BY <4>1, <4>2, RecursionUnique
      <4> QED BY <4>3 DEF I
    <3> QED
      BY <2>2, <3>2
  <2>3. Value(x) = f[x]
    <3> HIDE DEF Closed, Solves, Solvable, h
    <3>1. \E v \in V : \E U3, f3 : x \in U3 /\ Closed(U3) /\ Solves(f3, U3) /\ v = f3[x]
      BY <1>2, <2>1
    <3> QED
      BY <2>2, <3>1
  <2> HIDE DEF Closed, Solves, Value, Solvable
  <2> QED
    BY <2>1, <2>3
<1>3. Closed(Solvable)
  <2> HIDE DEF Solves, h
  <2>1. \A x \in Solvable : D[x] \subseteq Solvable
    <3> SUFFICES ASSUME NEW x \in Solvable, NEW y \in D[x] PROVE y \in Solvable
      OBVIOUS
    <3>1. PICK U, f : x \in U /\ Closed(U) /\ Solves(f, U)
      OBVIOUS
    <3>2. y \in U /\ y \in S
      BY <3>1
    <3> QED
      BY <3>1, <3>2
  <2> QED
    BY <2>1
<1>4. Solves(h, Solvable)
  <2> SUFFICES ASSUME NEW x \in Solvable PROVE h[x] = F[h][x]
    BY <1>1
  <2>1. PICK U, f : x \in U /\ Closed(U) /\ Solves(f, U)
    OBVIOUS
  <2>2. \A y \in D[x] : f[y] = h[y]
    <3> HIDE DEF Solves, h, Solvable
    <3> QED BY <1>2, <2>1
  <2>3. h[x] = f[x]
    <3> HIDE DEF Solves, h, Solvable, Closed
    <3> QED BY <1>2, <2>1
  <2>4. x \in S /\ f \in [S -> V] /\ f[x] = F[f][x]
    BY <2>1
  <2> HIDE DEF h, Solvable
  <2>5. F[f][x] = F[h][x]
    BY <2>2, <2>4, <1>1 DEF Recursion, Local
  <2> QED
    BY <2>3, <2>4, <2>5
<1>5. Solvable = S
  <2> SUFFICES ASSUME S \ Solvable # {} PROVE FALSE
    OBVIOUS
  <2>1. PICK x \in S \ Solvable : D[x] \cap (S \ Solvable) = {}
    BY (S \ Solvable) \in SUBSET S DEF Recursion, WellFounded
  <2>2. D[x] \subseteq Solvable
    BY <2>1 DEF Recursion
  <2> DEFINE k == [h EXCEPT ![x] = F[h][x]]
  <2> HIDE DEF h, Solvable
  <2>3. k \in [S -> V] /\ k[x] = F[h][x] /\ \A y \in Solvable : k[y] = h[y]
    BY <1>1, <1>3, <2>1 DEF Recursion
  <2> HIDE DEF k
  <2>4. \A y \in Solvable : F[k][y] = F[h][y]
    <3> SUFFICES ASSUME NEW y \in Solvable PROVE F[k][y] = F[h][y]
      OBVIOUS
    <3>1. y \in S /\ \A z \in D[y] : k[z] = h[z]
      BY <1>3, <2>3
    <3> QED
      BY <1>1, <2>3, <3>1 DEF Recursion, Local
  <2>5. F[k][x] = F[h][x]
    BY <1>1, <2>1, <2>2, <2>3 DEF Recursion, Local
  <2>6. Solves(k, Solvable \cup {x})
    BY <1>4, <2>3, <2>4, <2>5
  <2>7. Closed(Solvable \cup {x})
    BY <1>3, <2>1, <2>2
  <2>8. x \in Solvable
    <3> HIDE DEF Closed, Solves
    <3> QED BY <1>2, <2>6, <2>7
  <2> QED
    BY <2>1, <2>8
<1> HIDE DEF h, Solvable
<1>6. F[h] \in [S -> V]
  BY <1>1 DEF Recursion
<1> QED
  BY <1>1, <1>4, <1>5, <1>6

\* Induction along the dependence, for a set in place of a predicate.
LEMMA InductionAlong ==
    ASSUME NEW S, NEW D, D \in [S -> SUBSET S], WellFounded(S, D), NEW Good \in SUBSET S,
           \A x \in S : D[x] \subseteq Good => x \in Good
    PROVE  Good = S
<1> DEFINE T == S \ Good
<1> SUFFICES ASSUME T # {} PROVE FALSE
  OBVIOUS
<1>1. PICK x \in T : D[x] \cap T = {}
  BY T \in SUBSET S DEF WellFounded
<1>2. D[x] \subseteq Good
  BY <1>1
<1> QED
  BY <1>1, <1>2

\* Of finite sets there is one that has no other below it.
LEMMA FiniteSubsetsMinimum ==
    ASSUME NEW T, T # {}, \A x \in T : IsFiniteSet(x)
    PROVE  \E x \in T : \A y \in T : y \subseteq x => y = x
<1> DEFINE S == UNION T
           R == StrictSubsetOrdering(S)
           W == FiniteSubsetsOf(S)
<1>1. IsWellFoundedOn(R, W)
  BY FS_StrictSubsetOrderingWellFounded
<1>2. T \subseteq W
  BY DEF FiniteSubsetsOf
<1>3. \A x, y \in T : y \subseteq x /\ y # x => <<y, x>> \in R
  BY DEF StrictSubsetOrdering
<1> HIDE DEF R, W
<1>4. \E x \in T : \A y \in T : ~ (<<y, x>> \in R)
  BY <1>1, <1>2, WFMin
<1> QED
  BY <1>3, <1>4

\* In a finite set in which every way up ends, every way down does: of the
\* sets in which every element has one below it none is smallest, because a
\* topmost element can be left out.
LEMMA WayDownWellFounded ==
    ASSUME NEW S, IsFiniteSet(S), NEW parent, NEW Down, Down \in [S -> SUBSET S],
           \A x \in S : \A y \in Down[x] : parent[y] = x,
           \A T \in SUBSET S : T # {} => \E x \in T : parent[x] \notin T
    PROVE  WellFounded(S, Down)
<1> SUFFICES ASSUME NEW T \in SUBSET S, T # {}, \A x \in T : Down[x] \cap T # {}
             PROVE  FALSE
  BY DEF WellFounded
<1> DEFINE Endless == { U \in SUBSET S : U # {} /\ \A x \in U : Down[x] \cap U # {} }
<1>1. PICK U \in Endless : \A W \in Endless : W \subseteq U => W = U
  <2>1. Endless # {}
    BY T \in Endless
  <2>2. \A W \in Endless : IsFiniteSet(W)
    BY FS_Subset
  <2> HIDE DEF Endless
  <2> QED
    BY <2>1, <2>2, FiniteSubsetsMinimum
<1>2. U \in SUBSET S /\ U # {} /\ \A x \in U : Down[x] \cap U # {}
  BY <1>1
<1>3. PICK a \in U : parent[a] \notin U
  BY <1>2
<1>4. ASSUME NEW x \in U \ {a} PROVE Down[x] \cap (U \ {a}) # {}
  <2>1. PICK y \in Down[x] : y \in U
    BY <1>2
  <2>2. parent[y] = x
    BY <1>2, <2>1
  <2> QED
    BY <1>3, <2>1, <2>2
<1>5. PICK s \in Down[a] : s \in U
  BY <1>2, <1>3
<1>6. s # a
  BY <1>2, <1>3, <1>5
<1>7. U \ {a} \in Endless
  <2> HIDE DEF Endless
  <2>1. U \ {a} # {} /\ U \ {a} \in SUBSET S
    BY <1>2, <1>5, <1>6
  <2> QED
    BY <1>4, <2>1 DEF Endless
<1> HIDE DEF Endless
<1>8. U \ {a} = U
  BY <1>1, <1>7
<1> QED
  BY <1>3, <1>8

-----------------------------------------------------------------------------
(* Numbers.                                                                *)

\* A set of natural numbers has a least element.
LEMMA NatMinimum ==
    ASSUME NEW T \in SUBSET Nat, T # {}
    PROVE  \E m \in T : \A n \in T : m <= n
<1> DEFINE B == {x \in SUBSET Nat : \E n \in T : x = 0..n}
<1>1. B \in SUBSET SUBSET Nat /\ \A n \in T : 0..n \in B
  OBVIOUS
<1>2. \A x \in B : IsFiniteSet(x)
  BY FS_Interval
<1>3. \A x \in B : \E n \in T : x = 0..n
  OBVIOUS
<1> HIDE DEF B
<1>4. B # {}
  BY <1>1
<1>5. PICK x \in B : \A y \in B : y \subseteq x => y = x
  BY <1>2, <1>4, FiniteSubsetsMinimum
<1>6. PICK m \in T : x = 0..m
  BY <1>3
<1>7. SUFFICES ASSUME NEW n \in T, n < m PROVE FALSE
  OBVIOUS
<1>8. 0..n \subseteq 0..m /\ m \in 0..m /\ m \notin 0..n
  BY <1>7
<1> QED
  BY <1>1, <1>5, <1>6, <1>8

\* Induction on the natural numbers, for a set in place of a predicate.
LEMMA SetInduction ==
    ASSUME NEW P \in SUBSET Nat, 0 \in P, \A n \in P : n + 1 \in P
    PROVE  P = Nat
<1> SUFFICES ASSUME Nat \ P # {} PROVE FALSE
  OBVIOUS
<1>1. PICK m \in Nat \ P : \A n \in Nat \ P : m <= n
  BY NatMinimum
<1>2. m # 0 /\ m - 1 \in Nat /\ m - 1 \notin Nat \ P
  BY <1>1
<1> QED
  BY <1>1, <1>2

\* Min of FiniteSetsExt is the least element.
LEMMA MinOfNats ==
    ASSUME NEW T \in SUBSET Nat, T # {}
    PROVE  Min(T) \in T /\ \A n \in T : Min(T) <= n
  BY NatMinimum DEF Min

-----------------------------------------------------------------------------
(* Sequences.                                                              *)

LEMMA ToSetJoined ==
    ASSUME NEW S, NEW s \in Seq(S), NEW t \in Seq(S)
    PROVE  s \o t \in Seq(S) /\ ToSet(s \o t) = ToSet(s) \cup ToSet(t)
<1>1. /\ s \o t \in Seq(S) /\ Len(s \o t) = Len(s) + Len(t)
      /\ \A i \in 1..(Len(s) + Len(t)) : (s \o t)[i] = IF i <= Len(s) THEN s[i] ELSE t[i - Len(s)]
  OBVIOUS
<1>2. /\ DOMAIN s = 1..Len(s) /\ DOMAIN t = 1..Len(t) /\ DOMAIN (s \o t) = 1..(Len(s) + Len(t))
      /\ Len(s) \in Nat /\ Len(t) \in Nat
  BY <1>1
<1>3. ASSUME NEW i \in DOMAIN (s \o t) PROVE (s \o t)[i] \in ToSet(s) \cup ToSet(t)
  BY <1>1, <1>2 DEF ToSet
<1>4. ASSUME NEW i \in DOMAIN s PROVE s[i] \in ToSet(s \o t)
  <2>1. i \in DOMAIN (s \o t) /\ (s \o t)[i] = s[i]
    BY <1>1, <1>2
  <2> QED
    BY <2>1 DEF ToSet
<1>5. ASSUME NEW i \in DOMAIN t PROVE t[i] \in ToSet(s \o t)
  <2>1. Len(s) + i \in DOMAIN (s \o t) /\ (s \o t)[Len(s) + i] = t[i]
    BY <1>1, <1>2
  <2> QED
    BY <2>1 DEF ToSet
<1> QED
  BY <1>1, <1>3, <1>4, <1>5 DEF ToSet

\* Going down the places of a sequence ends.
LEMMA PlacesEnd ==
    ASSUME NEW n \in Nat
    PROVE  WellFounded(1..n, [i \in 1..n |-> IF i = 1 THEN {} ELSE {i - 1}])
<1> SUFFICES ASSUME NEW T \in SUBSET (1..n), T # {}
             PROVE  \E x \in T :
                        [i \in 1..n |-> IF i = 1 THEN {} ELSE {i - 1}][x] \cap T = {}
  BY DEF WellFounded
<1>1. PICK x \in T : \A y \in T : x <= y
  BY NatMinimum
<1> QED
  BY <1>1

\* FlattenSeq puts the sequences of a sequence one behind the other.
LEMMA FlattenSteps ==
    ASSUME NEW S, NEW q \in Seq(Seq(S)), Len(q) > 0
    PROVE  \E h : /\ FlattenSeq(q) = h[Len(q)]
                 /\ \A i \in 1..Len(q) : h[i] = IF i = 1 THEN q[i] ELSE h[i - 1] \o q[i]
<1>1. /\ Len(q) \in Nat /\ DOMAIN q = 1..Len(q)
      /\ \A i \in 1..Len(q) : q[i] \in Seq(S)
  OBVIOUS
<1> DEFINE I == 1..Len(q)
           D == [i \in I |-> IF i = 1 THEN {} ELSE {i - 1}]
           V == Seq(S)
           F == [f \in [I -> V] |-> [i \in I |-> IF i = 1 THEN q[i] ELSE f[i - 1] \o q[i]]]
<1>2. D \in [I -> SUBSET I]
  BY <1>1
<1>3. WellFounded(I, D)
  BY <1>1, PlacesEnd
<1>4. F \in [[I -> V] -> [I -> V]]
  <2> SUFFICES ASSUME NEW f \in [I -> V], NEW i \in I
               PROVE  (IF i = 1 THEN q[i] ELSE f[i - 1] \o q[i]) \in V
    OBVIOUS
  <2>1. i # 1 => i - 1 \in I
    BY <1>1
  <2>2. i # 1 => f[i - 1] \in Seq(S)
    BY <2>1
  <2>3. \A s, t \in Seq(S) : s \o t \in Seq(S)
    OBVIOUS
  <2> QED
    BY <1>1, <2>2, <2>3
<1>5. Local(I, D, V, F)
  <2> SUFFICES ASSUME NEW f \in [I -> V], NEW g \in [I -> V], NEW i \in I,
                      \A j \in D[i] : f[j] = g[j]
               PROVE  F[f][i] = F[g][i]
    BY DEF Local
  <2> QED
    BY <1>1
<1>6. V # {}
  BY <1>1
<1>7. PICK f \in [I -> V] : f = F[f]
  <2> HIDE DEF I, D, V, F
  <2>1. Recursion(I, D, V, F)
    BY <1>2, <1>3, <1>4, <1>5, <1>6 DEF Recursion
  <2> QED
    BY <2>1, RecursionSolved
<1> DEFINE h == CHOOSE h : h = [i \in I |-> IF i = 1 THEN q[i] ELSE h[i - 1] \o q[i]]
<1>8. h = [i \in I |-> IF i = 1 THEN q[i] ELSE h[i - 1] \o q[i]]
  <2>1. \E k : k = [i \in I |-> IF i = 1 THEN q[i] ELSE k[i - 1] \o q[i]]
    BY <1>7
  <2> QED
    BY ONLY <2>1
<1>9. FlattenSeq(q) = h[Len(q)]
  BY DEF FlattenSeq
<1> HIDE DEF h
<1>10. \A i \in I : h[i] = IF i = 1 THEN q[i] ELSE h[i - 1] \o q[i]
  BY ONLY <1>8
<1> QED
  BY <1>9, <1>10

\* The sequences of a sequence, one after the other.
LEMMA FlattenIs ==
    ASSUME NEW S, NEW q \in Seq(Seq(S))
    PROVE  /\ FlattenSeq(q) \in Seq(S)
           /\ ToSet(FlattenSeq(q)) = UNION { ToSet(q[i]) : i \in DOMAIN q }
<1>1. /\ Len(q) \in Nat /\ DOMAIN q = 1..Len(q)
      /\ \A i \in 1..Len(q) : q[i] \in Seq(S)
  OBVIOUS
<1>2. CASE Len(q) = 0
  <2>1. q = <<>> /\ DOMAIN q = {}
    BY <1>1, <1>2
  <2>2. FlattenSeq(q) = q
    BY <1>2 DEF FlattenSeq
  <2>3. q \in Seq(S) /\ ToSet(q) = {}
    BY <2>1 DEF ToSet
  <2> QED
    BY <2>1, <2>2, <2>3
<1>3. CASE Len(q) > 0
  <2> DEFINE I == 1..Len(q)
             D == [i \in I |-> IF i = 1 THEN {} ELSE {i - 1}]
             V == Seq(S)
  <2>1. D \in [I -> SUBSET I]
    BY <1>1
  <2>2. WellFounded(I, D)
    BY <1>1, PlacesEnd
  <2>3. PICK h : /\ FlattenSeq(q) = h[Len(q)]
                 /\ \A i \in I : h[i] = IF i = 1 THEN q[i] ELSE h[i - 1] \o q[i]
    BY <1>3, FlattenSteps
  <2>4. ASSUME NEW i \in I, \A j \in D[i] : h[j] \in V /\ ToSet(h[j]) = UNION { ToSet(q[k]) : k \in 1..j }
        PROVE  h[i] \in V /\ ToSet(h[i]) = UNION { ToSet(q[k]) : k \in 1..i }
    <3>1. CASE i = 1
      <4>1. h[i] = q[1]
        BY <2>3, <3>1
      <4>2. 1..i = {1}
        BY <3>1
      <4> QED
        BY <1>1, <3>1, <4>1, <4>2
    <3>2. CASE i # 1
      <4>1. h[i] = h[i - 1] \o q[i] /\ i - 1 \in I /\ i - 1 \in D[i] /\ q[i] \in V
        <5>1. h[i] = h[i - 1] \o q[i]
          BY <2>3, <3>2
        <5>2. i - 1 \in I /\ q[i] \in V /\ D[i] = {i - 1}
          BY <1>1, <3>2
        <5> QED
          BY <5>1, <5>2
      <4>2. h[i - 1] \in V /\ ToSet(h[i - 1]) = UNION { ToSet(q[k]) : k \in 1..(i - 1) }
        BY <2>4, <4>1
      <4>3. h[i] \in V /\ ToSet(h[i]) = ToSet(h[i - 1]) \cup ToSet(q[i])
        BY <4>1, <4>2, ToSetJoined
      <4>4. 1..i = 1..(i - 1) \cup {i}
        BY <1>1
      <4> QED
        BY <4>2, <4>3, <4>4
    <3> QED
      BY <3>1, <3>2
  <2> DEFINE Good == { i \in I : h[i] \in V /\ ToSet(h[i]) = UNION { ToSet(q[k]) : k \in 1..i } }
  <2>5. Good \in SUBSET I /\ \A i \in I : D[i] \subseteq Good => i \in Good
    BY <2>4
  <2> HIDE DEF Good, I, D, V
  <2>6. Good = I
    BY <2>1, <2>2, <2>5, InductionAlong
  <2> USE DEF Good, I, V
  <2>7. Len(q) \in I
    BY <1>1, <1>3
  <2>8. Len(q) \in Good
    BY ONLY <2>6, <2>7
  <2> QED
    BY <1>1, <2>3, <2>8
<1> QED
  BY <1>1, <1>2, <1>3

\* s holds c in one place.
HeldOnce(s, c) == \E i \in DOMAIN s : s[i] = c /\ \A j \in DOMAIN s : s[j] = c => j = i

LEMMA HeldOnceTaken ==
    ASSUME NEW S, NEW s \in Seq(S), s # <<>>, NEW c, HeldOnce(s, c)
    PROVE  IF Head(s) = c THEN c \notin ToSet(Tail(s)) ELSE HeldOnce(Tail(s), c)
<1>1. /\ DOMAIN s = 1..Len(s) /\ Len(s) \in Nat /\ Len(s) > 0 /\ Head(s) = s[1]
      /\ DOMAIN Tail(s) = 1..(Len(s) - 1)
      /\ \A i \in 1..(Len(s) - 1) : Tail(s)[i] = s[i + 1]
  OBVIOUS
<1>2. PICK i \in DOMAIN s : s[i] = c /\ \A j \in DOMAIN s : s[j] = c => j = i
  BY DEF HeldOnce
<1>3. CASE Head(s) = c
  <2>1. i = 1
    BY <1>1, <1>2, <1>3
  <2>2. \A j \in DOMAIN Tail(s) : Tail(s)[j] # c
    <3> SUFFICES ASSUME NEW j \in 1..(Len(s) - 1) PROVE Tail(s)[j] # c
      BY <1>1
    <3>1. j + 1 \in DOMAIN s /\ j + 1 # 1
      BY <1>1
    <3> QED
      BY <1>1, <1>2, <2>1, <3>1
  <2> QED
    BY <1>3, <2>2 DEF ToSet
<1>4. CASE Head(s) # c
  <2>1. i - 1 \in 1..(Len(s) - 1) /\ (i - 1) + 1 = i
    BY <1>1, <1>2, <1>4
  <2>2. i - 1 \in DOMAIN Tail(s) /\ Tail(s)[i - 1] = c
    BY <1>1, <1>2, <2>1
  <2>3. ASSUME NEW j \in DOMAIN Tail(s), Tail(s)[j] = c PROVE j = i - 1
    <3>1. j \in 1..(Len(s) - 1) /\ j + 1 \in DOMAIN s /\ s[j + 1] = c
      BY <1>1, <2>3
    <3>2. j + 1 = i
      BY <1>2, <3>1
    <3> QED
      BY <1>1, <3>1, <3>2
  <2> QED
    BY <1>4, <2>2, <2>3 DEF HeldOnce
<1> QED
  BY <1>3, <1>4

LEMMA HeldOnceJoined ==
    ASSUME NEW S, NEW s \in Seq(S), NEW t \in Seq(S), NEW c,
           \/ HeldOnce(s, c) /\ c \notin ToSet(t)
           \/ c \notin ToSet(s) /\ HeldOnce(t, c)
    PROVE  HeldOnce(s \o t, c)
<1> DEFINE u == s \o t
<1>1. /\ Len(s) \in Nat /\ Len(t) \in Nat
      /\ DOMAIN s = 1..Len(s) /\ DOMAIN t = 1..Len(t) /\ DOMAIN u = 1..(Len(s) + Len(t))
      /\ \A i \in 1..Len(s) : u[i] = s[i]
      /\ \A i \in 1..Len(t) : u[Len(s) + i] = t[i]
  OBVIOUS
<1> HIDE DEF u
<1>2. \A k \in DOMAIN u : k \notin DOMAIN s => k - Len(s) \in DOMAIN t /\ u[k] = t[k - Len(s)]
  <2> SUFFICES ASSUME NEW k \in DOMAIN u, k \notin DOMAIN s
               PROVE  k - Len(s) \in DOMAIN t /\ u[k] = t[k - Len(s)]
    OBVIOUS
  <2>1. k - Len(s) \in 1..Len(t) /\ Len(s) + (k - Len(s)) = k
    BY <1>1
  <2> QED
    BY <1>1, <2>1
<1>3. CASE HeldOnce(s, c) /\ c \notin ToSet(t)
  <2>1. PICK i \in DOMAIN s : s[i] = c /\ \A j \in DOMAIN s : s[j] = c => j = i
    BY <1>3 DEF HeldOnce
  <2>2. i \in DOMAIN u /\ u[i] = c
    BY <1>1, <2>1
  <2>3. \A j \in DOMAIN u : u[j] = c => j = i
    BY <1>1, <1>2, <1>3, <2>1 DEF ToSet
  <2> QED
    BY <2>2, <2>3 DEF HeldOnce, u
<1>4. CASE c \notin ToSet(s) /\ HeldOnce(t, c)
  <2>1. PICK i \in DOMAIN t : t[i] = c /\ \A j \in DOMAIN t : t[j] = c => j = i
    BY <1>4 DEF HeldOnce
  <2>2. Len(s) + i \in DOMAIN u /\ u[Len(s) + i] = c
    BY <1>1, <2>1
  <2>3. ASSUME NEW j \in DOMAIN u, u[j] = c PROVE j = Len(s) + i
    <3>1. j \notin DOMAIN s
      BY <1>1, <1>4, <2>3 DEF ToSet
    <3>2. j - Len(s) = i
      BY <1>2, <2>1, <2>3, <3>1
    <3> QED
      BY <1>1, <3>2
  <2> QED
    BY <2>2, <2>3 DEF HeldOnce, u
<1> QED
  BY <1>3, <1>4

\* What one of the sequences holds once, and no other does.
LEMMA FlattenHeldOnce ==
    ASSUME NEW S, NEW q \in Seq(Seq(S)), NEW c, NEW k \in DOMAIN q, HeldOnce(q[k], c),
           \A j \in DOMAIN q : j # k => c \notin ToSet(q[j])
    PROVE  HeldOnce(FlattenSeq(q), c)
<1>1. /\ Len(q) \in Nat /\ DOMAIN q = 1..Len(q) /\ Len(q) > 0
      /\ \A i \in 1..Len(q) : q[i] \in Seq(S)
  OBVIOUS
<1> DEFINE I == 1..Len(q)
           D == [i \in I |-> IF i = 1 THEN {} ELSE {i - 1}]
           V == Seq(S)
<1>2. D \in [I -> SUBSET I] /\ WellFounded(I, D)
  <2>1. D \in [I -> SUBSET I]
    BY <1>1
  <2>2. WellFounded(I, D)
    BY <1>1, PlacesEnd
  <2> QED
    BY <2>1, <2>2
<1>3. PICK h : /\ FlattenSeq(q) = h[Len(q)]
               /\ \A i \in I : h[i] = IF i = 1 THEN q[i] ELSE h[i - 1] \o q[i]
  BY <1>1, FlattenSteps
<1> DEFINE Good == { i \in I : h[i] \in V /\ IF i < k THEN c \notin ToSet(h[i]) ELSE HeldOnce(h[i], c) }
<1>4. ASSUME NEW i \in I, D[i] \subseteq Good PROVE i \in Good
  <2>1. CASE i = 1
    <3>1. h[i] = q[i] /\ ~(i < k) => k = i
      BY <1>1, <1>3, <2>1
    <3>2. h[i] = q[i] /\ q[i] \in V
      BY <1>1, <1>3, <2>1
    <3>3. i < k => c \notin ToSet(q[i])
      BY <1>1
    <3> QED
      BY <3>1, <3>2, <3>3
  <2>2. CASE i # 1
    <3>1. h[i] = h[i - 1] \o q[i]
      BY <1>3, <2>2
    <3>2. i - 1 \in Good /\ q[i] \in V /\ h[i - 1] \in V
      BY <1>1, <1>4, <2>2
    <3>3. h[i] \in V /\ ToSet(h[i]) = ToSet(h[i - 1]) \cup ToSet(q[i])
      BY <3>1, <3>2, ToSetJoined
    <3>4. CASE i < k
      <4>1. i - 1 < k /\ i # k
        BY <1>1, <3>4
      <4>2. c \notin ToSet(h[i - 1]) /\ c \notin ToSet(q[i])
        BY <1>1, <3>2, <4>1
      <4> QED
        BY <3>3, <3>4, <4>2
    <3>5. CASE i = k
      <4>1. i - 1 < k
        BY <1>1, <3>5
      <4>2. c \notin ToSet(h[i - 1]) /\ HeldOnce(q[i], c)
        BY <3>2, <3>5, <4>1
      <4>3. HeldOnce(h[i], c)
        BY <3>1, <3>2, <4>2, HeldOnceJoined
      <4> QED
        BY <1>1, <3>3, <3>5, <4>3
    <3>6. CASE i > k
      <4>1. ~(i - 1 < k) /\ i # k
        BY <1>1, <3>6
      <4>2. HeldOnce(h[i - 1], c) /\ c \notin ToSet(q[i])
        BY <1>1, <3>2, <4>1
      <4>3. HeldOnce(h[i], c)
        BY <3>1, <3>2, <4>2, HeldOnceJoined
      <4> QED
        BY <1>1, <3>3, <3>6, <4>3
    <3> QED
      BY <1>1, <3>4, <3>5, <3>6
  <2> QED
    BY <2>1, <2>2
<1>5. Good \in SUBSET I
  OBVIOUS
<1>6. Len(q) \in I
  BY <1>1
<1>7. Len(q) \in Good
  <2> HIDE DEF Good, D, I
  <2>1. Good = I
    BY <1>2, <1>4, <1>5, InductionAlong
  <2> QED
    BY <1>6, <2>1
<1> QED
  BY <1>1, <1>3, <1>7

\* The places of s that hold one of T.
PlacesOf(s, T) == { i \in DOMAIN s : s[i] \in T }

\* Their number in what is put together.
LEMMA PlacesJoined ==
    ASSUME NEW S, NEW s \in Seq(S), NEW t \in Seq(S), NEW T
    PROVE  /\ Cardinality(PlacesOf(s, T)) \in Nat
           /\ Cardinality(PlacesOf(s \o t, T)) = Cardinality(PlacesOf(s, T)) + Cardinality(PlacesOf(t, T))
<1> DEFINE u == s \o t
           m == Len(s)
           A == { i \in DOMAIN s : s[i] \in T }
           B == { i \in DOMAIN t : t[i] \in T }
           C == { i \in DOMAIN u : u[i] \in T }
           f == [j \in B |-> m + j]
           D == { m + j : j \in B }
<1>1. /\ u \in Seq(S) /\ Len(u) = m + Len(t) /\ m \in Nat /\ Len(t) \in Nat
      /\ DOMAIN u = 1..(m + Len(t)) /\ DOMAIN s = 1..m /\ DOMAIN t = 1..Len(t)
      /\ \A i \in 1..m : u[i] = s[i]
      /\ \A j \in 1..Len(t) : u[m + j] = t[j]
  OBVIOUS
<1>2. A \subseteq 1..m /\ B \subseteq 1..Len(t)
  BY <1>1
<1>3. IsFiniteSet(A) /\ IsFiniteSet(B)
  <2>1. IsFiniteSet(1..m) /\ IsFiniteSet(1..Len(t))
    BY <1>1, FS_Interval
  <2> HIDE DEF A, B, m
  <2> QED
    BY <1>2, <2>1, FS_Subset
<1>4. f \in Bijection(B, D)
  <2>1. f \in [B -> D]
    OBVIOUS
  <2>2. \A i, j \in B : f[i] = f[j] => i = j
    BY <1>1, <1>2
  <2>3. \A d \in D : \E j \in B : f[j] = d
    OBVIOUS
  <2> QED
    BY <2>1, <2>2, <2>3 DEF Bijection, Injection, Surjection, IsInjective
<1>5. IsFiniteSet(D) /\ Cardinality(D) = Cardinality(B)
  BY <1>3, <1>4, FS_Bijection DEF ExistsBijection
<1>6. C = A \cup D
  <2> HIDE DEF u, m
  <2>1. ASSUME NEW i \in C PROVE i \in A \cup D
    <3>1. i \in 1..(m + Len(t)) /\ u[i] \in T
      BY <1>1
    <3>2. CASE i <= m
      BY <1>1, <3>1, <3>2
    <3>3. CASE i > m
      <4>1. i - m \in 1..Len(t) /\ i = m + (i - m)
        BY <1>1, <3>1, <3>3
      <4> QED
        BY <1>1, <3>1, <4>1
    <3> QED
      BY <1>1, <3>1, <3>2, <3>3
  <2>2. A \subseteq C
    BY <1>1
  <2>3. D \subseteq C
    BY <1>1
  <2> QED
    BY <2>1, <2>2, <2>3
<1>7. A \cap D = {}
  BY <1>1, <1>2
<1>8. Cardinality(A \cup D) = Cardinality(A) + Cardinality(D) - Cardinality(A \cap D)
  BY <1>3, <1>5, FS_Union
<1>9. Cardinality(A) \in Nat /\ Cardinality(B) \in Nat /\ Cardinality({}) = 0
  BY <1>3, FS_CardinalityType, FS_EmptySet
<1>10. Cardinality(C) = Cardinality(A) + Cardinality(B)
  <2> HIDE DEF A, B, C, D
  <2>1. Cardinality(A \cap D) = 0
    BY <1>7, <1>9
  <2>2. Cardinality(C) = Cardinality(A) + Cardinality(D) - 0
    BY <1>6, <1>8, <2>1
  <2> QED
    BY <1>5, <1>9, <2>2
<1>11. Cardinality(PlacesOf(s, T)) = Cardinality(A) /\ Cardinality(PlacesOf(u, T)) = Cardinality(C)
  BY DEF PlacesOf
<1>12. Cardinality(PlacesOf(t, T)) = Cardinality(B)
  BY DEF PlacesOf
<1> HIDE DEF A, B, C, D, f, m
<1> QED
  BY <1>9, <1>10, <1>11, <1>12

=============================================================================
