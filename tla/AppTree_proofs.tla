---------------------------- MODULE AppTree_proofs ----------------------------
(***************************************************************************)
(* Theorems about the tree of Apps: the recursive functions over it have   *)
(* the values their definitions say, the way up ends at the root, and what *)
(* lies below the root is every App.                                       *)
(***************************************************************************)
EXTENDS AppTree, Recursion_proofs

-----------------------------------------------------------------------------
(* Greatest numbers and sums.                                              *)

\* Max of FiniteSetsExt is the greatest element.
LEMMA MaxOfRange ==
    ASSUME NEW k \in Nat, NEW T \in SUBSET (0..k), T # {}
    PROVE  Max(T) \in T /\ \A n \in T : n <= Max(T)
<1> DEFINE C == {m \in Nat : k - m \in T}
<1>1. \A n \in T : n \in Nat /\ k - n \in C
  OBVIOUS
<1>2. C \in SUBSET Nat /\ C # {}
  BY <1>1
<1>3. \A m \in C : m \in Nat /\ k - m \in T
  OBVIOUS
<1> HIDE DEF C
<1>4. PICK c \in C : \A d \in C : c <= d
  BY <1>2, NatMinimum
<1>5. \A n \in T : k - c >= n
  <2> TAKE n \in T
  <2>1. c <= k - n
    BY <1>1, <1>4
  <2> QED
    BY <2>1, <1>1, <1>3
<1>6. \E x \in T : \A y \in T : x >= y
  BY <1>3, <1>5
<1> QED
  BY <1>6 DEF Max

\* The function MapThenSumSet of FiniteSetsExt is defined by.
SumsUp(sum, g, S) ==
    sum = [s \in SUBSET S |->
             IF s = {} THEN 0
             ELSE g[CHOOSE x \in s : TRUE] + sum[s \ {CHOOSE x \in s : TRUE}]]

\* There is such a function for every finite set.
LEMMA SumExists ==
    ASSUME NEW S, IsFiniteSet(S), NEW g \in [S -> Nat]
    PROVE  \E sum \in [SUBSET S -> Nat] : SumsUp(sum, g, S)
<1> DEFINE N == SUBSET S
           D == [s \in N |-> {t \in N : t \subseteq s /\ t # s}]
           F == [f \in [N -> Nat] |->
                   [s \in N |-> IF s = {} THEN 0
                                ELSE g[CHOOSE x \in s : TRUE] + f[s \ {CHOOSE x \in s : TRUE}]]]
<1>1. \A s \in N : s # {} => /\ (CHOOSE x \in s : TRUE) \in s
                             /\ s \ {CHOOSE x \in s : TRUE} \in D[s]
  OBVIOUS
<1>2. WellFounded(N, D)
  <2> SUFFICES ASSUME NEW T \in SUBSET N, T # {} PROVE \E x \in T : D[x] \cap T = {}
    BY DEF WellFounded
  <2>1. PICK x \in T : \A y \in T : y \subseteq x => y = x
    BY FiniteSubsetsMinimum, FS_Subset
  <2> QED
    BY <2>1
<1>3. F \in [[N -> Nat] -> [N -> Nat]]
  <2> SUFFICES ASSUME NEW f \in [N -> Nat], NEW s \in N
               PROVE F[f][s] \in Nat
    OBVIOUS
  <2> QED
    BY <1>1
<1>4. Local(N, D, Nat, F)
  <2> SUFFICES ASSUME NEW f \in [N -> Nat], NEW h \in [N -> Nat], NEW s \in N,
                      \A y \in D[s] : f[y] = h[y]
               PROVE  F[f][s] = F[h][s]
    BY DEF Local
  <2>1. CASE s = {}
    BY <2>1
  <2>2. CASE s # {}
    BY <2>2, <1>1
  <2> QED
    BY <2>1, <2>2
<1>5. Recursion(N, D, Nat, F)
  <2>1. D \in [N -> SUBSET N] /\ Nat # {}
    OBVIOUS
  <2> HIDE DEF N, D, F
  <2> QED
    BY <1>2, <1>3, <1>4, <2>1 DEF Recursion
<1>6. PICK f \in [N -> Nat] : f = F[f]
  <2> HIDE DEF N, D, F
  <2> QED
    BY <1>5, RecursionSolved
<1>7. SumsUp(f, g, S)
  BY <1>6 DEF SumsUp
<1> QED
  BY <1>6, <1>7

\* When one value changes, the sum changes by as much.
LEMMA SumChange ==
    ASSUME NEW S, IsFiniteSet(S), NEW g \in [S -> Nat], NEW h \in [S -> Nat],
           NEW i, NEW j, SumsUp(i, g, S), SumsUp(j, h, S),
           NEW x \in S, \A y \in S \ {x} : g[y] = h[y]
    PROVE  /\ i[S] \in Nat /\ j[S] \in Nat
           /\ j[S] + g[x] = i[S] + h[x]
<1> DEFINE Good(s) == /\ i[s] \in Nat /\ j[s] \in Nat
                      /\ IF x \in s THEN j[s] + g[x] = i[s] + h[x] ELSE j[s] = i[s]
           Bad == {s \in SUBSET S : ~ Good(s)}
<1> SUFFICES ASSUME Bad # {} PROVE FALSE
  OBVIOUS
<1>1. PICK s \in Bad : \A t \in Bad : t \subseteq s => t = s
  <2>1. Bad \in SUBSET SUBSET S
    OBVIOUS
  <2>2. \A t \in Bad : IsFiniteSet(t)
    BY FS_Subset
  <2> HIDE DEF Bad
  <2> QED
    BY <2>1, <2>2, FiniteSubsetsMinimum
<1> DEFINE c == CHOOSE y \in s : TRUE
           r == s \ {c}
<1>2. s # {}
  BY <1>1 DEF SumsUp
<1>3. c \in s /\ c \in S /\ r \in SUBSET S /\ r \subseteq s /\ r # s
  BY <1>2
<1>4. Good(r)
  BY <1>1, <1>3
<1>5. i[s] = g[c] + i[r] /\ j[s] = h[c] + j[r]
  BY <1>2, <1>1 DEF SumsUp
<1> HIDE DEF r
<1>6. (x \in s) <=> (x = c \/ x \in r)
  BY <1>3 DEF r
<1>7. c \notin r
  BY DEF r
<1> HIDE DEF c
<1>8. CASE c = x
  BY <1>1, <1>3, <1>4, <1>5, <1>6, <1>7, <1>8
<1>9. CASE c # x
  BY <1>1, <1>3, <1>4, <1>5, <1>6, <1>7, <1>9
<1> QED
  BY <1>8, <1>9

\* A sum of zeros is zero.
LEMMA SumZero ==
    ASSUME NEW S, IsFiniteSet(S), NEW g \in [S -> Nat], \A x \in S : g[x] = 0,
           NEW i, SumsUp(i, g, S)
    PROVE  i[S] = 0
<1> DEFINE Bad == {s \in SUBSET S : i[s] # 0}
<1> SUFFICES ASSUME Bad # {} PROVE FALSE
  OBVIOUS
<1>1. PICK s \in Bad : \A t \in Bad : t \subseteq s => t = s
  <2>1. Bad \in SUBSET SUBSET S
    OBVIOUS
  <2>2. \A t \in Bad : IsFiniteSet(t)
    BY FS_Subset
  <2> HIDE DEF Bad
  <2> QED
    BY <2>1, <2>2, FiniteSubsetsMinimum
<1> DEFINE c == CHOOSE y \in s : TRUE
           r == s \ {c}
<1>2. s # {}
  BY <1>1 DEF SumsUp
<1>3. c \in s /\ c \in S /\ r \in SUBSET S /\ r \subseteq s /\ r # s
  BY <1>2
<1>4. i[r] = 0
  BY <1>1, <1>3
<1>5. i[s] = g[c] + i[r]
  BY <1>2, <1>1 DEF SumsUp
<1> HIDE DEF r, c
<1> QED
  BY <1>1, <1>3, <1>4, <1>5

-----------------------------------------------------------------------------
(* The tree.                                                               *)

Opts(a) == ToSet(AppOf[a].opts)

\* The types of the settings the walks go along.
LEMMA TreeTypes ==
    /\ IsFiniteSet(Apps) /\ IsFiniteSet(Options) /\ Root \in Apps
    /\ NoApp \notin Apps /\ NoOption \notin Options
    /\ \A a \in Apps :
        /\ AppOf[a] \in AppType
        /\ Parent(a) \in Apps \cup {NoApp}
        /\ AppOf[a].subs \in Seq(Apps) /\ Subs(a) \in SUBSET Apps
        /\ AppOf[a].opts \in Seq(Options) /\ Opts(a) \in SUBSET Options
        /\ AppOf[a].group \in BOOLEAN
<1>1. /\ IsFiniteSet(Apps) /\ IsFiniteSet(Options) /\ Root \in Apps
      /\ NoApp \notin Apps /\ NoOption \notin Options
      /\ AppOf \in [Apps -> AppType]
  BY TreeAssumption
<1>2. ASSUME NEW a \in Apps
      PROVE  /\ AppOf[a] \in AppType
             /\ AppOf[a].parent \in Apps \cup {NoApp}
             /\ AppOf[a].subs \in Seq(Apps) /\ AppOf[a].opts \in Seq(Options)
             /\ AppOf[a].group \in BOOLEAN
  BY <1>1 DEF AppType
<1>3. \A S, s : s \in Seq(S) => ToSet(s) \in SUBSET S
  BY DEF ToSet
<1> QED
  BY <1>1, <1>2, <1>3 DEF Subs, Opts, Parent

\* Only the root has no parent, and an App is what its parent has below it.
LEMMA Parents ==
    /\ Parent(Root) = NoApp /\ ~IsGroup(Root)
    /\ \A a \in Apps : a # Root => Parent(a) \in Apps /\ a \in Subs(Parent(a))
    /\ \A a \in Apps : \A s \in Subs(a) : s \in Apps /\ Parent(s) = a /\ s # Root
    /\ \A a \in Apps : IsGroup(a) => a # Root /\ ~IsGroup(Parent(a)) /\ ~AppOf[a].fallthrough
<1>1. /\ AppOf[Root].parent = NoApp /\ ~AppOf[Root].group
      /\ \A a \in Apps \ {Root} :
           /\ AppOf[a].parent \in Apps
           /\ a \in ToSet(AppOf[AppOf[a].parent].subs)
           /\ AppOf[a].group => ~AppOf[AppOf[a].parent].group /\ ~AppOf[a].fallthrough
      /\ \A a \in Apps : \A s \in ToSet(AppOf[a].subs) : AppOf[s].parent = a
  BY TreeAssumption
<1>2. NoApp \notin Apps /\ \A a \in Apps : Subs(a) \in SUBSET Apps
  BY TreeTypes
<1> QED
  BY <1>1, <1>2 DEF Parent, IsGroup, Subs

-----------------------------------------------------------------------------
(* The way up.                                                             *)

\* The next two Apps above a.
Above == [a \in Apps |-> IF a = Root THEN {} ELSE {Parent(a), Parent(Parent(a))} \cap Apps]

\* There is a topmost App in every set of Apps.
LEMMA AboveWellFounded == Above \in [Apps -> SUBSET Apps] /\ WellFounded(Apps, Above)
<1> SUFFICES ASSUME NEW T \in SUBSET Apps, T # {}
             PROVE  \E x \in T : Above[x] \cap T = {}
  BY DEF WellFounded, Above
<1> DEFINE Between == { b \in Apps : Parent(b) \in T /\ \E x \in T : Parent(x) = b }
           U == T \cup Between
<1>1. PICK a \in U : Parent(a) \notin U
  <2>1. U \in SUBSET Apps /\ U # {}
    OBVIOUS
  <2>2. \A S \in SUBSET Apps : S # {} => \E a \in S : AppOf[a].parent \notin S
    BY TreeAssumption
  <2> HIDE DEF U
  <2> QED
    BY <2>1, <2>2 DEF Parent
<1>2. a \in T
  BY <1>1
<1>3. Parent(Parent(a)) \notin T \/ Parent(a) \notin Apps
  BY <1>1, <1>2
<1>4. Parent(a) \in Apps \/ a = Root
  BY <1>2, Parents
<1> QED
  BY <1>1, <1>2, <1>3, <1>4 DEF Above

LEMMA UpInduction ==
    \A Good \in SUBSET Apps : (\A a \in Apps : Above[a] \subseteq Good => a \in Good) => Good = Apps
  BY AboveWellFounded, InductionAlong

\* The value of Chain, and what is in it.
LEMMA ChainIs ==
    \A a \in Apps :
        /\ Chain[a] = IF AppOf[a].fallthrough /\ Parent(a) # NoApp
                      THEN <<a>> \o Chain[FallthroughParent(a)] ELSE <<a>>
        /\ Chain[a] \in Seq(Apps) /\ Chain[a] # <<>>
        /\ a # Root => FallthroughParent(a) \in Apps
<1> DEFINE V == Seq(Apps) \ {<<>>}
           F == [f \in [Apps -> V] |->
                   [a \in Apps |-> IF AppOf[a].fallthrough /\ Parent(a) # NoApp
                                   THEN <<a>> \o f[FallthroughParent(a)] ELSE <<a>>]]
<1>1. \A a \in Apps : Parent(a) # NoApp =>
        a # Root /\ FallthroughParent(a) \in Apps /\ FallthroughParent(a) \in Above[a]
  BY Parents, TreeTypes DEF FallthroughParent, Above
<1>2. F \in [[Apps -> V] -> [Apps -> V]]
  <2> SUFFICES ASSUME NEW f \in [Apps -> V], NEW a \in Apps PROVE F[f][a] \in V
    OBVIOUS
  <2>1. CASE AppOf[a].fallthrough /\ Parent(a) # NoApp
    <3>1. f[FallthroughParent(a)] \in V
      BY <1>1, <2>1
    <3> QED
      BY <2>1, <3>1
  <2>2. CASE ~(AppOf[a].fallthrough /\ Parent(a) # NoApp)
    BY <2>2
  <2> QED
    BY <2>1, <2>2
<1>3. Local(Apps, Above, V, F)
  <2> SUFFICES ASSUME NEW f \in [Apps -> V], NEW g \in [Apps -> V], NEW a \in Apps,
                      \A b \in Above[a] : f[b] = g[b]
               PROVE  F[f][a] = F[g][a]
    BY DEF Local
  <2> QED
    BY <1>1
<1>4. V # {}
  <2>1. <<Root>> \in V
    BY TreeTypes
  <2> QED
    BY <2>1
<1>5. PICK f \in [Apps -> V] : f = F[f]
  <2>1. Recursion(Apps, Above, V, F)
    <3> HIDE DEF V, F
    <3> QED
      BY <1>2, <1>3, <1>4, AboveWellFounded DEF Recursion
  <2> HIDE DEF V, F
  <2> QED
    BY <2>1, RecursionSolved
<1>6. Chain = [a \in Apps |-> IF AppOf[a].fallthrough /\ Parent(a) # NoApp
                              THEN <<a>> \o Chain[FallthroughParent(a)] ELSE <<a>>]
  BY <1>5 DEF Chain
<1>7. \A a \in Apps : Chain[a] \in V
  <2>1. ASSUME NEW a \in Apps, \A b \in Above[a] : Chain[b] \in V
        PROVE  Chain[a] \in V
    <3>1. CASE AppOf[a].fallthrough /\ Parent(a) # NoApp
      <4>1. Chain[FallthroughParent(a)] \in V
        BY <1>1, <2>1, <3>1
      <4>2. Chain[a] = <<a>> \o Chain[FallthroughParent(a)]
        BY <1>6, <3>1
      <4> QED
        BY <4>1, <4>2
    <3>2. CASE ~(AppOf[a].fallthrough /\ Parent(a) # NoApp)
      BY <1>6, <3>2
    <3> QED
      BY <3>1, <3>2
  <2> HIDE DEF V
    <2> DEFINE Good == { a \in Apps : Chain[a] \in V }
    <2>2. Good \in SUBSET Apps /\ \A a \in Apps : Above[a] \subseteq Good => a \in Good
      BY <2>1, AboveWellFounded
    <2> HIDE DEF Good
    <2>3. Good = Apps
      BY <2>2, AboveWellFounded, InductionAlong
    <2> QED
      BY <2>3 DEF Good
<1> QED
  BY <1>1, <1>6, <1>7, Parents, TreeTypes

\* The value of SubcommandPath; the root's is the root alone.
LEMMA SubcommandPathIs ==
    /\ \A a \in Apps :
        /\ SubcommandPath[a] = {a} \cup IF AppOf[a].subFallthrough /\ Parent(a) # NoApp
                                        THEN SubcommandPath[Parent(a)] ELSE {}
        /\ SubcommandPath[a] \in SUBSET Apps
    /\ SubcommandPath[Root] = {Root}
<1> DEFINE V == SUBSET Apps
           F == [f \in [Apps -> V] |->
                   [a \in Apps |-> {a} \cup IF AppOf[a].subFallthrough /\ Parent(a) # NoApp
                                            THEN f[Parent(a)] ELSE {}]]
<1>1. \A a \in Apps : Parent(a) # NoApp => Parent(a) \in Apps /\ Parent(a) \in Above[a]
  BY Parents DEF Above
<1>2. F \in [[Apps -> V] -> [Apps -> V]]
  BY <1>1
<1>3. Local(Apps, Above, V, F)
  BY <1>1 DEF Local
<1>4. PICK f \in [Apps -> V] : f = F[f]
  <2>1. V # {}
    OBVIOUS
  <2> HIDE DEF V, F
  <2>2. Recursion(Apps, Above, V, F)
    BY <2>1, <1>2, <1>3, AboveWellFounded DEF Recursion
  <2> QED
    BY <2>2, RecursionSolved
<1>5. SubcommandPath =
        [a \in Apps |-> {a} \cup IF AppOf[a].subFallthrough /\ Parent(a) # NoApp
                                 THEN SubcommandPath[Parent(a)] ELSE {}]
  BY <1>4 DEF SubcommandPath
<1>6. \A a \in Apps : SubcommandPath[a] \in V
  <2>1. ASSUME NEW a \in Apps, \A b \in Above[a] : SubcommandPath[b] \in V
        PROVE  SubcommandPath[a] \in V
    BY <1>1, <1>5, <2>1
  <2> HIDE DEF V
    <2> DEFINE Good == { a \in Apps : SubcommandPath[a] \in V }
    <2>2. Good \in SUBSET Apps /\ \A a \in Apps : Above[a] \subseteq Good => a \in Good
      BY <2>1, AboveWellFounded
    <2> HIDE DEF Good
    <2>3. Good = Apps
      BY <2>2, AboveWellFounded, InductionAlong
    <2> QED
      BY <2>3 DEF Good
<1> QED
  BY <1>5, <1>6, Parents, TreeTypes

-----------------------------------------------------------------------------
(* The way down.                                                           *)

Below == [a \in Apps |-> Subs(a)]

\* There is a lowest App in every set of Apps.
LEMMA BelowWellFounded == Below \in [Apps -> SUBSET Apps] /\ WellFounded(Apps, Below)
<1>1. Below \in [Apps -> SUBSET Apps]
  BY TreeTypes DEF Below
<1>2. PICK parent : parent = [a \in Apps |-> Parent(a)]
  OBVIOUS
<1>3. \A a \in Apps : \A s \in Below[a] : parent[s] = a
  BY <1>2, Parents DEF Below
<1>4. \A T \in SUBSET Apps : T # {} => \E a \in T : parent[a] \notin T
  BY <1>2, TreeAssumption DEF Parent
<1>5. IsFiniteSet(Apps)
  BY TreeTypes
<1> HIDE DEF Below
<1> QED
  BY <1>1, <1>3, <1>4, <1>5, WayDownWellFounded

LEMMA DownInduction ==
    \A Good \in SUBSET Apps : (\A a \in Apps : Below[a] \subseteq Good => a \in Good) => Good = Apps
  BY BelowWellFounded, InductionAlong

\* The value of Subtree; below the root is every App.
LEMMA SubtreeIs ==
    /\ \A a \in Apps :
        /\ Subtree[a] = {a} \cup UNION { Subtree[s] : s \in Subs(a) }
        /\ Subtree[a] \in SUBSET Apps /\ a \in Subtree[a]
        /\ \A b \in Subtree[a] : Subs(b) \subseteq Subtree[a]
    /\ Subtree[Root] = Apps
<1> DEFINE V == SUBSET Apps
           F == [f \in [Apps -> V] |->
                   [a \in Apps |-> {a} \cup UNION { f[s] : s \in Subs(a) }]]
<1>1. \A a \in Apps : Subs(a) \in SUBSET Apps /\ Below[a] = Subs(a)
  BY TreeTypes DEF Below
<1>2. F \in [[Apps -> V] -> [Apps -> V]]
  BY <1>1
<1>3. Local(Apps, Below, V, F)
  <2> SUFFICES ASSUME NEW f \in [Apps -> V], NEW g \in [Apps -> V], NEW a \in Apps,
                      \A b \in Below[a] : f[b] = g[b]
               PROVE  F[f][a] = F[g][a]
    BY DEF Local
  <2>1. { f[s] : s \in Subs(a) } = { g[s] : s \in Subs(a) }
    BY <1>1
  <2> QED
    BY <2>1
<1>4. PICK f \in [Apps -> V] : f = F[f]
  <2>1. V # {}
    OBVIOUS
  <2> HIDE DEF V, F
  <2>2. Recursion(Apps, Below, V, F)
    BY <2>1, <1>2, <1>3, BelowWellFounded DEF Recursion
  <2> QED
    BY <2>2, RecursionSolved
<1>5. Subtree = [a \in Apps |-> {a} \cup UNION { Subtree[s] : s \in Subs(a) }]
  <2>1. \E t : t = [a \in Apps |-> {a} \cup UNION { t[s] : s \in Subs(a) }]
    BY <1>4
  <2> QED
    BY ONLY <2>1 DEF Subtree, Subs
<1>6. \A a \in Apps : Subtree[a] = {a} \cup UNION { Subtree[s] : s \in Subs(a) }
  BY <1>5
<1>7. \A a \in Apps : Subtree[a] \in V
  <2>1. ASSUME NEW a \in Apps, \A b \in Below[a] : Subtree[b] \in V
        PROVE  Subtree[a] \in V
    BY <1>1, <1>6, <2>1
  <2> HIDE DEF V
    <2> DEFINE Good == { a \in Apps : Subtree[a] \in V }
    <2>2. Good \in SUBSET Apps /\ \A a \in Apps : Below[a] \subseteq Good => a \in Good
      BY <2>1, BelowWellFounded
    <2> HIDE DEF Good
    <2>3. Good = Apps
      BY <2>2, DownInduction
    <2> QED
      BY <2>3 DEF Good
<1> DEFINE Closed == { A \in SUBSET Apps : \A b \in A : Subs(b) \subseteq A }
<1>8. \A a \in Apps : Subtree[a] \in Closed
  <2>1. ASSUME NEW a \in Apps, \A s \in Below[a] : Subtree[s] \in Closed
        PROVE  Subtree[a] \in Closed
    <3>1. ASSUME NEW b \in Subtree[a] PROVE Subs(b) \subseteq Subtree[a]
      <4>1. CASE b = a
        <5>1. \A s \in Subs(a) : s \in Subtree[s]
          BY <1>1, <1>6
        <5> QED
          BY <4>1, <5>1, <1>6
      <4>2. CASE b # a
        <5>1. PICK s \in Subs(a) : b \in Subtree[s]
          BY <4>2, <1>6
        <5>2. Subs(b) \subseteq Subtree[s]
          BY <1>1, <2>1, <5>1
        <5> QED
          BY <5>1, <5>2, <1>6
      <4> QED
        BY <4>1, <4>2
    <3> QED
      BY <1>7, <3>1
  <2> HIDE DEF Closed
    <2> DEFINE Good == { a \in Apps : Subtree[a] \in Closed }
    <2>2. Good \in SUBSET Apps /\ \A a \in Apps : Below[a] \subseteq Good => a \in Good
      BY <2>1, BelowWellFounded
    <2> HIDE DEF Good
    <2>3. Good = Apps
      BY <2>2, DownInduction
    <2> QED
      BY <2>3 DEF Good
<1>9. Subtree[Root] = Apps
  <2> SUFFICES ASSUME Apps \ Subtree[Root] # {} PROVE FALSE
    BY <1>7, TreeTypes
  <2>1. PICK a \in Apps \ Subtree[Root] : Parent(a) \notin Apps \ Subtree[Root]
    BY TreeAssumption DEF Parent
  <2>2. a # Root
    BY <1>6, <2>1, TreeTypes
  <2>3. Parent(a) \in Subtree[Root] /\ a \in Subs(Parent(a))
    BY <2>1, <2>2, Parents
  <2> QED
    BY <1>8, <2>1, <2>3, TreeTypes
<1> QED
  BY <1>6, <1>7, <1>8, <1>9

\* The value of Counted: an App and the groups below it.
LEMMA CountedIs ==
    \A a \in Apps :
        /\ Counted[a] = {a} \cup UNION { Counted[s] : s \in { t \in Subs(a) : IsGroup(t) } }
        /\ Counted[a] \in SUBSET Apps /\ a \in Counted[a]
        /\ \A b \in Counted[a] : b = a \/ IsGroup(b)
<1> DEFINE V == SUBSET Apps
           Nameless(a) == { t \in Subs(a) : IsGroup(t) }
           F == [f \in [Apps -> V] |->
                   [a \in Apps |-> {a} \cup UNION { f[s] : s \in Nameless(a) }]]
<1>1. \A a \in Apps : Nameless(a) \in SUBSET Apps /\ Nameless(a) \subseteq Below[a]
  BY TreeTypes DEF Below
<1> HIDE DEF Nameless
<1>2. F \in [[Apps -> V] -> [Apps -> V]]
  BY <1>1
<1>3. Local(Apps, Below, V, F)
  <2> SUFFICES ASSUME NEW f \in [Apps -> V], NEW g \in [Apps -> V], NEW a \in Apps,
                      \A b \in Below[a] : f[b] = g[b]
               PROVE  F[f][a] = F[g][a]
    BY DEF Local
  <2>1. { f[s] : s \in Nameless(a) } = { g[s] : s \in Nameless(a) }
    BY <1>1
  <2> QED
    BY <2>1
<1>4. PICK f \in [Apps -> V] : f = F[f]
  <2>1. V # {}
    OBVIOUS
  <2> HIDE DEF V, F
  <2>2. Recursion(Apps, Below, V, F)
    BY <2>1, <1>2, <1>3, BelowWellFounded DEF Recursion
  <2> QED
    BY <2>2, RecursionSolved
<1>5. Counted = [a \in Apps |-> {a} \cup UNION { Counted[s] : s \in Nameless(a) }]
  <2>1. \E c : c = [a \in Apps |-> {a} \cup UNION { c[s] : s \in Nameless(a) }]
    BY <1>4
  <2> QED
    BY ONLY <2>1 DEF Counted, Subs, Nameless
<1>6. \A a \in Apps : Counted[a] = {a} \cup UNION { Counted[s] : s \in Nameless(a) }
  BY <1>5
<1>7. \A a \in Apps : Counted[a] \in V
  <2>1. ASSUME NEW a \in Apps, \A b \in Below[a] : Counted[b] \in V
        PROVE  Counted[a] \in V
    BY <1>1, <1>6, <2>1
  <2> HIDE DEF V
    <2> DEFINE Good == { a \in Apps : Counted[a] \in V }
    <2>2. Good \in SUBSET Apps /\ \A a \in Apps : Below[a] \subseteq Good => a \in Good
      BY <2>1, BelowWellFounded
    <2> HIDE DEF Good
    <2>3. Good = Apps
      BY <2>2, DownInduction
    <2> QED
      BY <2>3 DEF Good
<1>8. \A a \in Apps : \A b \in Counted[a] : b = a \/ IsGroup(b)
  <2> DEFINE g == [a \in Apps |-> \A b \in Counted[a] : b = a \/ IsGroup(b)]
  <2>1. ASSUME NEW a \in Apps, \A s \in Below[a] : g[s] \in {TRUE}
        PROVE  g[a] \in {TRUE}
    <3> SUFFICES ASSUME NEW b \in Counted[a], b # a PROVE IsGroup(b)
      OBVIOUS
    <3>1. PICK s \in Nameless(a) : b \in Counted[s]
      BY <1>6
    <3>2. s \in Apps /\ g[s] \in {TRUE} /\ IsGroup(s)
      BY <1>1, <2>1, <3>1 DEF Nameless
    <3> QED
      BY <3>1, <3>2
  <2>2. \A a \in Apps : g[a] \in {TRUE}
    <3> HIDE DEF g
      <3> DEFINE Good == { a \in Apps : g[a] \in {TRUE} }
      <3>1. Good \in SUBSET Apps /\ \A a \in Apps : Below[a] \subseteq Good => a \in Good
        BY <2>1, BelowWellFounded
      <3> HIDE DEF Good
      <3>2. Good = Apps
        BY <3>1, BelowWellFounded, InductionAlong
      <3> QED
        BY <3>2 DEF Good
  <2> QED
    BY <2>2
<1> QED
  BY <1>6, <1>7, <1>8 DEF Nameless
=============================================================================
