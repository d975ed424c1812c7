--------------------------- MODULE ConfigFile_proofs ---------------------------
(***************************************************************************)
(* What holds of every program, every file that is typed for it and every  *)
(* file that it writes: proofs about ConfigFile.  First what the walks     *)
(* through the tree of Apps and through the lines return, then the state,  *)
(* the sections that are read and how they nest, what the items do, and    *)
(* that a section that is completed has what was set in it.                *)
(***************************************************************************)
EXTENDS ConfigFile, Recursion_proofs, SequenceTheorems

-----------------------------------------------------------------------------
(* The tree.                                                               *)

\* The assumption, in parts.
LEMMA TreeAssumed ==
    /\ \A a, b \in Apps : ToSet(SubsOf[a]) \cap ToSet(SubsOf[b]) # {} => a = b
    /\ \A a \in Apps : a = Root <=> \A p \in Apps : a \notin ToSet(SubsOf[p])
    /\ \A T \in SUBSET Apps : T # {} => \E a \in T : a = Root \/ ParentOf(a) \notin T
  BY Zenon, FileAssumption

LEMMA TreeTypes ==
    /\ Root \in Apps /\ NoApp \notin Apps
    /\ \A a \in Apps :
        /\ NameOf[a] \in Segments \cup {""}
        /\ SubsOf[a] \in Seq(Apps) /\ OptionsOf[a] \in Seq(Segments)
        /\ \A i \in DOMAIN SubsOf[a] : SubsOf[a][i] \in Apps /\ SubsOf[a][i] \in ToSet(SubsOf[a])
        /\ \A s \in ToSet(SubsOf[a]) : s \in Apps /\ s # Root
        /\ DOMAIN SubsOf[a] \in SUBSET Nat
<1>1. \A a \in Apps : SubsOf[a] \in Seq(Apps) /\ OptionsOf[a] \in Seq(Segments)
  BY FileAssumption
<1>2. \A a \in Apps : \A i \in DOMAIN SubsOf[a] : SubsOf[a][i] \in Apps
  BY <1>1
<1>3. \A a \in Apps : DOMAIN SubsOf[a] \in SUBSET Nat
  BY <1>1
<1>4. Root \in Apps /\ NoApp \notin Apps /\ \A a \in Apps : NameOf[a] \in Segments \cup {""}
  BY FileAssumption
<1>5. \A a \in Apps : \A s \in ToSet(SubsOf[a]) : s # Root
  BY <1>4, TreeAssumed
<1> QED
  BY <1>1, <1>2, <1>3, <1>4, <1>5 DEF ToSet

\* Every App but the root has one parent, whose subcommand it is.
LEMMA ParentIs ==
    /\ \A a \in Apps \ {Root} : ParentOf(a) \in Apps /\ a \in ToSet(SubsOf[ParentOf(a)])
    /\ \A p \in Apps : \A a \in ToSet(SubsOf[p]) : ParentOf(a) = p
<1>1. ASSUME NEW a \in Apps \ {Root}
      PROVE  ParentOf(a) \in Apps /\ a \in ToSet(SubsOf[ParentOf(a)])
  <2>1. \E p \in Apps : a \in ToSet(SubsOf[p])
    BY TreeAssumed
  <2> QED
    BY <2>1 DEF ParentOf
<1>2. ASSUME NEW p \in Apps, NEW a \in ToSet(SubsOf[p])
      PROVE  ParentOf(a) = p
  <2>1. a \in Apps \ {Root}
    BY TreeTypes
  <2>2. ParentOf(a) \in Apps /\ a \in ToSet(SubsOf[ParentOf(a)]) \cap ToSet(SubsOf[p])
    BY <1>1, <2>1
  <2> QED
    BY <2>2, TreeAssumed
<1> QED
  BY <1>1, <1>2

Below == [a \in Apps |-> ToSet(SubsOf[a])]
Above == [a \in Apps |-> IF a = Root THEN {} ELSE {ParentOf(a)}]

LEMMA AboveWellFounded == Above \in [Apps -> SUBSET Apps] /\ WellFounded(Apps, Above)
<1>1. \A a \in Apps : a # Root => ParentOf(a) \in Apps
  BY ParentIs
<1>2. ASSUME NEW T \in SUBSET Apps, T # {} PROVE \E x \in T : Above[x] \cap T = {}
  <2>1. PICK x \in T : x = Root \/ ParentOf(x) \notin T
    BY <1>2, TreeAssumed
  <2> QED
    BY <2>1 DEF Above
<1> QED
  BY <1>1, <1>2 DEF Above, WellFounded

LEMMA BelowWellFounded == Below \in [Apps -> SUBSET Apps] /\ WellFounded(Apps, Below)
<1> DEFINE parent == [a \in Apps |-> IF a = Root THEN NoApp ELSE ParentOf(a)]
<1>1. Below \in [Apps -> SUBSET Apps]
  BY TreeTypes DEF Below
<1>2. \A x \in Apps : \A y \in Below[x] : parent[y] = x
  BY TreeTypes, ParentIs DEF Below
<1>3. ASSUME NEW T \in SUBSET Apps, T # {} PROVE \E x \in T : parent[x] \notin T
  <2>1. PICK x \in T : x = Root \/ ParentOf(x) \notin T
    BY <1>3, TreeAssumed
  <2> QED
    BY <2>1, TreeTypes
<1> HIDE DEF parent
<1>4. IsFiniteSet(Apps)
  BY FileAssumption
<1> QED
  BY <1>1, <1>2, <1>3, <1>4, WayDownWellFounded

\* App::_find_subcommand returns a subcommand of some App, never the root.
LEMMA FoundIs ==
    ASSUME NEW a \in Apps, NEW n
    PROVE  FindSub(a, n) \in (Apps \ {Root}) \cup {NoApp}
<1> DEFINE V == (Apps \ {Root}) \cup {NoApp}
           within(f, s) == IsGroup(s) /\ f[s] # NoApp
           hits(f, b) == { i \in DOMAIN SubsOf[b] :
                             NameOf[SubsOf[b][i]] = n \/ within(f, SubsOf[b][i]) }
           first(f, b) == SubsOf[b][Min(hits(f, b))]
           value(f, b) == IF hits(f, b) = {} THEN NoApp
                          ELSE IF within(f, first(f, b)) THEN f[first(f, b)] ELSE first(f, b)
           F == [f \in [Apps -> V] |-> [b \in Apps |-> value(f, b)]]
<1>1. ASSUME NEW f \in [Apps -> V], NEW b \in Apps
      PROVE  hits(f, b) # {} => first(f, b) \in V /\ first(f, b) \in Below[b] /\ first(f, b) \in Apps
  <2> SUFFICES ASSUME hits(f, b) # {}
               PROVE  first(f, b) \in V /\ first(f, b) \in Below[b] /\ first(f, b) \in Apps
    OBVIOUS
  <2>1. hits(f, b) \in SUBSET Nat /\ hits(f, b) \in SUBSET DOMAIN SubsOf[b]
    BY TreeTypes
  <2>2. Min(hits(f, b)) \in DOMAIN SubsOf[b]
    <3> HIDE DEF hits
    <3> QED
      BY <2>1, MinOfNats
  <2> HIDE DEF hits
  <2> QED
    BY <2>2, TreeTypes DEF Below
<1>2. F \in [[Apps -> V] -> [Apps -> V]]
  <2> SUFFICES ASSUME NEW f \in [Apps -> V], NEW b \in Apps PROVE value(f, b) \in V
    OBVIOUS
  <2>1. hits(f, b) # {} => first(f, b) \in V /\ first(f, b) \in Apps
    BY <1>1
  <2> HIDE DEF hits, first
  <2> QED
    BY <2>1
<1>3. Local(Apps, Below, V, F)
  <2> SUFFICES ASSUME NEW f \in [Apps -> V], NEW g \in [Apps -> V], NEW b \in Apps,
                      \A y \in Below[b] : f[y] = g[y]
               PROVE  F[f][b] = F[g][b]
    BY DEF Local
  <2>1. hits(f, b) = hits(g, b)
    BY TreeTypes DEF Below
  <2>2. first(f, b) = first(g, b)
    <3> HIDE DEF hits
    <3> QED BY <2>1
  <2>3. hits(f, b) # {} => f[first(f, b)] = g[first(f, b)]
    <3> HIDE DEF hits, first, V
    <3> QED BY <1>1
  <2>4. F[f][b] = value(f, b) /\ F[g][b] = value(g, b)
    OBVIOUS
  <2> HIDE DEF hits, first, F
  <2> QED
    BY <2>1, <2>2, <2>3, <2>4
<1>4. PICK f \in [Apps -> V] : f = F[f]
  <2>1. V # {}
    OBVIOUS
  <2> HIDE DEF V, F
  <2>2. Recursion(Apps, Below, V, F)
    BY <1>2, <1>3, <2>1, BelowWellFounded DEF Recursion
  <2> QED
    BY <2>2, RecursionSolved
<1> DEFINE found == CHOOSE found : found = [b \in Apps |-> value(found, b)]
<1>5. found = [b \in Apps |-> value(found, b)]
  <2>1. \E g : g = [b \in Apps |-> value(g, b)]
    BY <1>4
  <2> HIDE DEF value
  <2> QED
    BY ONLY <2>1
<1>6. FindSub(a, n) = found[a]
  BY DEF FindSub
<1> HIDE DEF found
<1> DEFINE Good == { b \in Apps : found[b] \in V }
<1>7. ASSUME NEW b \in Apps, \A y \in Below[b] : found[y] \in V
      PROVE  found[b] \in V
  <2> DEFINE g == [y \in Apps |-> IF y \in Below[b] THEN found[y] ELSE NoApp]
  <2>1. g \in [Apps -> V]
    BY <1>7
  <2>2. hits(found, b) = hits(g, b)
    BY TreeTypes DEF Below
  <2>3. hits(found, b) # {} => first(found, b) \in V /\ first(found, b) \in Below[b]
    <3> HIDE DEF g, V
    <3>1. hits(g, b) # {} => first(g, b) \in V /\ first(g, b) \in Below[b]
      BY <1>1, <2>1
    <3> HIDE DEF hits
    <3> QED
      BY <2>2, <3>1
  <2> HIDE DEF hits, first, g
  <2> QED
    BY <1>5, <1>7, <2>3
<1>8. Good = Apps
  <2> HIDE DEF V
  <2>1. \A b \in Apps : Below[b] \subseteq Good => b \in Good
    BY <1>7
  <2> HIDE DEF Good
  <2>2. Good \in SUBSET Apps
    BY DEF Good
  <2> QED
    BY <2>1, <2>2, BelowWellFounded, InductionAlong
<1> QED
  BY <1>6, <1>8

\* The numbers up to n depend on the one before.
LEMMA LevelsWellFounded ==
    ASSUME NEW n \in Nat, NEW D, D = [i \in 0..n |-> IF i = 0 THEN {} ELSE {i - 1}]
    PROVE  D \in [0..n -> SUBSET (0..n)] /\ WellFounded(0..n, D)
<1>1. D \in [0..n -> SUBSET (0..n)]
  OBVIOUS
<1>2. ASSUME NEW T \in SUBSET (0..n), T # {} PROVE \E x \in T : D[x] \cap T = {}
  <2>1. PICK x \in T : \A y \in T : x <= y
    BY <1>2, NatMinimum
  <2> QED
    BY <2>1
<1> QED
  BY <1>1, <1>2 DEF WellFounded

\* Names lead to an App or to none; only no name at all leads to the root.
LEMMA LocateIs ==
    ASSUME NEW S, NEW parents \in Seq(S)
    PROVE  /\ Locate(parents) \in Apps \cup {NoApp}
           /\ parents # <<>> => Locate(parents) # Root
<1> DEFINE I == 0..Len(parents)
           V == Apps \cup {NoApp}
           D == [i \in I |-> IF i = 0 THEN {} ELSE {i - 1}]
           value(f, i) == IF i = 0 THEN Root
                          ELSE IF f[i - 1] = NoApp THEN NoApp ELSE FindSub(f[i - 1], parents[i])
           F == [f \in [I -> V] |-> [i \in I |-> value(f, i)]]
<1>1. Len(parents) \in Nat /\ Root \in Apps /\ NoApp \notin Apps
  <2>1. Len(parents) \in Nat
    OBVIOUS
  <2> QED
    BY <2>1, TreeTypes
<1>2. D \in [I -> SUBSET I] /\ WellFounded(I, D)
  <2>1. D = [i \in 0..Len(parents) |-> IF i = 0 THEN {} ELSE {i - 1}]
    OBVIOUS
  <2> HIDE DEF D
  <2> QED
    BY <1>1, <2>1, LevelsWellFounded
<1>3. ASSUME NEW f, NEW i \in I, i # 0 => f[i - 1] \in V
      PROVE  value(f, i) \in V /\ (i # 0 => value(f, i) # Root)
  <2>1. CASE i = 0
    BY <1>1, <2>1
  <2>2. CASE i # 0 /\ f[i - 1] = NoApp
    BY <1>1, <2>2
  <2>3. CASE i # 0 /\ f[i - 1] # NoApp
    <3>1. FindSub(f[i - 1], parents[i]) \in (Apps \ {Root}) \cup {NoApp}
      BY <1>3, <2>3, FoundIs
    <3> QED
      BY <1>1, <2>3, <3>1
  <2> QED
    BY <2>1, <2>2, <2>3
<1>4. F \in [[I -> V] -> [I -> V]]
  <2> SUFFICES ASSUME NEW f \in [I -> V], NEW i \in I PROVE value(f, i) \in V
    OBVIOUS
  <2>1. i # 0 => f[i - 1] \in V
    BY <1>1
  <2> HIDE DEF value, V
  <2> QED
    BY <1>3, <2>1
<1>5. Local(I, D, V, F)
  <2> SUFFICES ASSUME NEW f \in [I -> V], NEW g \in [I -> V], NEW i \in I,
                      \A y \in D[i] : f[y] = g[y]
               PROVE  F[f][i] = F[g][i]
    BY DEF Local
  <2> QED
    OBVIOUS
<1>6. PICK f \in [I -> V] : f = F[f]
  <2> HIDE DEF I, D, V, F
  <2>1. V # {}
    BY <1>1 DEF V
  <2>2. Recursion(I, D, V, F)
    BY <1>2, <1>4, <1>5, <2>1 DEF Recursion
  <2> QED
    BY <2>2, RecursionSolved
<1> DEFINE place == CHOOSE place : place = [i \in I |-> value(place, i)]
<1>7. place = [i \in I |-> value(place, i)]
  <2>1. \E g : g = [i \in I |-> value(g, i)]
    BY <1>6
  <2> HIDE DEF value, I
  <2> QED
    BY ONLY <2>1
<1>8. Locate(parents) = place[Len(parents)]
  BY DEF Locate
<1> HIDE DEF place
<1>9. \A i \in I : place[i] = value(place, i)
  <2> HIDE DEF value, I
  <2> QED
    BY ONLY <1>7
<1> DEFINE Good == { i \in I : place[i] \in V }
<1>10. ASSUME NEW i \in I, D[i] \subseteq Good PROVE i \in Good
  <2>1. i # 0 => i - 1 \in D[i]
    OBVIOUS
  <2>2. i # 0 => place[i - 1] \in V
    BY <1>10, <2>1
  <2> HIDE DEF value, V
  <2>3. value(place, i) \in V
    BY <1>3, <2>2
  <2> QED
    BY <1>9, <2>3
<1>11. Good = I
  <2> HIDE DEF I, D, Good
  <2>1. Good \in SUBSET I
    BY DEF Good
  <2> QED
    BY <1>2, <1>10, <2>1, InductionAlong
<1>12. \A i \in I : place[i] \in V
  BY <1>11
<1>13. Len(parents) \in I /\ (Len(parents) # 0 => Len(parents) - 1 \in I)
  BY <1>1
<1>14. Len(parents) # 0 => value(place, Len(parents)) # Root
  <2> HIDE DEF value, V
  <2> QED
    BY <1>3, <1>12, <1>13
<1>15. parents # <<>> => Len(parents) # 0
  OBVIOUS
<1> HIDE DEF value, I
<1> QED
  BY <1>8, <1>9, <1>12, <1>13, <1>14, <1>15

\* App::get_option_no_throw returns an App that has an option of that name.
LEMMA OptionIs ==
    ASSUME NEW a \in Apps, NEW n
    PROVE  /\ FindOption(a, n) \in { b \in Apps : n \in ToSet(OptionsOf[b]) } \cup {NoApp}
           /\ n \in ToSet(OptionsOf[a]) => FindOption(a, n) = a
<1> DEFINE V == { b \in Apps : n \in ToSet(OptionsOf[b]) } \cup {NoApp}
           hits(f, b) == { i \in DOMAIN SubsOf[b] :
                             IsGroup(SubsOf[b][i]) /\ f[SubsOf[b][i]] # NoApp }
           first(f, b) == SubsOf[b][Min(hits(f, b))]
           value(f, b) == IF n \in ToSet(OptionsOf[b]) THEN b
                          ELSE IF hits(f, b) = {} THEN NoApp ELSE f[first(f, b)]
           F == [f \in [Apps -> V] |-> [b \in Apps |-> value(f, b)]]
<1>1. ASSUME NEW f, NEW b \in Apps
      PROVE  hits(f, b) # {} => first(f, b) \in Below[b] /\ first(f, b) \in Apps
  <2> SUFFICES ASSUME hits(f, b) # {}
               PROVE  first(f, b) \in Below[b] /\ first(f, b) \in Apps
    OBVIOUS
  <2>1. hits(f, b) \in SUBSET Nat /\ hits(f, b) \in SUBSET DOMAIN SubsOf[b]
    BY TreeTypes
  <2>2. Min(hits(f, b)) \in DOMAIN SubsOf[b]
    <3> HIDE DEF hits
    <3> QED
      BY <2>1, MinOfNats
  <2> HIDE DEF hits
  <2> QED
    BY <2>2, TreeTypes DEF Below
<1>2. ASSUME NEW f, NEW b \in Apps, \A y \in Below[b] : f[y] \in V
      PROVE  value(f, b) \in V
  <2>1. hits(f, b) # {} => f[first(f, b)] \in V
    <3> HIDE DEF hits, first, V
    <3> QED BY <1>1, <1>2
  <2> HIDE DEF hits, first
  <2> QED
    BY <2>1
<1>3. F \in [[Apps -> V] -> [Apps -> V]]
  <2> SUFFICES ASSUME NEW f \in [Apps -> V], NEW b \in Apps PROVE value(f, b) \in V
    OBVIOUS
  <2>1. \A y \in Below[b] : y \in Apps
    BY BelowWellFounded
  <2>2. \A y \in Below[b] : f[y] \in V
    BY <2>1
  <2> HIDE DEF value, V
  <2> QED
    BY <1>2, <2>2
<1>4. Local(Apps, Below, V, F)
  <2> SUFFICES ASSUME NEW f \in [Apps -> V], NEW g \in [Apps -> V], NEW b \in Apps,
                      \A y \in Below[b] : f[y] = g[y]
               PROVE  F[f][b] = F[g][b]
    BY DEF Local
  <2>1. hits(f, b) = hits(g, b)
    BY TreeTypes DEF Below
  <2>2. first(f, b) = first(g, b)
    <3> HIDE DEF hits
    <3> QED BY <2>1
  <2>3. hits(f, b) # {} => f[first(f, b)] = g[first(f, b)]
    <3> HIDE DEF hits, first, V
    <3> QED BY <1>1
  <2>4. F[f][b] = value(f, b) /\ F[g][b] = value(g, b)
    OBVIOUS
  <2> HIDE DEF hits, first, F
  <2> QED
    BY <2>1, <2>2, <2>3, <2>4
<1>5. PICK f \in [Apps -> V] : f = F[f]
  <2>1. V # {}
    OBVIOUS
  <2> HIDE DEF V, F
  <2>2. Recursion(Apps, Below, V, F)
    BY <1>3, <1>4, <2>1, BelowWellFounded DEF Recursion
  <2> QED
    BY <2>2, RecursionSolved
<1> DEFINE home == CHOOSE home : home = [b \in Apps |-> value(home, b)]
<1>6. home = [b \in Apps |-> value(home, b)]
  <2>1. \E g : g = [b \in Apps |-> value(g, b)]
    BY <1>5
  <2> HIDE DEF value
  <2> QED
    BY ONLY <2>1
<1>7. FindOption(a, n) = home[a]
  BY DEF FindOption
<1> HIDE DEF home
<1>8. \A b \in Apps : home[b] = value(home, b)
  <2> HIDE DEF value
  <2> QED
    BY ONLY <1>6
<1> DEFINE Good == { b \in Apps : home[b] \in V }
<1> HIDE DEF value, V
<1>9. \A b \in Apps : Below[b] \subseteq Good => b \in Good
  BY <1>2, <1>8
<1>10. Good = Apps
  <2> HIDE DEF Good
  <2>1. Good \in SUBSET Apps
    BY DEF Good
  <2> QED
    BY <1>9, <2>1, BelowWellFounded, InductionAlong
<1>11. home[a] \in V
  BY <1>10
<1>12. n \in ToSet(OptionsOf[a]) => home[a] = a
  BY <1>8 DEF value
<1> QED
  BY <1>7, <1>11, <1>12 DEF V

\* Paths are put together of segments and of paths.
LEMMA PathsAre ==
    /\ <<>> \in Paths
    /\ \A p \in Paths, n \in Segments \cup {""} : Append(p, n) \in Paths /\ Append(p, n) # <<>>
    /\ \A p, q \in Paths : p \o q \in Paths
    /\ \A p \in Paths : Len(p) \in Nat /\ (Len(p) = 0 <=> p = <<>>)
<1> DEFINE T == Segments \cup {""}
<1>1. Paths = Seq(T)
  BY DEF Paths
<1> HIDE DEF T
<1>2. /\ <<>> \in Seq(T)
      /\ \A p \in Seq(T), n \in T : Append(p, n) \in Seq(T) /\ Append(p, n) # <<>>
      /\ \A p, q \in Seq(T) : p \o q \in Seq(T)
      /\ \A p \in Seq(T) : Len(p) \in Nat /\ (Len(p) = 0 <=> p = <<>>)
  OBVIOUS
<1> QED
  BY <1>1, <1>2 DEF T

\* The path of every App is a path.
LEMMA PathIs == \A a \in Apps : PathOf(a) \in Paths
<1> DEFINE value(f, b) == IF b = Root THEN <<>> ELSE Append(f[ParentOf(b)], NameOf[b])
           F == [f \in [Apps -> Paths] |-> [b \in Apps |-> value(f, b)]]
<1>1. ASSUME NEW f, NEW b \in Apps, \A y \in Above[b] : f[y] \in Paths
      PROVE  value(f, b) \in Paths
  <2>1. b # Root => f[ParentOf(b)] \in Paths
    BY <1>1 DEF Above
  <2>2. NameOf[b] \in Segments \cup {""}
    BY TreeTypes
  <2> QED
    BY <2>1, <2>2, PathsAre
<1>2. F \in [[Apps -> Paths] -> [Apps -> Paths]]
  <2> SUFFICES ASSUME NEW f \in [Apps -> Paths], NEW b \in Apps PROVE value(f, b) \in Paths
    OBVIOUS
  <2>1. \A y \in Above[b] : y \in Apps
    BY AboveWellFounded
  <2>2. \A y \in Above[b] : f[y] \in Paths
    BY <2>1
  <2> HIDE DEF value
  <2> QED
    BY <1>1, <2>2
<1>3. Local(Apps, Above, Paths, F)
  <2> SUFFICES ASSUME NEW f \in [Apps -> Paths], NEW g \in [Apps -> Paths], NEW b \in Apps,
                      \A y \in Above[b] : f[y] = g[y]
               PROVE  F[f][b] = F[g][b]
    BY DEF Local
  <2> QED
    BY DEF Above
<1>4. PICK f \in [Apps -> Paths] : f = F[f]
  <2>1. Paths # {}
    BY PathsAre
  <2> HIDE DEF F
  <2>2. Recursion(Apps, Above, Paths, F)
    BY <1>2, <1>3, <2>1, AboveWellFounded DEF Recursion
  <2> QED
    BY <2>2, RecursionSolved
<1> DEFINE path == CHOOSE path : path = [b \in Apps |-> value(path, b)]
<1>5. path = [b \in Apps |-> value(path, b)]
  <2>1. \E g : g = [b \in Apps |-> value(g, b)]
    BY <1>4
  <2> HIDE DEF value
  <2> QED
    BY ONLY <2>1
<1>6. \A a \in Apps : PathOf(a) = path[a]
  BY DEF PathOf
<1> HIDE DEF path
<1>7. \A b \in Apps : path[b] = value(path, b)
  <2> HIDE DEF value
  <2> QED
    BY ONLY <1>5
<1> DEFINE Good == { b \in Apps : path[b] \in Paths }
<1> HIDE DEF value
<1>8. \A b \in Apps : Above[b] \subseteq Good => b \in Good
  BY <1>1, <1>7
<1>9. Good = Apps
  <2> HIDE DEF Good
  <2>1. Good \in SUBSET Apps
    BY DEF Good
  <2> QED
    BY <1>8, <2>1, AboveWellFounded, InductionAlong
<1> QED
  BY <1>6, <1>9

-----------------------------------------------------------------------------
(* The lines that are written.                                             *)

\* What is kept of a sequence.
LEMMA KeptIs ==
    ASSUME NEW S, NEW s \in Seq(S), NEW T
    PROVE  Kept(s, T) \in Seq(S \cap T) /\ ToSet(Kept(s, T)) = ToSet(s) \cap T
<1> DEFINE q == [i \in DOMAIN s |-> IF s[i] \in T THEN <<s[i]>> ELSE <<>>]
<1>1. DOMAIN s = 1..Len(s) /\ Len(s) \in Nat /\ \A i \in DOMAIN s : s[i] \in S
  OBVIOUS
<1>2. ASSUME NEW i \in DOMAIN s
      PROVE  q[i] \in Seq(S \cap T) /\ ToSet(q[i]) = {s[i]} \cap T
  <2>1. CASE s[i] \in T
    <3>1. q[i] = <<s[i]>> /\ s[i] \in S \cap T
      BY <1>1, <2>1
    <3>2. <<s[i]>> \in Seq(S \cap T) /\ ToSet(<<s[i]>>) = {s[i]}
      BY <3>1 DEF ToSet
    <3> QED
      BY <2>1, <3>1, <3>2
  <2>2. CASE s[i] \notin T
    <3>1. q[i] = <<>>
      BY <2>2
    <3>2. ToSet(<<>>) = {}
      BY DEF ToSet
    <3> QED
      BY <2>2, <3>1, <3>2
  <2> QED
    BY <2>1, <2>2
<1>3. q \in Seq(Seq(S \cap T)) /\ DOMAIN q = DOMAIN s
  <2>1. \A i \in 1..Len(s) : q[i] \in Seq(S \cap T)
    BY <1>1, <1>2
  <2> QED
    BY <1>1, <2>1
<1>4. Kept(s, T) = FlattenSeq(q)
  BY DEF Kept
<1> HIDE DEF q
<1>5. FlattenSeq(q) \in Seq(S \cap T) /\ ToSet(FlattenSeq(q)) = UNION { ToSet(q[i]) : i \in DOMAIN q }
  BY <1>3, FlattenIs
<1>6. UNION { ToSet(q[i]) : i \in DOMAIN q } = ToSet(s) \cap T
  BY <1>2, <1>3 DEF ToSet
<1> QED
  BY <1>4, <1>5, <1>6

\* The lines of a written file.
WrittenType ==
    { l \in LineType : /\ l.kind \in {"header", "entry"} /\ l.closed
                       /\ l.kind = "entry" => l.inputs # <<>> }

\* A sequence of sequences, given by a function of the elements of s.
LEMMA JoinedIs ==
    ASSUME NEW S, NEW s \in Seq(S), NEW V, NEW q, q = [i \in DOMAIN s |-> q[i]],
           \A i \in DOMAIN s : q[i] \in Seq(V)
    PROVE  FlattenSeq(q) \in Seq(V)
<1>1. DOMAIN s = 1..Len(s) /\ Len(s) \in Nat
  OBVIOUS
<1>2. q \in [1..Len(s) -> Seq(V)]
  BY <1>1
<1>3. q \in Seq(Seq(V))
  BY <1>1, <1>2
<1> QED
  BY <1>3, FlattenIs

\* ConfigBase::to_config writes headers and entries.
LEMMA LineIs ==
    ASSUME NEW path \in Paths, NEW inputs \in Seq(Values)
    PROVE  /\ Line("header", path, inputs) \in WrittenType
           /\ path # <<>> /\ inputs # <<>> => Line("entry", path, inputs) \in WrittenType
  BY DEF Line, WrittenType, LineType, LineKinds, Quotes, Endings

LEMMA Written == <<Used>> \in Seq(Values) /\ <<Assumed>> \in Seq(Values)
<1>1. {Used, Assumed} \subseteq Values
  BY FileAssumption
<1> QED
  BY <1>1

\* The lines for an App, when those for its subcommands are such.
LEMMA LinesAre ==
    ASSUME NEW p, NEW a \in Apps, NEW prefix \in Paths, NEW below,
           \A s \in Below[a] : \A path \in Paths : below[s][path] \in Seq(WrittenType)
    PROVE  LinesOf(p, a, prefix, below) \in Seq(WrittenType)
<1> DEFINE N == { n \in Segments : <<a, n>> \notin Locked /\ (<<a, n>> \in p.given \/ p.mode # "Active") }
           names == Kept(OptionsOf[a], N)
           value(n) == IF <<a, n>> \in p.given THEN <<Used>> ELSE <<Assumed>>
           G == { s \in Apps : IsGroup(s) /\ ~Skipped(p, s) }
           M == { s \in Apps : ~IsGroup(s) /\ ~Skipped(p, s) }
           groups == Kept(SubsOf[a], G)
           named == Kept(SubsOf[a], M)
           lines(s) ==
               IF Sectioned(p, s)
               THEN <<Line("header", HeaderOf(a, s, prefix), <<>>)>> \o below[s][<<>>]
               ELSE below[s][Append(prefix, NameOf[s])]
           own == [i \in DOMAIN names |-> Line("entry", Append(prefix, names[i]), value(names[i]))]
           first == [i \in DOMAIN groups |-> below[groups[i]][prefix]]
           second == [i \in DOMAIN named |-> lines(named[i])]
<1>1. LinesOf(p, a, prefix, below) = own \o FlattenSeq(first) \o FlattenSeq(second)
  BY DEF LinesOf
<1>2. names \in Seq(Segments \cap N) /\ groups \in Seq(Apps \cap G) /\ named \in Seq(Apps \cap M)
  <2> HIDE DEF N, G, M
  <2> QED
    BY TreeTypes, KeptIs
<1>3. ToSet(groups) \subseteq Below[a] /\ ToSet(named) \subseteq Below[a]
  <2> HIDE DEF N, G, M
  <2>1. SubsOf[a] \in Seq(Apps)
    BY TreeTypes
  <2>2. ToSet(groups) = ToSet(SubsOf[a]) \cap G
    BY <2>1, KeptIs
  <2>3. ToSet(named) = ToSet(SubsOf[a]) \cap M
    BY <2>1, KeptIs
  <2> QED
    BY <2>2, <2>3 DEF Below
<1> HIDE DEF names, groups, named
<1>4. own \in Seq(WrittenType)
  <2>1. DOMAIN names = 1..Len(names) /\ Len(names) \in Nat /\ \A i \in DOMAIN names : names[i] \in Segments
    <3> HIDE DEF N
    <3>1. names \in Seq(Segments \cap N)
      BY <1>2
    <3>2. \A i \in DOMAIN names : names[i] \in Segments \cap N
      BY <3>1
    <3> QED
      BY <3>1, <3>2
  <2>2. ASSUME NEW i \in DOMAIN names
        PROVE  Line("entry", Append(prefix, names[i]), value(names[i])) \in WrittenType
    <3>1. Append(prefix, names[i]) \in Paths /\ Append(prefix, names[i]) # <<>>
      BY <2>1, PathsAre
    <3>2. value(names[i]) \in Seq(Values) /\ value(names[i]) # <<>>
      BY Written
    <3> HIDE DEF value
    <3> QED
      BY <3>1, <3>2, LineIs
  <2> HIDE DEF value
  <2> QED
    BY <2>1, <2>2
<1>5. FlattenSeq(first) \in Seq(WrittenType)
  <2>1. \A i \in DOMAIN groups : groups[i] \in Below[a]
    BY <1>3 DEF ToSet
  <2>2. \A i \in DOMAIN groups : first[i] \in Seq(WrittenType)
    BY <2>1
  <2>3. first = [i \in DOMAIN groups |-> first[i]]
    OBVIOUS
  <2> HIDE DEF first, G
  <2> QED
    BY <1>2, <2>2, <2>3, JoinedIs
<1>6. FlattenSeq(second) \in Seq(WrittenType)
  <2>1. \A i \in DOMAIN named : named[i] \in Below[a]
    BY <1>3 DEF ToSet
  <2>2. ASSUME NEW s \in Below[a] PROVE lines(s) \in Seq(WrittenType)
    <3>1. s \in Apps /\ NameOf[s] \in Segments \cup {""}
      BY TreeTypes DEF Below
    <3>2. Append(prefix, NameOf[s]) \in Paths /\ <<>> \in Paths
      BY <3>1, PathsAre
    <3>3. HeaderOf(a, s, prefix) \in Paths
      BY <3>1, <3>2, PathIs DEF HeaderOf
    <3>4. Line("header", HeaderOf(a, s, prefix), <<>>) \in WrittenType
      BY <3>3, LineIs, <<>> \in Seq(Values)
    <3>5. /\ below[s][<<>>] \in Seq(WrittenType)
          /\ below[s][Append(prefix, NameOf[s])] \in Seq(WrittenType)
      BY <3>2
    <3> DEFINE header == Line("header", HeaderOf(a, s, prefix), <<>>)
    <3> HIDE DEF header
    <3>6. <<header>> \o below[s][<<>>] \in Seq(WrittenType)
      BY <3>4, <3>5 DEF header
    <3> QED
      BY <3>5, <3>6 DEF header
  <2>3. \A i \in DOMAIN named : second[i] \in Seq(WrittenType)
    <3> HIDE DEF lines
    <3> QED BY <2>1, <2>2
  <2>4. second = [i \in DOMAIN named |-> second[i]]
    OBVIOUS
  <2> HIDE DEF second, M
  <2> QED
    BY <1>2, <2>3, <2>4, JoinedIs
<1> HIDE DEF own, first, second
<1> QED
  BY <1>1, <1>4, <1>5, <1>6

\* The lines for an App only depend on those for its subcommands.
LEMMA LinesLocal ==
    ASSUME NEW p, NEW a \in Apps, NEW prefix, NEW f, NEW g, \A s \in Below[a] : f[s] = g[s]
    PROVE  LinesOf(p, a, prefix, f) = LinesOf(p, a, prefix, g)
<1> DEFINE G == { s \in Apps : IsGroup(s) /\ ~Skipped(p, s) }
           M == { s \in Apps : ~IsGroup(s) /\ ~Skipped(p, s) }
           groups == Kept(SubsOf[a], G)
           named == Kept(SubsOf[a], M)
           lines(h, s) ==
               IF Sectioned(p, s)
               THEN <<Line("header", HeaderOf(a, s, prefix), <<>>)>> \o h[s][<<>>]
               ELSE h[s][Append(prefix, NameOf[s])]
           first(h) == [i \in DOMAIN groups |-> h[groups[i]][prefix]]
           second(h) == [i \in DOMAIN named |-> lines(h, named[i])]
<1>1. \A x \in {groups, named} : \A i \in DOMAIN x : x[i] \in Below[a]
  <2> HIDE DEF G, M
  <2>1. SubsOf[a] \in Seq(Apps)
    BY TreeTypes
  <2>2. ToSet(groups) = ToSet(SubsOf[a]) \cap G /\ ToSet(named) = ToSet(SubsOf[a]) \cap M
    BY <2>1, KeptIs
  <2> HIDE DEF groups, named
  <2> QED
    BY <2>2 DEF Below, ToSet
<1> HIDE DEF groups, named
<1>2. first(f) = first(g)
  BY <1>1
<1>3. second(f) = second(g)
  <2>1. \A s \in Below[a] : lines(f, s) = lines(g, s)
    OBVIOUS
  <2> HIDE DEF lines
  <2> QED
    BY <1>1, <2>1
<1> USE DEF groups, named
<1> QED
  BY ONLY <1>2, <1>3 DEF LinesOf, groups, named

\* ConfigBase::to_config writes a file that the reader can read.
LEMMA ToConfigIs == \A p : ToConfig(p) \in Seq(WrittenType)
<1> SUFFICES ASSUME NEW p PROVE ToConfig(p) \in Seq(WrittenType)
  OBVIOUS
<1> DEFINE W == Seq(WrittenType)
           V == [Paths -> W]
           value(f, a) == [prefix \in Paths |-> LinesOf(p, a, prefix, f)]
           F == [f \in [Apps -> V] |-> [a \in Apps |-> value(f, a)]]
<1>1. ASSUME NEW f, NEW a \in Apps, \A s \in Below[a] : f[s] \in V
      PROVE  value(f, a) \in V
  <2>1. \A s \in Below[a] : \A path \in Paths : f[s][path] \in W
    BY <1>1
  <2>2. \A prefix \in Paths : LinesOf(p, a, prefix, f) \in W
    BY <2>1, LinesAre
  <2> HIDE DEF W
  <2> QED
    BY <2>2
<1>2. F \in [[Apps -> V] -> [Apps -> V]]
  <2> SUFFICES ASSUME NEW f \in [Apps -> V], NEW a \in Apps PROVE value(f, a) \in V
    BY Zenon
  <2>1. \A y \in Below[a] : y \in Apps
    BY BelowWellFounded
  <2>2. \A y \in Below[a] : f[y] \in V
    <3> HIDE DEF V
    <3> QED BY <2>1
  <2> HIDE DEF value, V
  <2> QED
    BY <1>1, <2>2
<1>3. Local(Apps, Below, V, F)
  <2> SUFFICES ASSUME NEW f \in [Apps -> V], NEW g \in [Apps -> V], NEW a \in Apps,
                      \A y \in Below[a] : f[y] = g[y]
               PROVE  F[f][a] = F[g][a]
    BY DEF Local
  <2>1. \A prefix \in Paths : LinesOf(p, a, prefix, f) = LinesOf(p, a, prefix, g)
    <3> SUFFICES ASSUME NEW prefix \in Paths
                 PROVE  LinesOf(p, a, prefix, f) = LinesOf(p, a, prefix, g)
      OBVIOUS
    <3> QED
      BY LinesLocal
  <2>2. value(f, a) = value(g, a)
    BY <2>1
  <2>3. F[f][a] = value(f, a) /\ F[g][a] = value(g, a)
    <3> HIDE DEF V, value
    <3> QED OBVIOUS
  <2> QED
    BY ONLY <2>2, <2>3
<1>4. PICK f \in [Apps -> V] : f = F[f]
  <2>1. V # {}
    <3>1. [prefix \in Paths |-> <<>>] \in V
      OBVIOUS
    <3> QED BY <3>1
  <2> HIDE DEF V, F
  <2>2. Recursion(Apps, Below, V, F)
    BY <1>2, <1>3, <2>1, BelowWellFounded DEF Recursion
  <2> QED
    BY <2>2, RecursionSolved
<1> DEFINE toConfig == CHOOSE toConfig :
                 toConfig = [a \in Apps |-> [prefix \in Paths |-> LinesOf(p, a, prefix, toConfig)]]
<1>5. toConfig = [a \in Apps |-> value(toConfig, a)]
  <2>1. \E g : g = [a \in Apps |-> [prefix \in Paths |-> LinesOf(p, a, prefix, g)]]
    <3>1. f = [a \in Apps |-> value(f, a)]
      <4> HIDE DEF V, value
      <4> QED BY <1>4
    <3> QED
      BY <3>1, Zenon
  <2> QED
    BY ONLY <2>1
<1>6. ToConfig(p) = toConfig[Root][<<>>]
  BY DEF ToConfig
<1> HIDE DEF toConfig
<1>7. \A a \in Apps : toConfig[a] = value(toConfig, a)
  <2> HIDE DEF value
  <2> QED
    BY ONLY <1>5
<1> DEFINE Good == { a \in Apps : toConfig[a] \in V }
<1> HIDE DEF value, V
<1>8. \A a \in Apps : Below[a] \subseteq Good => a \in Good
  BY <1>1, <1>7
<1>9. Good = Apps
  <2> HIDE DEF Good
  <2>1. Good \in SUBSET Apps
    BY DEF Good
  <2> QED
    BY <1>8, <2>1, BelowWellFounded, InductionAlong
<1>10. toConfig[Root] \in V /\ <<>> \in Paths
  BY <1>9, TreeTypes, PathsAre
<1> HIDE DEF Good
<1> QED
  BY <1>6, <1>10 DEF V

-----------------------------------------------------------------------------
(* What the reader makes of headers.                                       *)

LEMMA PrefixIs ==
    ASSUME NEW p \in Paths, NEW n \in 0..Len(p)
    PROVE  /\ Prefix(p, n) \in Paths /\ Len(Prefix(p, n)) = n /\ Len(p) \in Nat
           /\ \A i \in 1..n : Prefix(p, n)[i] = p[i]
<1> DEFINE T == Segments \cup {""}
<1>1. Paths = Seq(T)
  BY DEF Paths
<1> HIDE DEF T
<1>2. p \in Seq(T) /\ Len(p) \in Nat /\ n \in Nat /\ n <= Len(p)
  BY <1>1
<1>3. SubSeq(p, 1, n) \in Seq(T) /\ Len(SubSeq(p, 1, n)) = n
  BY <1>2
<1>4. \A i \in 1..n : SubSeq(p, 1, n)[i] = p[i]
  BY <1>2
<1> QED
  BY <1>1, <1>2, <1>3, <1>4 DEF Prefix

\* Paths are equal when they have the same segments.
LEMMA SamePath ==
    ASSUME NEW p \in Paths, NEW q \in Paths, Len(p) = Len(q), \A i \in 1..Len(p) : p[i] = q[i]
    PROVE  p = q
  BY SeqEqual DEF Paths

\* Prefixes of prefixes, and the whole path.
LEMMA PrefixesAre ==
    ASSUME NEW p \in Paths
    PROVE  /\ Prefix(p, Len(p)) = p
           /\ \A n \in 0..Len(p) : \A k \in 0..n : Prefix(Prefix(p, n), k) = Prefix(p, k)
<1>0. Len(p) \in Nat
  BY PathsAre
<1>1. Prefix(p, Len(p)) = p
  <2>1. Len(p) \in 0..Len(p)
    BY <1>0
  <2>2. /\ Prefix(p, Len(p)) \in Paths /\ Len(Prefix(p, Len(p))) = Len(p)
        /\ \A i \in 1..Len(p) : Prefix(p, Len(p))[i] = p[i]
    BY <2>1, PrefixIs
  <2> QED
    BY <2>2, SamePath
<1>2. ASSUME NEW n \in 0..Len(p), NEW k \in 0..n PROVE Prefix(Prefix(p, n), k) = Prefix(p, k)
  <2>1. Prefix(p, n) \in Paths /\ Len(Prefix(p, n)) = n /\ \A i \in 1..n : Prefix(p, n)[i] = p[i]
    BY PrefixIs
  <2>2. k \in 0..Len(p) /\ k \in 0..Len(Prefix(p, n)) /\ k \in Nat
    BY <1>0, <2>1
  <2>3. /\ Prefix(p, k) \in Paths /\ Len(Prefix(p, k)) = k
        /\ \A i \in 1..k : Prefix(p, k)[i] = p[i]
    BY <2>2, PrefixIs
  <2>4. /\ Prefix(Prefix(p, n), k) \in Paths /\ Len(Prefix(Prefix(p, n), k)) = k
        /\ \A i \in 1..k : Prefix(Prefix(p, n), k)[i] = Prefix(p, n)[i]
    BY <2>1, <2>2, PrefixIs
  <2>5. \A i \in 1..k : Prefix(Prefix(p, n), k)[i] = Prefix(p, k)[i]
    BY <2>1, <2>3, <2>4
  <2> QED
    BY <2>3, <2>4, <2>5, SamePath
<1> QED
  BY <1>1, <1>2

\* The items that open and that close the section x.
Opening(x) == { it \in ItemType : it.name = "++" /\ it.parents = x }
Closing(x) == { it \in ItemType : it.name = "--" /\ it.parents = x }

\* Balance, of any items.
Bal(o, x) == Cardinality(PlacesOf(o, Opening(x))) - Cardinality(PlacesOf(o, Closing(x)))

LEMMA BalanceIs ==
    ASSUME output \in Seq(ItemType)
    PROVE  \A x : Balance(x) = Bal(output, x)
<1>1. \A i \in DOMAIN output : output[i] \in ItemType
  OBVIOUS
<1>2. \A x : { i \in DOMAIN output : output[i].name = "++" /\ output[i].parents = x } = PlacesOf(output, Opening(x))
  BY <1>1 DEF PlacesOf, Opening
<1>3. \A x : { i \in DOMAIN output : output[i].name = "--" /\ output[i].parents = x } = PlacesOf(output, Closing(x))
  BY <1>1 DEF PlacesOf, Closing
<1> QED
  BY <1>2, <1>3 DEF Balance, Bal

LEMMA BalJoined ==
    ASSUME NEW o \in Seq(ItemType), NEW t \in Seq(ItemType)
    PROVE  /\ o \o t \in Seq(ItemType)
           /\ \A x : Bal(o, x) \in Int /\ Bal(o \o t, x) = Bal(o, x) + Bal(t, x)
<1>1. o \o t \in Seq(ItemType)
  OBVIOUS
<1>2. \A T : /\ Cardinality(PlacesOf(o, T)) \in Nat /\ Cardinality(PlacesOf(t, T)) \in Nat
             /\ Cardinality(PlacesOf(o \o t, T)) = Cardinality(PlacesOf(o, T)) + Cardinality(PlacesOf(t, T))
  BY PlacesJoined
<1> QED
  BY <1>1, <1>2 DEF Bal

\* x is one of the first n prefixes of q.
Among(x, q, n) == x # <<>> /\ Len(x) <= n /\ x = Prefix(q, Len(x))

LEMMA SectionItems ==
    ASSUME NEW p \in Paths
    PROVE  /\ Opens(p) \in ItemType /\ Opens(p).name = "++" /\ Opens(p).parents = p
           /\ Closes(p) \in ItemType /\ Closes(p).name = "--" /\ Closes(p).parents = p
           /\ ~Opens(p).multiline /\ ~Closes(p).multiline
           /\ Opens(p).inputs = <<>> /\ Closes(p).inputs = <<>>
<1>1. Default \in Paths
  BY PathsAre DEF Default
<1> QED
  BY <1>1 DEF Opens, Closes, Entry, ItemType

\* OpensUp, item by item.
LEMMA OpensAre ==
    ASSUME NEW p \in Paths, NEW m \in Nat \ {0}, NEW n \in Nat, n <= Len(p)
    PROVE  /\ OpensUp(p, m, n) \in Seq(ItemType)
           /\ DOMAIN OpensUp(p, m, n) = 1..(IF m > n THEN 0 ELSE n - m + 1)
           /\ \A i \in DOMAIN OpensUp(p, m, n) :
                m + i - 1 \in m..n /\ OpensUp(p, m, n)[i] = Opens(Prefix(p, m + i - 1))
<1> DEFINE l == IF m > n THEN 0 ELSE n - m + 1
           s == [i \in 1..l |-> Opens(Prefix(p, m + i - 1))]
<1>1. OpensUp(p, m, n) = s
  BY DEF OpensUp
<1>0. Len(p) \in Nat
  BY PathsAre
<1>2. l \in Nat /\ \A i \in 1..l : m + i - 1 \in m..n /\ m + i - 1 \in 0..Len(p)
  BY <1>0
<1>3. \A i \in 1..l : s[i] \in ItemType
  BY <1>2, PrefixIs, SectionItems
<1>4. s \in Seq(ItemType) /\ DOMAIN s = 1..l
  <2> HIDE DEF l
  <2>1. s \in [1..l -> ItemType]
    BY <1>3
  <2> HIDE DEF s
  <2> QED
    BY <1>2, <2>1
<1> QED
  BY <1>1, <1>2, <1>4

LEMMA ClosesAre ==
    ASSUME NEW p \in Paths, NEW m \in Nat, NEW n \in Nat \ {0}, m <= Len(p)
    PROVE  /\ ClosesDown(p, m, n) \in Seq(ItemType)
           /\ DOMAIN ClosesDown(p, m, n) = 1..(IF n > m THEN 0 ELSE m - n + 1)
           /\ \A i \in DOMAIN ClosesDown(p, m, n) :
                m - i + 1 \in n..m /\ ClosesDown(p, m, n)[i] = Closes(Prefix(p, m - i + 1))
<1> DEFINE l == IF n > m THEN 0 ELSE m - n + 1
           s == [i \in 1..l |-> Closes(Prefix(p, m - i + 1))]
<1>1. ClosesDown(p, m, n) = s
  BY DEF ClosesDown
<1>0. Len(p) \in Nat
  BY PathsAre
<1>2. l \in Nat /\ \A i \in 1..l : m - i + 1 \in n..m /\ m - i + 1 \in 0..Len(p)
  BY <1>0
<1>3. \A i \in 1..l : s[i] \in ItemType
  BY <1>2, PrefixIs, SectionItems
<1>4. s \in Seq(ItemType) /\ DOMAIN s = 1..l
  <2> HIDE DEF l
  <2>1. s \in [1..l -> ItemType]
    BY <1>3
  <2> HIDE DEF s
  <2> QED
    BY <1>2, <2>1
<1> QED
  BY <1>1, <1>2, <1>4

LEMMA CountOne ==
    ASSUME NEW S, NEW k
    PROVE  /\ S = {} => Cardinality(S) = 0
           /\ S = {k} => Cardinality(S) = 1
  BY FS_EmptySet, FS_Singleton

\* What opening some prefixes adds to the balance.
LEMMA BalOpens ==
    ASSUME NEW p \in Paths, NEW m \in Nat \ {0}, NEW n \in Nat, n <= Len(p), NEW x \in Paths
    PROVE  Bal(OpensUp(p, m, n), x) = IF Among(x, p, n) /\ m <= Len(x) THEN 1 ELSE 0
<1> DEFINE s == OpensUp(p, m, n)
           k == Len(x) - m + 1
<1>1. /\ s \in Seq(ItemType) /\ DOMAIN s = 1..(IF m > n THEN 0 ELSE n - m + 1)
      /\ \A i \in DOMAIN s : m + i - 1 \in m..n /\ s[i] = Opens(Prefix(p, m + i - 1))
  BY OpensAre
<1> HIDE DEF s
<1>2. Len(x) \in Nat /\ Len(p) \in Nat
  BY PathsAre
<1>3. \A i \in DOMAIN s :
        /\ s[i] \in ItemType /\ s[i].name = "++"
        /\ s[i].parents = Prefix(p, m + i - 1) /\ Len(Prefix(p, m + i - 1)) = m + i - 1
  <2> SUFFICES ASSUME NEW i \in DOMAIN s
               PROVE  /\ s[i] \in ItemType /\ s[i].name = "++"
                      /\ s[i].parents = Prefix(p, m + i - 1) /\ Len(Prefix(p, m + i - 1)) = m + i - 1
    OBVIOUS
  <2>1. m + i - 1 \in 0..Len(p)
    BY <1>1, <1>2
  <2>2. Prefix(p, m + i - 1) \in Paths /\ Len(Prefix(p, m + i - 1)) = m + i - 1
    BY <2>1, PrefixIs
  <2> QED
    BY <1>1, <2>2, SectionItems
<1>4. PlacesOf(s, Closing(x)) = {}
  BY <1>3 DEF PlacesOf, Closing
<1>5. CASE Among(x, p, n) /\ m <= Len(x)
  <2>1. k \in DOMAIN s /\ m + k - 1 = Len(x)
    BY <1>1, <1>2, <1>5 DEF Among
  <2>2. s[k].parents = x
    BY <1>3, <1>5, <2>1 DEF Among
  <2>3. PlacesOf(s, Opening(x)) = {k}
    <3>1. k \in PlacesOf(s, Opening(x))
      BY <1>3, <2>1, <2>2 DEF PlacesOf, Opening
    <3>2. ASSUME NEW i \in PlacesOf(s, Opening(x)) PROVE i = k
      <4>1. i \in DOMAIN s /\ s[i].parents = x
        BY DEF PlacesOf, Opening
      <4>2. Len(x) = m + i - 1
        BY <1>3, <4>1
      <4> QED
        BY <1>1, <1>2, <4>1, <4>2
    <3> QED
      BY <3>1, <3>2
  <2>4. Cardinality(PlacesOf(s, Opening(x))) = 1 /\ Cardinality(PlacesOf(s, Closing(x))) = 0
    BY <1>4, <2>3, CountOne
  <2> QED
    BY <1>5, <2>4 DEF Bal, s
<1>6. CASE ~(Among(x, p, n) /\ m <= Len(x))
  <2>1. ASSUME NEW i \in PlacesOf(s, Opening(x)) PROVE FALSE
    <3>1. i \in DOMAIN s /\ s[i].parents = x
      BY DEF PlacesOf, Opening
    <3>2. Len(x) = m + i - 1 /\ x = Prefix(p, m + i - 1)
      BY <1>3, <3>1
    <3>3. Len(x) \in m..n /\ Len(x) > 0
      BY <1>1, <3>1, <3>2
    <3>4. x # <<>>
      BY <3>3
    <3> QED
      BY <1>6, <3>2, <3>3, <3>4 DEF Among
  <2>2. PlacesOf(s, Opening(x)) = {}
    BY <2>1
  <2>3. Cardinality(PlacesOf(s, Opening(x))) = 0 /\ Cardinality(PlacesOf(s, Closing(x))) = 0
    BY <1>4, <2>2, CountOne
  <2> QED
    BY <1>6, <2>3 DEF Bal, s
<1> QED
  BY <1>5, <1>6

LEMMA BalCloses ==
    ASSUME NEW p \in Paths, NEW m \in Nat, NEW n \in Nat \ {0}, m <= Len(p), NEW x \in Paths
    PROVE  Bal(ClosesDown(p, m, n), x) = IF Among(x, p, m) /\ n <= Len(x) THEN -1 ELSE 0
<1> DEFINE s == ClosesDown(p, m, n)
           k == m - Len(x) + 1
<1>1. /\ s \in Seq(ItemType) /\ DOMAIN s = 1..(IF n > m THEN 0 ELSE m - n + 1)
      /\ \A i \in DOMAIN s : m - i + 1 \in n..m /\ s[i] = Closes(Prefix(p, m - i + 1))
  BY ClosesAre
<1> HIDE DEF s
<1>2. Len(x) \in Nat /\ Len(p) \in Nat
  BY PathsAre
<1>3. \A i \in DOMAIN s :
        /\ s[i] \in ItemType /\ s[i].name = "--"
        /\ s[i].parents = Prefix(p, m - i + 1) /\ Len(Prefix(p, m - i + 1)) = m - i + 1
  <2> SUFFICES ASSUME NEW i \in DOMAIN s
               PROVE  /\ s[i] \in ItemType /\ s[i].name = "--"
                      /\ s[i].parents = Prefix(p, m - i + 1) /\ Len(Prefix(p, m - i + 1)) = m - i + 1
    OBVIOUS
  <2>1. m - i + 1 \in 0..Len(p)
    BY <1>1, <1>2
  <2>2. Prefix(p, m - i + 1) \in Paths /\ Len(Prefix(p, m - i + 1)) = m - i + 1
    BY <2>1, PrefixIs
  <2> QED
    BY <1>1, <2>2, SectionItems
<1>4. PlacesOf(s, Opening(x)) = {}
  BY <1>3 DEF PlacesOf, Opening
<1>5. CASE Among(x, p, m) /\ n <= Len(x)
  <2>1. k \in DOMAIN s /\ m - k + 1 = Len(x)
    BY <1>1, <1>2, <1>5 DEF Among
  <2>2. s[k].parents = x
    BY <1>3, <1>5, <2>1 DEF Among
  <2>3. PlacesOf(s, Closing(x)) = {k}
    <3>1. k \in PlacesOf(s, Closing(x))
      BY <1>3, <2>1, <2>2 DEF PlacesOf, Closing
    <3>2. ASSUME NEW i \in PlacesOf(s, Closing(x)) PROVE i = k
      <4>1. i \in DOMAIN s /\ s[i].parents = x
        BY DEF PlacesOf, Closing
      <4>2. Len(x) = m - i + 1
        BY <1>3, <4>1
      <4> QED
        BY <1>1, <1>2, <4>1, <4>2
    <3> QED
      BY <3>1, <3>2
  <2>4. Cardinality(PlacesOf(s, Opening(x))) = 0 /\ Cardinality(PlacesOf(s, Closing(x))) = 1
    BY <1>4, <2>3, CountOne
  <2> QED
    BY <1>5, <2>4 DEF Bal, s
<1>6. CASE ~(Among(x, p, m) /\ n <= Len(x))
  <2>1. ASSUME NEW i \in PlacesOf(s, Closing(x)) PROVE FALSE
    <3>1. i \in DOMAIN s /\ s[i].parents = x
      BY DEF PlacesOf, Closing
    <3>2. Len(x) = m - i + 1 /\ x = Prefix(p, m - i + 1)
      BY <1>3, <3>1
    <3>3. Len(x) \in n..m /\ Len(x) > 0
      BY <1>1, <3>1, <3>2
    <3>4. x # <<>>
      BY <3>3
    <3> QED
      BY <1>6, <3>2, <3>3, <3>4 DEF Among
  <2>2. PlacesOf(s, Closing(x)) = {}
    BY <2>1
  <2>3. Cardinality(PlacesOf(s, Opening(x))) = 0 /\ Cardinality(PlacesOf(s, Closing(x))) = 0
    BY <1>4, <2>2, CountOne
  <2> QED
    BY <1>6, <2>3 DEF Bal, s
<1> QED
  BY <1>5, <1>6

\* Openings and closings of sections.
Marks == { it \in ItemType : it.name \in {"++", "--"} /\ it.parents # <<>> /\ ~it.multiline /\ it.inputs = <<>> }

LEMMA MarksMade ==
    /\ \A p \in Paths : p # <<>> => Opens(p) \in Marks /\ Closes(p) \in Marks
    /\ \A p \in Paths, m \in Nat \ {0}, n \in Nat : n <= Len(p) => OpensUp(p, m, n) \in Seq(Marks)
    /\ \A p \in Paths, m \in Nat, n \in Nat \ {0} : m <= Len(p) => ClosesDown(p, m, n) \in Seq(Marks)
<1>1. ASSUME NEW p \in Paths, p # <<>> PROVE Opens(p) \in Marks /\ Closes(p) \in Marks
  BY <1>1, SectionItems DEF Marks
<1>2. ASSUME NEW p \in Paths, NEW n \in 1..Len(p) PROVE Prefix(p, n) \in Paths /\ Prefix(p, n) # <<>>
  <2>1. Len(p) \in Nat
    BY PathsAre
  <2>2. n \in 0..Len(p) /\ n # 0
    BY <2>1
  <2>3. Prefix(p, n) \in Paths /\ Len(Prefix(p, n)) = n
    BY <2>2, PrefixIs
  <2> QED
    BY <2>2, <2>3, PathsAre
<1>3. ASSUME NEW p \in Paths, NEW m \in Nat \ {0}, NEW n \in Nat, n <= Len(p)
      PROVE  OpensUp(p, m, n) \in Seq(Marks)
  <2> DEFINE s == OpensUp(p, m, n)
             l == IF m > n THEN 0 ELSE n - m + 1
  <2>1. /\ s \in Seq(ItemType) /\ DOMAIN s = 1..l
        /\ \A i \in DOMAIN s : m + i - 1 \in m..n /\ s[i] = Opens(Prefix(p, m + i - 1))
    BY <1>3, OpensAre
  <2>2. l \in Nat /\ Len(p) \in Nat
    <3>1. Len(p) \in Nat
      BY PathsAre
    <3> QED
      BY <3>1
  <2> HIDE DEF s, l
  <2>3. \A i \in DOMAIN s : s[i] \in Marks
    <3> SUFFICES ASSUME NEW i \in DOMAIN s PROVE s[i] \in Marks
      OBVIOUS
    <3>1. m + i - 1 \in 1..Len(p)
      BY <1>3, <2>1, <2>2
    <3> QED
      BY <1>1, <1>2, <2>1, <3>1
  <2>4. s \in Seq(Marks)
    BY <2>1, <2>2, <2>3
  <2> QED
    BY <2>4 DEF s
<1>4. ASSUME NEW p \in Paths, NEW m \in Nat, NEW n \in Nat \ {0}, m <= Len(p)
      PROVE  ClosesDown(p, m, n) \in Seq(Marks)
  <2> DEFINE s == ClosesDown(p, m, n)
             l == IF n > m THEN 0 ELSE m - n + 1
  <2>1. /\ s \in Seq(ItemType) /\ DOMAIN s = 1..l
        /\ \A i \in DOMAIN s : m - i + 1 \in n..m /\ s[i] = Closes(Prefix(p, m - i + 1))
    BY <1>4, ClosesAre
  <2>2. l \in Nat /\ Len(p) \in Nat
    <3>1. Len(p) \in Nat
      BY PathsAre
    <3> QED
      BY <3>1
  <2> HIDE DEF s, l
  <2>3. \A i \in DOMAIN s : s[i] \in Marks
    <3> SUFFICES ASSUME NEW i \in DOMAIN s PROVE s[i] \in Marks
      OBVIOUS
    <3>1. m - i + 1 \in 1..Len(p)
      BY <1>4, <2>1, <2>2
    <3> QED
      BY <1>1, <1>2, <2>1, <3>1
  <2>4. s \in Seq(Marks)
    BY <2>1, <2>2, <2>3
  <2> QED
    BY <2>4 DEF s
<1> QED
  BY <1>1, <1>3, <1>4

\* The first n prefixes of q are open; no section is closed that was not.
Held(o, q, n) == \A x \in Paths : Bal(o, x) >= IF Among(x, q, n) THEN 1 ELSE 0

\* They are open once, and no others are.
Once(o, q, n) == \A x \in Paths : Bal(o, x) = IF Among(x, q, n) THEN 1 ELSE 0

\* What was read in a section comes before its closing, if that is not open.
Enclosed(o, q, n) ==
    \A i \in DOMAIN o : o[i].name \notin {"++", "--"} /\ o[i].origin[1] # Default =>
        \/ Among(o[i].origin[1], q, n)
        \/ \E j \in DOMAIN o : j > i /\ o[j] \in Closing(o[i].origin[1])
Exact(o, q, n) == Once(o, q, n) /\ Enclosed(o, q, n)

LEMMA EnclosedJoined ==
    ASSUME NEW o \in Seq(ItemType), NEW s \in Seq(ItemType),
           \A i \in DOMAIN s : s[i].name \in {"++", "--"},
           NEW q, NEW n, NEW p, NEW m, Enclosed(o, q, n),
           \A x \in Paths : Among(x, q, n) => Among(x, p, m) \/ \E j \in DOMAIN s : s[j] \in Closing(x)
    PROVE  Enclosed(o \o s, p, m)
<1> DEFINE u == o \o s
<1>1. /\ Len(o) \in Nat /\ Len(s) \in Nat /\ DOMAIN u = 1..(Len(o) + Len(s))
      /\ \A i \in DOMAIN o : i \in DOMAIN u /\ u[i] = o[i]
      /\ \A i \in DOMAIN s : Len(o) + i \in DOMAIN u /\ u[Len(o) + i] = s[i]
  OBVIOUS
<1>2. \A i \in DOMAIN u : i \in DOMAIN o \/ (i - Len(o) \in DOMAIN s /\ Len(o) + (i - Len(o)) = i)
  BY <1>1
<1> HIDE DEF u
<1>3. SUFFICES ASSUME NEW i \in DOMAIN u, u[i].name \notin {"++", "--"}, u[i].origin[1] # Default
               PROVE  \/ Among(u[i].origin[1], p, m)
                      \/ \E j \in DOMAIN u : j > i /\ u[j] \in Closing(u[i].origin[1])
  BY DEF Enclosed, u
<1>4. i \in DOMAIN o /\ u[i] = o[i]
  <2>1. CASE i - Len(o) \in DOMAIN s /\ Len(o) + (i - Len(o)) = i
    <3>1. u[i] = s[i - Len(o)]
      BY <1>1, <2>1
    <3> QED
      BY <1>3, <2>1, <3>1
  <2> QED
    BY <1>1, <1>2, <2>1
<1>5. o[i].origin[1] \in Paths
  <2>1. o[i] \in ItemType
    BY <1>4
  <2> QED
    BY <2>1 DEF ItemType
<1>6. CASE Among(o[i].origin[1], q, n)
  <2>1. CASE Among(o[i].origin[1], p, m)
    BY <1>4, <2>1
  <2>2. CASE \E j \in DOMAIN s : s[j] \in Closing(o[i].origin[1])
    <3>1. PICK j \in DOMAIN s : s[j] \in Closing(o[i].origin[1])
      BY <2>2
    <3>2. Len(o) + j \in DOMAIN u /\ u[Len(o) + j] = s[j]
      BY <1>1
    <3>3. Len(o) + j > i
      BY <1>1, <1>4
    <3> QED
      BY <1>4, <3>1, <3>2, <3>3
  <2> QED
    BY <1>5, <1>6, <2>1, <2>2
<1>7. CASE \E j \in DOMAIN o : j > i /\ o[j] \in Closing(o[i].origin[1])
  BY <1>1, <1>4, <1>7
<1> QED
  BY <1>3, <1>4, <1>6, <1>7 DEF Enclosed

LEMMA ClosedTo ==
    ASSUME NEW o \in Seq(ItemType), NEW q \in Paths, NEW n \in 0..Len(q), NEW l \in 1..(n + 1)
    PROVE  /\ o \o ClosesDown(q, n, l) \in Seq(ItemType)
           /\ Held(o, q, n) => Held(o \o ClosesDown(q, n, l), q, l - 1)
           /\ Exact(o, q, n) => Exact(o \o ClosesDown(q, n, l), q, l - 1)
<1> DEFINE s == ClosesDown(q, n, l)
<1>0. Len(q) \in Nat
  BY PathsAre
<1>1. n \in Nat /\ n <= Len(q) /\ l \in Nat \ {0} /\ l <= n + 1
  BY <1>0
<1>2. s \in Seq(ItemType) /\ \A x \in Paths : Bal(s, x) = IF Among(x, q, n) /\ l <= Len(x) THEN -1 ELSE 0
  BY <1>1, ClosesAre, BalCloses
<1> HIDE DEF s
<1>3. /\ o \o s \in Seq(ItemType)
      /\ \A x \in Paths : Bal(o, x) \in Int /\ Bal(o \o s, x) = Bal(o, x) + Bal(s, x)
  BY <1>2, BalJoined
<1>4. \A x \in Paths : /\ Len(x) \in Nat
                       /\ Among(x, q, l - 1) <=> Among(x, q, n) /\ Len(x) < l
  <2> SUFFICES ASSUME NEW x \in Paths
               PROVE  Len(x) \in Nat /\ (Among(x, q, l - 1) <=> Among(x, q, n) /\ Len(x) < l)
    OBVIOUS
  <2>1. Len(x) \in Nat
    BY PathsAre
  <2>2. Len(x) <= l - 1 <=> Len(x) <= n /\ Len(x) < l
    BY <1>1, <2>1
  <2> QED
    BY <2>1, <2>2 DEF Among
<1>5. Held(o, q, n) => Held(o \o s, q, l - 1)
  BY <1>2, <1>3, <1>4 DEF Held
<1>6. Once(o, q, n) => Once(o \o s, q, l - 1)
  BY <1>2, <1>3, <1>4 DEF Once
<1>7. Enclosed(o, q, n) => Enclosed(o \o s, q, l - 1)
  <2> SUFFICES ASSUME Enclosed(o, q, n) PROVE Enclosed(o \o s, q, l - 1)
    OBVIOUS
  <2>1. /\ DOMAIN s = 1..(IF l > n THEN 0 ELSE n - l + 1)
        /\ \A i \in DOMAIN s : n - i + 1 \in l..n /\ s[i] = Closes(Prefix(q, n - i + 1))
    BY <1>1, ClosesAre DEF s
  <2>2. \A i \in DOMAIN s : s[i].name \in {"++", "--"}
    <3> SUFFICES ASSUME NEW i \in DOMAIN s PROVE s[i].name = "--"
      OBVIOUS
    <3>1. s[i] = Closes(Prefix(q, n - i + 1))
      BY <2>1
    <3> QED
      BY <3>1 DEF Closes, Entry
  <2>3. ASSUME NEW x \in Paths, Among(x, q, n), ~Among(x, q, l - 1)
        PROVE  \E j \in DOMAIN s : s[j] \in Closing(x)
    <3> DEFINE j == n - Len(x) + 1
    <3>1. Len(x) \in l..n /\ x = Prefix(q, Len(x))
      BY <1>1, <1>4, <2>3 DEF Among
    <3>2. j \in DOMAIN s /\ n - j + 1 = Len(x)
      BY <1>1, <2>1, <3>1
    <3> HIDE DEF j
    <3>3. s[j] = Closes(x)
      BY <2>1, <3>1, <3>2
    <3>4. Closes(x) \in Closing(x)
      BY SectionItems DEF Closing
    <3> QED
      BY <3>2, <3>3, <3>4
  <2> QED
    BY <1>2, <2>2, <2>3, EnclosedJoined
<1> QED
  BY <1>3, <1>5, <1>6, <1>7 DEF s, Exact

LEMMA OpenedFrom ==
    ASSUME NEW o \in Seq(ItemType), NEW q \in Paths, NEW p \in Paths,
           NEW n \in 0..Len(p), NEW k \in 0..n, k <= Len(q), Prefix(q, k) = Prefix(p, k)
    PROVE  /\ o \o OpensUp(p, k + 1, n) \in Seq(ItemType)
           /\ Held(o, q, k) => Held(o \o OpensUp(p, k + 1, n), p, n)
           /\ Exact(o, q, k) => Exact(o \o OpensUp(p, k + 1, n), p, n)
<1> DEFINE s == OpensUp(p, k + 1, n)
<1>0. Len(q) \in Nat /\ Len(p) \in Nat
  BY PathsAre
<1>1. Len(q) \in Nat /\ Len(p) \in Nat /\ n \in Nat /\ n <= Len(p) /\ k \in Nat /\ k <= n
  BY <1>0
<1>2. s \in Seq(ItemType) /\ \A x \in Paths : Bal(s, x) = IF Among(x, p, n) /\ k + 1 <= Len(x) THEN 1 ELSE 0
  BY <1>1, OpensAre, BalOpens
<1> HIDE DEF s
<1>3. /\ o \o s \in Seq(ItemType)
      /\ \A x \in Paths : Bal(o, x) \in Int /\ Bal(o \o s, x) = Bal(o, x) + Bal(s, x)
  BY <1>2, BalJoined
<1>4. \A j \in 0..k : Prefix(q, j) = Prefix(p, j)
  <2> SUFFICES ASSUME NEW j \in 0..k PROVE Prefix(q, j) = Prefix(p, j)
    OBVIOUS
  <2>1. k \in 0..Len(q) /\ k \in 0..Len(p)
    BY <1>1
  <2>2. Prefix(Prefix(q, k), j) = Prefix(q, j) /\ Prefix(Prefix(p, k), j) = Prefix(p, j)
    BY <2>1, PrefixesAre
  <2> QED
    BY <2>2
<1>5. \A x \in Paths : /\ Len(x) \in Nat
                       /\ Among(x, q, k) <=> Among(x, p, n) /\ Len(x) <= k
  <2> SUFFICES ASSUME NEW x \in Paths
               PROVE  Len(x) \in Nat /\ (Among(x, q, k) <=> Among(x, p, n) /\ Len(x) <= k)
    OBVIOUS
  <2>1. Len(x) \in Nat
    BY PathsAre
  <2>2. Len(x) <= k => Prefix(q, Len(x)) = Prefix(p, Len(x))
    BY <1>1, <1>4, <2>1
  <2> QED
    BY <1>1, <2>1, <2>2 DEF Among
<1>6. Held(o, q, k) => Held(o \o s, p, n)
  BY <1>1, <1>2, <1>3, <1>5 DEF Held
<1>7. Once(o, q, k) => Once(o \o s, p, n)
  BY <1>1, <1>2, <1>3, <1>5 DEF Once
<1>8. Enclosed(o, q, k) => Enclosed(o \o s, p, n)
  <2>1. \A i \in DOMAIN s : s[i] = Opens(Prefix(p, (k + 1) + i - 1))
    BY <1>1, OpensAre DEF s
  <2>2. \A i \in DOMAIN s : s[i].name \in {"++", "--"}
    BY <2>1 DEF Opens, Entry
  <2> QED
    BY <1>2, <1>5, <2>2, EnclosedJoined
<1> QED
  BY <1>3, <1>6, <1>7, <1>8 DEF s, Exact

\* A sequence without its last element.
LEMMA FrontIs ==
    ASSUME NEW S, NEW o \in Seq(S), o # <<>>
    PROVE  Front(o) \in Seq(S) /\ Last(o) \in S /\ o = Front(o) \o <<Last(o)>>
<1> DEFINE s == Front(o)
           it == Last(o)
<1>1. Len(o) \in Nat \ {0}
  OBVIOUS
<1>2. s \in Seq(S) /\ it \in S /\ o = s \o <<it>>
  <2>1. Len(o) - 1 \in 0..Len(o) /\ Len(o) \in DOMAIN o
    BY <1>1
  <2>2. s \in Seq(S) /\ Len(s) = Len(o) - 1 /\ \A i \in 1..(Len(o) - 1) : s[i] = o[i]
    <3> DEFINE n == Len(o) - 1
    <3>1. 1 \in Int /\ n \in Int /\ \A i \in 1..n : o[i] \in S
      BY <1>1
    <3> HIDE DEF n
    <3>2. /\ SubSeq(o, 1, n) \in Seq(S)
          /\ Len(SubSeq(o, 1, n)) = IF 1 <= n THEN n - 1 + 1 ELSE 0
          /\ \A i \in 1..(n - 1 + 1) : SubSeq(o, 1, n)[i] = o[1 + i - 1]
      BY <3>1, SubSeqProperties
    <3>3. n - 1 + 1 = n /\ \A i \in 1..n : 1 + i - 1 = i
      BY <3>1
    <3>4. n >= 0
      BY <1>1 DEF n
    <3>5. Len(SubSeq(o, 1, n)) = n
      BY <3>1, <3>2, <3>4
    <3>6. \A i \in 1..n : SubSeq(o, 1, n)[i] = o[i]
      BY <3>2, <3>3
    <3> USE DEF n
    <3> QED
      BY <3>2, <3>5, <3>6 DEF Front
  <2>3. it \in S /\ it = o[Len(o)]
    BY <2>1 DEF Last
  <2> HIDE DEF s, it
  <2>4. Len(s \o <<it>>) = Len(o) /\ s \o <<it>> \in Seq(S)
    BY <1>1, <2>2, <2>3
  <2>5. \A i \in 1..Len(o) : (s \o <<it>>)[i] = o[i]
    BY <1>1, <2>2, <2>3
  <2>6. o = s \o <<it>>
    BY <2>4, <2>5, SeqEqual
  <2> QED
    BY <2>2, <2>3, <2>6
<1> QED
  BY <1>2

\* A closing that is taken back.
LEMMA Reopened ==
    ASSUME NEW o \in Seq(ItemType), o # <<>>, NEW q \in Paths, NEW m \in 1..Len(q),
           Last(o).name = "--", Last(o).parents = Prefix(q, m)
    PROVE  /\ Front(o) \in Seq(ItemType)
           /\ Held(o, q, m - 1) => Held(Front(o), q, m)
           /\ Exact(o, q, m - 1) => Exact(Front(o), q, m)
<1> DEFINE s == Front(o)
           it == Last(o)
<1>0. Len(q) \in Nat
  BY PathsAre
<1>1. Len(o) \in Nat \ {0} /\ Len(q) \in Nat
  BY <1>0
<1>2. s \in Seq(ItemType) /\ it \in ItemType /\ o = s \o <<it>>
  BY FrontIs
<1>3. it.name = "--" /\ it.parents = Prefix(q, m)
  OBVIOUS
<1> HIDE DEF s, it
<1>4. /\ <<it>> \in Seq(ItemType)
      /\ \A x \in Paths : Bal(s, x) \in Int /\ Bal(o, x) = Bal(s, x) + Bal(<<it>>, x)
  <2>1. <<it>> \in Seq(ItemType)
    BY <1>2
  <2>2. \A x : Bal(s, x) \in Int /\ Bal(s \o <<it>>, x) = Bal(s, x) + Bal(<<it>>, x)
    BY <1>2, <2>1, BalJoined
  <2> QED
    BY <1>2, <2>1, <2>2
<1>5. m \in 0..Len(q) /\ Prefix(q, m) \in Paths /\ Len(Prefix(q, m)) = m
  <2>1. m \in 0..Len(q)
    BY <1>1
  <2> QED
    BY <2>1, PrefixIs
<1>6. \A x \in Paths : Bal(<<it>>, x) = IF x = Prefix(q, m) THEN -1 ELSE 0
  <2> SUFFICES ASSUME NEW x \in Paths PROVE Bal(<<it>>, x) = IF x = Prefix(q, m) THEN -1 ELSE 0
    OBVIOUS
  <2>1. DOMAIN <<it>> = {1} /\ <<it>>[1] = it
    OBVIOUS
  <2>2. PlacesOf(<<it>>, Opening(x)) = {}
    BY <1>3, <2>1 DEF PlacesOf, Opening
  <2>3. CASE x = Prefix(q, m)
    <3>1. PlacesOf(<<it>>, Closing(x)) = {1}
      BY <1>2, <1>3, <2>1, <2>3 DEF PlacesOf, Closing
    <3>2. /\ Cardinality(PlacesOf(<<it>>, Opening(x))) = 0
          /\ Cardinality(PlacesOf(<<it>>, Closing(x))) = 1
      BY <2>2, <3>1, CountOne
    <3> QED
      BY <2>3, <3>2 DEF Bal
  <2>4. CASE x # Prefix(q, m)
    <3>1. PlacesOf(<<it>>, Closing(x)) = {}
      BY <1>3, <2>1, <2>4 DEF PlacesOf, Closing
    <3>2. /\ Cardinality(PlacesOf(<<it>>, Opening(x))) = 0
          /\ Cardinality(PlacesOf(<<it>>, Closing(x))) = 0
      BY <2>2, <3>1, CountOne
    <3> QED
      BY <2>4, <3>2 DEF Bal
  <2> QED
    BY <2>3, <2>4
<1>7. \A x \in Paths : /\ Len(x) \in Nat
                       /\ Among(x, q, m) <=> Among(x, q, m - 1) \/ x = Prefix(q, m)
                       /\ ~(Among(x, q, m - 1) /\ x = Prefix(q, m))
  <2> SUFFICES ASSUME NEW x \in Paths
               PROVE  /\ Len(x) \in Nat
                      /\ Among(x, q, m) <=> Among(x, q, m - 1) \/ x = Prefix(q, m)
                      /\ ~(Among(x, q, m - 1) /\ x = Prefix(q, m))
    OBVIOUS
  <2>1. Len(x) \in Nat /\ (Len(x) = 0 <=> x = <<>>)
    BY PathsAre
  <2>2. CASE x = Prefix(q, m)
    <3>1. Len(x) = m /\ x # <<>>
      BY <1>1, <1>5, <2>1, <2>2
    <3> QED
      BY <2>1, <2>2, <3>1 DEF Among
  <2>3. CASE x # Prefix(q, m)
    <3>1. Len(x) <= m /\ Len(x) # m => Len(x) <= m - 1
      BY <1>1, <2>1
    <3> QED
      BY <1>1, <2>1, <2>3, <3>1 DEF Among
  <2> QED
    BY <2>2, <2>3
<1>8. Held(o, q, m - 1) => Held(s, q, m)
  BY <1>4, <1>6, <1>7 DEF Held
<1>9. Once(o, q, m - 1) => Once(s, q, m)
  BY <1>4, <1>6, <1>7 DEF Once
<1>10. Enclosed(o, q, m - 1) => Enclosed(s, q, m)
  <2> SUFFICES ASSUME Enclosed(o, q, m - 1),
                      NEW i \in DOMAIN s, s[i].name \notin {"++", "--"}, s[i].origin[1] # Default,
                      ~Among(s[i].origin[1], q, m)
               PROVE  \E j \in DOMAIN s : j > i /\ s[j] \in Closing(s[i].origin[1])
    BY DEF Enclosed
  <2>1. /\ Len(s) \in Nat /\ DOMAIN s = 1..Len(s) /\ DOMAIN o = 1..(Len(s) + 1)
        /\ \A j \in DOMAIN s : o[j] = s[j]
        /\ o[Len(s) + 1] = it
    BY <1>2
  <2>2. i \in DOMAIN o /\ o[i] = s[i] /\ s[i] \in ItemType /\ s[i].origin[1] \in Paths
    <3>1. s[i] \in ItemType
      BY <1>2
    <3>2. s[i].origin[1] \in Paths
      BY <3>1 DEF ItemType
    <3> QED
      BY <2>1, <3>1, <3>2
  <2>3. PICK j \in DOMAIN o : j > i /\ o[j] \in Closing(s[i].origin[1])
    BY <1>7, <2>2 DEF Enclosed
  <2>4. j # Len(s) + 1
    <3> SUFFICES ASSUME it \in Closing(s[i].origin[1]) PROVE FALSE
      BY <2>1, <2>3
    <3>1. s[i].origin[1] = Prefix(q, m)
      BY <1>3 DEF Closing
    <3> QED
      BY <1>7, <2>2, <3>1
  <2>5. j \in DOMAIN s /\ o[j] = s[j]
    BY <2>1, <2>4
  <2> QED
    BY <2>3, <2>5
<1> QED
  BY <1>2, <1>8, <1>9, <1>10 DEF s, Exact

\* The longest common prefix is common.
LEMMA CommonIs ==
    ASSUME NEW q \in Paths, NEW p \in Paths, NEW m \in 0..Len(q), m <= Len(p)
    PROVE  Common(q, p, m) \in 0..m /\ Prefix(q, Common(q, p, m)) = Prefix(p, Common(q, p, m))
<1>0. Len(p) \in Nat /\ Len(q) \in Nat /\ m \in Nat
  <2>1. Len(p) \in Nat /\ Len(q) \in Nat
    BY PathsAre
  <2> QED
    BY <2>1
<1> DEFINE T == { k \in 0..m : k = m \/ p[k + 1] # q[k + 1] }
<1>1. T \in SUBSET Nat /\ m \in T
  BY <1>0
<1>2. PICK k \in T : \A j \in T : k <= j
  BY <1>1, NatMinimum
<1>3. k \in 0..m /\ k \in 0..Len(p) /\ k \in 0..Len(q) /\ (k = m \/ p[k + 1] # q[k + 1])
  BY <1>0, <1>2
<1>4. \A i \in 1..k : q[i] = p[i]
  <2> SUFFICES ASSUME NEW i \in 1..k PROVE q[i] = p[i]
    OBVIOUS
  <2>1. i - 1 \in 0..m /\ i - 1 # m /\ ~(k <= i - 1) /\ i - 1 + 1 = i
    BY <1>0, <1>3
  <2>2. i - 1 \notin T
    BY <1>2, <2>1
  <2> QED
    BY <2>1, <2>2
<1>5. /\ Prefix(q, k) \in Paths /\ Len(Prefix(q, k)) = k /\ \A i \in 1..k : Prefix(q, k)[i] = q[i]
      /\ Prefix(p, k) \in Paths /\ Len(Prefix(p, k)) = k /\ \A i \in 1..k : Prefix(p, k)[i] = p[i]
  BY <1>3, PrefixIs
<1>6. Prefix(q, k) = Prefix(p, k)
  BY <1>4, <1>5, SamePath
<1> HIDE DEF T
<1> QED
  BY <1>3, <1>6 DEF Common

LEMMA LastJoined ==
    ASSUME NEW S, NEW s \in Seq(S), NEW t \in Seq(S), t # <<>>
    PROVE  s \o t # <<>> /\ Last(s \o t) = Last(t) /\ t[Len(t)] \in S
<1>1. Len(s \o t) = Len(s) + Len(t) /\ Len(t) \in Nat \ {0} /\ Len(s) \in Nat
  OBVIOUS
<1>2. (s \o t)[Len(s) + Len(t)] = t[Len(t)]
  BY <1>1
<1>3. s \o t # <<>>
  BY <1>1
<1>4. t[Len(t)] \in S
  BY <1>1
<1> QED
  BY <1>1, <1>2, <1>3, <1>4 DEF Last

LEMMA LastOpened ==
    ASSUME NEW o \in Seq(ItemType), NEW p \in Paths, NEW k \in 1..Len(p)
    PROVE  LET u == o \o OpensUp(p, k, Len(p)) IN u # <<>> /\ Last(u).name = "++"
<1> DEFINE t == OpensUp(p, k, Len(p))
<1>0. Len(p) \in Nat
  BY PathsAre
<1>1. k \in Nat \ {0} /\ Len(p) - k + 1 \in Nat \ {0} /\ ~(k > Len(p))
  BY <1>0
<1>2. /\ t \in Seq(ItemType) /\ DOMAIN t = 1..(Len(p) - k + 1)
      /\ \A i \in DOMAIN t : k + i - 1 \in k..Len(p) /\ t[i] = Opens(Prefix(p, k + i - 1))
  <2>1. Len(p) <= Len(p)
    BY <1>0
  <2>2. /\ t \in Seq(ItemType) /\ DOMAIN t = 1..(IF k > Len(p) THEN 0 ELSE Len(p) - k + 1)
        /\ \A i \in DOMAIN t : k + i - 1 \in k..Len(p) /\ t[i] = Opens(Prefix(p, k + i - 1))
    BY <1>0, <1>1, <2>1, OpensAre
  <2> HIDE DEF t
  <2> QED
    BY <1>1, <2>2
<1> HIDE DEF t
<1>3. t # <<>> /\ Len(t) \in DOMAIN t
  BY <1>1, <1>2
<1>4. Last(t) = Opens(Prefix(p, k + Len(t) - 1))
  BY <1>2, <1>3 DEF Last
<1>5. Last(o \o t) = Last(t) /\ o \o t # <<>>
  BY <1>2, <1>3, LastJoined
<1>6. Last(t).name = "++"
  BY <1>4 DEF Opens, Entry
<1> QED
  BY <1>5, <1>6 DEF t

LEMMA LastClosed ==
    ASSUME NEW o \in Seq(ItemType), NEW q \in Paths, NEW n \in 0..Len(q), NEW l \in 1..n
    PROVE  LET u == o \o ClosesDown(q, n, l)
           IN  u # <<>> /\ Last(u).name = "--" /\ Last(u).parents = Prefix(q, l)
<1> DEFINE t == ClosesDown(q, n, l)
<1>0. Len(q) \in Nat
  BY PathsAre
<1>1. n \in Nat /\ l \in Nat \ {0} /\ n - l + 1 \in Nat \ {0} /\ ~(l > n) /\ n <= Len(q)
  BY <1>0
<1>2. /\ t \in Seq(ItemType) /\ DOMAIN t = 1..(n - l + 1)
      /\ \A i \in DOMAIN t : n - i + 1 \in l..n /\ t[i] = Closes(Prefix(q, n - i + 1))
  BY <1>1, ClosesAre
<1> HIDE DEF t
<1>3. t # <<>> /\ Len(t) = n - l + 1 /\ Len(t) \in DOMAIN t
  <2>1. Len(t) \in Nat /\ DOMAIN t = 1..Len(t)
    BY <1>2
  <2>2. Len(t) = n - l + 1
    <3>1. n - l + 1 \in 1..Len(t)
      BY <1>1, <1>2, <2>1
    <3>2. Len(t) \in 1..(n - l + 1)
      BY <1>1, <1>2, <2>1, <3>1
    <3> QED
      BY <1>1, <2>1, <3>1, <3>2
  <2> QED
    BY <1>1, <2>1, <2>2
<1>4. Last(t) = Closes(Prefix(q, l))
  <2>1. n - Len(t) + 1 = l
    BY <1>1, <1>3
  <2> QED
    BY <1>2, <1>3, <2>1 DEF Last
<1>5. Last(o \o t) = Last(t) /\ o \o t # <<>>
  BY <1>2, <1>3, LastJoined
<1>6. Last(t).name = "--" /\ Last(t).parents = Prefix(q, l)
  BY <1>4 DEF Closes, Entry
<1> QED
  BY <1>5, <1>6 DEF t

\* The last section has been closed, but not those around it.
Pending(o) == o # <<>> /\ Last(o).name = "--"

\* detail::checkParentSegments, first after anything but a closing.
LEMMA OpenedAfterEntry ==
    ASSUME NEW o \in Seq(ItemType), NEW p \in Paths, p # <<>>, ~Pending(o)
    PROVE  LET u == SectionOpened(o, p)
           IN  /\ u \in Seq(ItemType) /\ u # <<>> /\ Last(u).name = "++"
               /\ Held(o, Default, 0) => Held(u, p, Len(p))
               /\ Exact(o, Default, 0) => Exact(u, p, Len(p))
<1>1. Len(p) \in Nat \ {0} /\ Default \in Paths /\ Len(Default) = 0
  <2>1. Len(p) \in Nat /\ Len(p) # 0
    BY PathsAre
  <2> QED
    BY <2>1, PathsAre DEF Default
<1>2. SectionOpened(o, p) = o \o OpensUp(p, 1, Len(p))
  BY DEF SectionOpened, Pending
<1>3. 0 \in 0..Len(p) /\ Len(p) \in 0..Len(p) /\ 1 \in 1..Len(p) /\ 0 <= Len(Default)
  BY <1>1
<1>4. Prefix(Default, 0) = Prefix(p, 0)
  <2>1. 0 \in 0..Len(Default)
    BY <1>1
  <2>2. /\ Prefix(Default, 0) \in Paths /\ Len(Prefix(Default, 0)) = 0
        /\ Prefix(p, 0) \in Paths /\ Len(Prefix(p, 0)) = 0
    BY <1>1, <1>3, <2>1, PrefixIs
  <2> QED
    BY <2>2, PathsAre
<1>5. /\ o \o OpensUp(p, 0 + 1, Len(p)) \in Seq(ItemType)
      /\ Held(o, Default, 0) => Held(o \o OpensUp(p, 0 + 1, Len(p)), p, Len(p))
      /\ Exact(o, Default, 0) => Exact(o \o OpensUp(p, 0 + 1, Len(p)), p, Len(p))
  BY <1>1, <1>3, <1>4, OpenedFrom
<1>6. 0 + 1 = 1
  OBVIOUS
<1> QED
  BY <1>2, <1>3, <1>5, <1>6, LastOpened

\* Then after a closing: what is around the closed section is closed up to
\* what it shares with the new one.
LEMMA OpenedAfterClosing ==
    ASSUME NEW o \in Seq(ItemType), NEW p \in Paths, p # <<>>, Pending(o),
           NEW q \in Paths, q = Last(o).parents, q # <<>>
    PROVE  LET u == SectionOpened(o, p)
           IN  /\ u \in Seq(ItemType) /\ u # <<>> /\ Last(u).name = "++"
               /\ Held(o, q, Len(q) - 1) => Held(u, p, Len(p))
               /\ Exact(o, q, Len(q) - 1) => Exact(u, p, Len(p))
<1> DEFINE n == Len(p)
           level == IF n > 1 THEN n ELSE 2
           m == IF Len(q) >= level THEN level - 1 ELSE Len(q)
           up == o \o ClosesDown(q, Len(q) - 1, level - 1)
           k == Common(q, p, IF m > n - 1 THEN n - 1 ELSE m)
           shared == IF k = m THEN Front(up) ELSE up \o ClosesDown(q, m - 1, k + 1)
<1>1. n \in Nat \ {0} /\ Len(q) \in Nat \ {0}
  <2>1. Len(p) \in Nat /\ Len(p) # 0 /\ Len(q) \in Nat /\ Len(q) # 0
    BY PathsAre
  <2> QED
    BY <2>1
<1>2. /\ SectionOpened(o, p) = IF n = 1 THEN up \o <<Opens(p)>> ELSE shared \o OpensUp(p, k + 1, n)
      /\ o # <<>> /\ Last(o).name = "--"
  BY DEF SectionOpened, Pending
<1> DEFINE u == SectionOpened(o, p)
           Good(v, w, i) == /\ v \in Seq(ItemType)
                            /\ Held(o, q, Len(q) - 1) => Held(v, w, i)
                            /\ Exact(o, q, Len(q) - 1) => Exact(v, w, i)
<1>3. level \in Nat /\ level >= 2 /\ level - 1 \in Nat \ {0} /\ m \in 1..Len(q) /\ m <= level - 1
  <2>1. level \in Nat /\ level >= 2 /\ level - 1 \in Nat \ {0} /\ level - 1 >= 1
    <3> HIDE DEF n
    <3> QED
      BY <1>1
  <2> HIDE DEF n, level
  <2>2. CASE Len(q) >= level
    BY <1>1, <2>1, <2>2
  <2>3. CASE ~(Len(q) >= level)
    BY <1>1, <2>1, <2>3
  <2> QED
    BY <2>1, <2>2, <2>3
<1>4. Good(up, q, m - 1) /\ up # <<>> /\ Last(up).name = "--" /\ Last(up).parents = Prefix(q, m)
  <2>1. CASE Len(q) >= level
    <3>1. /\ Len(q) - 1 \in 0..Len(q) /\ level - 1 \in 1..(Len(q) - 1) /\ m = level - 1
          /\ level - 1 \in 1..(Len(q) - 1 + 1)
      BY <1>1, <1>3, <2>1
    <3>2. /\ up \in Seq(ItemType)
          /\ Held(o, q, Len(q) - 1) => Held(up, q, level - 1 - 1)
          /\ Exact(o, q, Len(q) - 1) => Exact(up, q, level - 1 - 1)
      BY <3>1, ClosedTo
    <3>3. up # <<>> /\ Last(up).name = "--" /\ Last(up).parents = Prefix(q, level - 1)
      BY <3>1, LastClosed
    <3> HIDE DEF up, m
    <3> QED
      BY <3>1, <3>2, <3>3
  <2>2. CASE Len(q) < level
    <3>1. m = Len(q) /\ level - 1 > Len(q) - 1
      BY <1>1, <1>3, <2>2
    <3>2. ClosesDown(q, Len(q) - 1, level - 1) = <<>>
      BY <3>1 DEF ClosesDown
    <3>3. up = o
      BY <3>2
    <3>4. Prefix(q, Len(q)) = q
      BY PrefixesAre
    <3> HIDE DEF up, m
    <3> QED
      BY <1>2, <3>1, <3>3, <3>4
  <2> QED
    BY <1>1, <1>3, <2>1, <2>2
<1> HIDE DEF up
<1>5. CASE n = 1
  <2>1. m = 1 /\ m - 1 = 0
    <3>1. level = 2
      <4> HIDE DEF n
      <4> QED
        BY <1>5
    <3> HIDE DEF n, level, m
    <3> QED
      BY <1>1, <1>3, <3>1
  <2>2. <<Opens(p)>> = OpensUp(p, 0 + 1, n)
    <3>1. OpensUp(p, 1, 1) = [i \in 1..1 |-> Opens(Prefix(p, 1 + i - 1))]
      BY DEF OpensUp
    <3>2. Opens(Prefix(p, 1)) = Opens(p)
      BY <1>5, PrefixesAre
    <3>3. [i \in 1..1 |-> Opens(Prefix(p, 1 + i - 1))] = <<Opens(p)>>
      <4>1. \A i \in 1..1 : Prefix(p, 1 + i - 1) = Prefix(p, 1)
        OBVIOUS
      <4> QED
        BY <3>2, <4>1
    <3> QED
      BY <1>5, <3>1, <3>3
  <2>3. 0 \in 0..n /\ n \in 0..Len(p) /\ 0 <= Len(q) /\ 0 \in 0..Len(q) /\ 0 \in 0..Len(p)
    BY <1>1
  <2>4. Prefix(q, 0) = Prefix(p, 0)
    <3>1. /\ Prefix(q, 0) \in Paths /\ Len(Prefix(q, 0)) = 0
          /\ Prefix(p, 0) \in Paths /\ Len(Prefix(p, 0)) = 0
      BY <2>3, PrefixIs
    <3> QED
      BY <3>1, PathsAre
  <2> HIDE DEF n, m
  <2>5. /\ up \o OpensUp(p, 0 + 1, n) \in Seq(ItemType)
        /\ Held(up, q, 0) => Held(up \o OpensUp(p, 0 + 1, n), p, n)
        /\ Exact(up, q, 0) => Exact(up \o OpensUp(p, 0 + 1, n), p, n)
    BY <1>4, <2>3, <2>4, OpenedFrom
  <2>6. u = up \o OpensUp(p, 0 + 1, n)
    BY <1>2, <1>5, <2>2
  <2>7. u # <<>> /\ Last(u).name = "++"
    <3>1. 1 \in 1..Len(p)
      BY <1>1 DEF n
    <3>2. u = up \o OpensUp(p, 1, Len(p))
      BY <2>6 DEF n
    <3> HIDE DEF u
    <3> QED
      BY <1>4, <3>1, <3>2, LastOpened
  <2> HIDE DEF u
  <2> QED
    BY <1>4, <2>1, <2>5, <2>6, <2>7 DEF u, n
<1>6. CASE n # 1
  <2>1. level = n /\ n > 1 /\ m <= n - 1 /\ (IF m > n - 1 THEN n - 1 ELSE m) = m
    <3>1. level = n /\ n > 1
      <4> HIDE DEF n
      <4> QED
        BY <1>1, <1>6
    <3> HIDE DEF n, level, m
    <3> QED
      BY <1>1, <1>3, <3>1
  <2> HIDE DEF n, m
  <2>2. k \in 0..m /\ Prefix(q, k) = Prefix(p, k)
    <3>1. k = Common(q, p, m)
      BY <2>1
    <3>2. m \in 0..Len(q) /\ m <= n
      BY <1>1, <1>3, <2>1
    <3>3. m <= Len(p)
      BY <3>2 DEF n
    <3> QED
      BY <3>1, <3>2, <3>3, CommonIs
  <2> HIDE DEF k
  <2>3. Good(shared, q, k)
    <3>1. CASE k = m
      <4>1. shared = Front(up)
        BY <3>1
      <4>2. /\ Front(up) \in Seq(ItemType)
            /\ Held(up, q, m - 1) => Held(Front(up), q, m)
            /\ Exact(up, q, m - 1) => Exact(Front(up), q, m)
        BY <1>3, <1>4, Reopened
      <4> QED
        BY <1>4, <3>1, <4>1, <4>2
    <3>2. CASE k # m
      <4>1. m - 1 \in 0..Len(q) /\ k + 1 \in 1..(m - 1 + 1) /\ (k + 1) - 1 = k
        BY <1>1, <1>3, <2>2, <3>2
      <4>2. shared = up \o ClosesDown(q, m - 1, k + 1)
        BY <3>2
      <4>3. /\ up \o ClosesDown(q, m - 1, k + 1) \in Seq(ItemType)
            /\ Held(up, q, m - 1) => Held(up \o ClosesDown(q, m - 1, k + 1), q, (k + 1) - 1)
            /\ Exact(up, q, m - 1) => Exact(up \o ClosesDown(q, m - 1, k + 1), q, (k + 1) - 1)
        <5>1. up \in Seq(ItemType)
          BY <1>4
        <5> DEFINE i == m - 1
                   j == k + 1
        <5>2. i \in 0..Len(q) /\ j \in 1..(i + 1)
          BY <4>1
        <5> HIDE DEF Good, shared, i, j
        <5>3. /\ up \o ClosesDown(q, i, j) \in Seq(ItemType)
              /\ Held(up, q, i) => Held(up \o ClosesDown(q, i, j), q, j - 1)
              /\ Exact(up, q, i) => Exact(up \o ClosesDown(q, i, j), q, j - 1)
          BY <5>1, <5>2, ClosedTo
        <5> QED
          BY <5>3 DEF i, j
      <4> HIDE DEF shared
      <4> QED
        BY <1>4, <4>1, <4>2, <4>3
    <3> QED
      BY <3>1, <3>2
  <2> HIDE DEF shared
  <2>4. k \in 0..n /\ n \in 0..Len(p) /\ k <= Len(q) /\ k + 1 \in 1..Len(p)
    <3>1. k \in 0..n /\ n \in 0..n /\ k <= Len(q) /\ k + 1 \in 1..n
      BY <1>1, <1>3, <2>1, <2>2
    <3> QED
      BY <3>1 DEF n
  <2>5. /\ shared \o OpensUp(p, k + 1, n) \in Seq(ItemType)
        /\ Held(shared, q, k) => Held(shared \o OpensUp(p, k + 1, n), p, n)
        /\ Exact(shared, q, k) => Exact(shared \o OpensUp(p, k + 1, n), p, n)
    BY <2>2, <2>3, <2>4, OpenedFrom
  <2>6. u = shared \o OpensUp(p, k + 1, n)
    BY <1>2, <1>6
  <2> HIDE DEF u
  <2>7. u # <<>> /\ Last(u).name = "++"
    <3>1. u = shared \o OpensUp(p, k + 1, Len(p))
      BY <2>6 DEF n
    <3> QED
      BY <2>3, <2>4, <3>1, LastOpened
  <2> QED
    BY <2>3, <2>5, <2>6, <2>7 DEF u, n
<1> QED
  BY <1>5, <1>6

\* Where nothing is open it does not matter of which path.
LEMMA NoneOpen ==
    ASSUME NEW o \in Seq(ItemType), NEW q, NEW r, NEW n
    PROVE  /\ Held(o, q, n) => Held(o, r, 0)
           /\ Exact(o, q, 0) => Exact(o, r, 0)
<1>1. \A x \in Paths : ~Among(x, q, 0) /\ ~Among(x, r, 0)
  <2> SUFFICES ASSUME NEW x \in Paths, Len(x) <= 0 PROVE x = <<>>
    BY DEF Among
  <2>1. Len(x) \in Nat /\ (Len(x) = 0 <=> x = <<>>)
    BY PathsAre
  <2> QED
    BY <2>1
<1>2. \A x \in Paths : Bal(o, x) \in Int
  <2>1. <<>> \in Seq(ItemType)
    OBVIOUS
  <2> QED
    BY <2>1, BalJoined
<1>3. Held(o, q, n) => Held(o, r, 0)
  <2> SUFFICES ASSUME Held(o, q, n), NEW x \in Paths PROVE Bal(o, x) >= 0
    BY <1>1 DEF Held
  <2>1. Bal(o, x) >= 1 \/ Bal(o, x) >= 0
    BY DEF Held
  <2> QED
    BY <1>2, <2>1
<1>4. Once(o, q, 0) => Once(o, r, 0)
  BY <1>1 DEF Once
<1>5. Enclosed(o, q, 0) => Enclosed(o, r, 0)
  <2>1. \A i \in DOMAIN o : o[i].origin[1] \in Paths
    <3> SUFFICES ASSUME NEW i \in DOMAIN o PROVE o[i].origin[1] \in Paths
      OBVIOUS
    <3>1. o[i] \in ItemType
      OBVIOUS
    <3> QED
      BY <3>1 DEF ItemType
  <2> QED
    BY <1>1, <2>1 DEF Enclosed
<1> QED
  BY <1>3, <1>4, <1>5 DEF Exact

\* A new header closes the section before it.
LEMMA SectionIsLeft ==
    ASSUME NEW o \in Seq(ItemType), NEW s \in Paths, s # <<>>
    PROVE  LET u == Append(o, Closes(s))
           IN  /\ u \in Seq(ItemType) /\ Pending(u) /\ Last(u).parents = s
               /\ Held(o, s, Len(s)) => Held(u, s, Len(s) - 1)
               /\ Exact(o, s, Len(s)) => Exact(u, s, Len(s) - 1)
<1> DEFINE n == Len(s)
           u == Append(o, Closes(s))
<1>1. n \in Nat \ {0}
  <2>1. Len(s) \in Nat /\ Len(s) # 0
    BY PathsAre
  <2> QED
    BY <2>1
<1>2. n \in 0..Len(s) /\ n \in 1..(n + 1) /\ n \in 1..n
  <2>1. n \in 0..n /\ n \in 1..(n + 1) /\ n \in 1..n
    <3> HIDE DEF n
    <3> QED
      BY <1>1
  <2> QED
    BY <2>1
<1>3. Prefix(s, n) = s
  BY PrefixesAre
<1>4. Closes(s) \in ItemType
  BY SectionItems
<1> HIDE DEF n
<1>5. ClosesDown(s, n, n) = <<Closes(s)>>
  <2>1. (IF n > n THEN 0 ELSE n - n + 1) = 1
    BY <1>1
  <2>2. ClosesDown(s, n, n) = [i \in 1..1 |-> Closes(Prefix(s, n - i + 1))]
    BY <2>1 DEF ClosesDown
  <2>3. \A i \in 1..1 : n - i + 1 = n
    BY <1>1
  <2>4. [i \in 1..1 |-> Closes(Prefix(s, n - i + 1))] = [i \in 1..1 |-> Closes(s)]
    BY <1>3, <2>3
  <2>5. [i \in 1..1 |-> Closes(s)] = <<Closes(s)>>
    OBVIOUS
  <2> QED
    BY <2>2, <2>4, <2>5
<1>6. u = o \o ClosesDown(s, n, n)
  BY <1>4, <1>5
<1>7. /\ o \o ClosesDown(s, n, n) \in Seq(ItemType)
      /\ Held(o, s, n) => Held(o \o ClosesDown(s, n, n), s, n - 1)
      /\ Exact(o, s, n) => Exact(o \o ClosesDown(s, n, n), s, n - 1)
  BY <1>2, ClosedTo
<1>8. /\ o \o ClosesDown(s, n, n) # <<>> /\ Last(o \o ClosesDown(s, n, n)).name = "--"
      /\ Last(o \o ClosesDown(s, n, n)).parents = Prefix(s, n)
  BY <1>2, LastClosed
<1> HIDE DEF u
<1> QED
  BY <1>3, <1>6, <1>7, <1>8 DEF u, n, Pending

\* How the items o nest while the section s is read: the sections that s is in
\* are open; after a closing only [default] is, and what is around the closed
\* section is still open.  stray is the exception of SectionsNest.
Nested(o, s, stray) ==
    /\ Held(o, s, Len(s)) /\ (~stray => Exact(o, s, Len(s)))
    /\ Pending(o) =>
        /\ s = Default /\ Last(o).parents \in Paths \ {<<>>}
        /\ Held(o, Last(o).parents, Len(Last(o).parents) - 1)
        /\ ~stray => Len(Last(o).parents) = 1
Unnested(o, stray) == Held(o, Default, 0) /\ (~stray => Exact(o, Default, 0))

LEMMA LengthOfDefault == Len(Default) = 0 /\ Default \in Paths
  BY PathsAre DEF Default

LEMMA OpenedNests ==
    ASSUME NEW o \in Seq(ItemType), NEW p \in Paths, p # Default, NEW stray \in BOOLEAN,
           Nested(o, Default, stray)
    PROVE  SectionOpened(o, p) \in Seq(ItemType) /\ Nested(SectionOpened(o, p), p, stray)
<1> DEFINE u == SectionOpened(o, p)
           q == Last(o).parents
<1>0. p # <<>>
  BY DEF Default
<1>1. Held(o, Default, 0) /\ (~stray => Exact(o, Default, 0))
  BY LengthOfDefault DEF Nested
<1>2. CASE ~Pending(o)
  <2>1. /\ u \in Seq(ItemType) /\ u # <<>> /\ Last(u).name = "++"
        /\ Held(o, Default, 0) => Held(u, p, Len(p))
        /\ Exact(o, Default, 0) => Exact(u, p, Len(p))
    BY <1>0, <1>2, OpenedAfterEntry
  <2> HIDE DEF u
  <2> QED
    BY <1>1, <2>1 DEF u, Nested, Pending
<1>3. CASE Pending(o)
  <2>1. q \in Paths /\ q # <<>> /\ Held(o, q, Len(q) - 1) /\ (~stray => Len(q) = 1)
    BY <1>3 DEF Nested
  <2> HIDE DEF q
  <2>2. /\ u \in Seq(ItemType) /\ u # <<>> /\ Last(u).name = "++"
        /\ Held(o, q, Len(q) - 1) => Held(u, p, Len(p))
        /\ Exact(o, q, Len(q) - 1) => Exact(u, p, Len(p))
    BY <1>0, <1>3, <2>1, OpenedAfterClosing DEF q
  <2>3. ~stray => Exact(o, q, Len(q) - 1)
    <3>1. Exact(o, Default, 0) => Exact(o, q, 0)
      BY NoneOpen
    <3>2. Len(q) = 1 => Len(q) - 1 = 0
      OBVIOUS
    <3> QED
      BY <1>1, <2>1, <3>1, <3>2
  <2> HIDE DEF u
  <2> QED
    BY <2>1, <2>2, <2>3 DEF u, Nested, Pending
<1> QED
  BY <1>2, <1>3

LEMMA HeaderNests ==
    ASSUME NEW o \in Seq(ItemType), NEW s \in Paths, NEW p \in Paths, NEW stray \in BOOLEAN,
           Nested(o, s, stray)
    PROVE  /\ Headed(o, s, p) \in Seq(ItemType)
           /\ Nested(Headed(o, s, p), p, stray \/ (p = Default /\ Len(s) > 1))
<1> DEFINE u == Append(o, Closes(s))
<1>1. CASE s = Default
  <2>1. SectionLeft(o, s) = o
    BY <1>1 DEF SectionLeft
  <2>2. CASE p = Default
    <3>1. Headed(o, s, p) = o
      BY <2>1, <2>2 DEF Headed
    <3>2. ~(Len(s) > 1)
      BY <1>1, LengthOfDefault
    <3> QED
      BY <1>1, <2>2, <3>1, <3>2
  <2>3. CASE p # Default
    <3>1. Headed(o, s, p) = SectionOpened(o, p)
      BY <2>1, <2>3 DEF Headed
    <3> QED
      BY <1>1, <2>3, <3>1, OpenedNests
  <2> QED
    BY <2>2, <2>3
<1>2. CASE s # Default
  <2>1. SectionLeft(o, s) = u
    BY <1>2 DEF SectionLeft
  <2>2. s # <<>> /\ Len(s) \in Nat \ {0}
    <3>1. s # <<>>
      BY <1>2 DEF Default
    <3>2. Len(s) \in Nat /\ Len(s) # 0
      BY <3>1, PathsAre
    <3> QED
      BY <3>1, <3>2
  <2>3. /\ u \in Seq(ItemType) /\ Pending(u) /\ Last(u).parents = s
        /\ Held(o, s, Len(s)) => Held(u, s, Len(s) - 1)
        /\ Exact(o, s, Len(s)) => Exact(u, s, Len(s) - 1)
    BY <2>2, SectionIsLeft
  <2> HIDE DEF u
  <2>4. Held(u, s, Len(s) - 1) /\ (~stray => Exact(u, s, Len(s) - 1))
    BY <2>3 DEF Nested
  <2>5. CASE p = Default
    <3> DEFINE t == stray \/ (p = Default /\ Len(s) > 1)
    <3>1. Headed(o, s, p) = u
      BY <2>1, <2>5 DEF Headed
    <3>2. ~t => ~stray /\ Len(s) = 1 /\ Len(s) - 1 = 0
      <4>0. \A n \in Nat \ {0} : ~(n > 1) => n = 1 /\ n - 1 = 0
        OBVIOUS
      <4>1. ~(Len(s) > 1) => Len(s) = 1 /\ Len(s) - 1 = 0
        BY <2>2, <4>0
      <4> QED
        BY <2>5, <4>1
    <3>3. Held(u, Default, 0)
      BY <2>3, <2>4, NoneOpen
    <3>4. ~t => Exact(u, Default, 0)
      <4>1. Exact(u, s, 0) => Exact(u, Default, 0)
        BY <2>3, NoneOpen
      <4> QED
        BY <2>4, <3>2, <4>1
    <3> HIDE DEF t
    <3>5. Nested(u, p, t)
      BY <2>2, <2>3, <2>4, <2>5, <3>2, <3>3, <3>4, LengthOfDefault DEF Nested
    <3> QED
      BY <2>3, <3>1, <3>5 DEF t
  <2>6. CASE p # Default
    <3>1. Headed(o, s, p) = SectionOpened(u, p)
      BY <2>1, <2>6 DEF Headed
    <3> DEFINE v == SectionOpened(u, p)
    <3>2. /\ v \in Seq(ItemType) /\ v # <<>> /\ Last(v).name = "++"
          /\ Held(u, s, Len(s) - 1) => Held(v, p, Len(p))
          /\ Exact(u, s, Len(s) - 1) => Exact(v, p, Len(p))
      <4>1. p # <<>>
        BY <2>6 DEF Default
      <4> QED
        BY <2>2, <2>3, <4>1, OpenedAfterClosing
    <3> HIDE DEF v
    <3>3. Nested(v, p, stray)
      BY <2>4, <3>2 DEF Nested, Pending
    <3>4. (stray \/ (p = Default /\ Len(s) > 1)) = stray
      BY <2>6
    <3> QED
      BY <3>1, <3>2, <3>3, <3>4 DEF v
  <2> QED
    BY <2>5, <2>6
<1> QED
  BY <1>1, <1>2

LEMMA EndNests ==
    ASSUME NEW o \in Seq(ItemType), NEW s \in Paths, NEW stray \in BOOLEAN, Nested(o, s, stray)
    PROVE  SectionsEnded(o, s) \in Seq(ItemType) /\ Unnested(SectionsEnded(o, s), stray)
<1>1. CASE s = Default
  BY <1>1, LengthOfDefault DEF SectionsEnded, Nested, Unnested
<1>2. CASE s # Default
  <2> DEFINE u == o \o ClosesDown(s, Len(s), 1)
  <2>1. SectionsEnded(o, s) = u
    BY <1>2 DEF SectionsEnded
  <2>2. Len(s) \in 0..Len(s) /\ 1 \in 1..(Len(s) + 1) /\ 1 - 1 = 0
    <3>1. Len(s) \in Nat
      BY PathsAre
    <3> QED
      BY <3>1
  <2>3. /\ u \in Seq(ItemType)
        /\ Held(o, s, Len(s)) => Held(u, s, 1 - 1)
        /\ Exact(o, s, Len(s)) => Exact(u, s, 1 - 1)
    BY <2>2, ClosedTo
  <2> HIDE DEF u
  <2>4. Held(u, s, 0) /\ (~stray => Exact(u, s, 0))
    BY <2>2, <2>3 DEF Nested
  <2>5. /\ Held(u, s, 0) => Held(u, Default, 0)
        /\ Exact(u, s, 0) => Exact(u, Default, 0)
    BY <2>3, NoneOpen
  <2> QED
    BY <2>1, <2>3, <2>4, <2>5 DEF Unnested
<1> QED
  BY <1>1, <1>2

-----------------------------------------------------------------------------
(* The items.                                                              *)

\* Sections are not opened or closed without a name, only what has several
\* lines holds a separator, and nothing holds separators alone.
Readable ==
    { it \in ItemType :
        /\ it.name \in {"++", "--"} => it.parents # <<>>
        /\ it.multiline \/ Separator \notin ToSet(it.inputs)
        /\ it.inputs = <<>> \/ ToSet(it.inputs) \cap Values # {} }

LEMMA MarksReadable == Marks \subseteq Readable
<1>1. ToSet(<<>>) = {}
  BY DEF ToSet
<1> QED
  BY <1>1 DEF Marks, Readable

\* The items that the reader may have in all: any set of them that has every
\* opening and closing.
LEMMA OpenedItems ==
    ASSUME NEW G, Marks \subseteq G, G \subseteq Readable,
           NEW o \in Seq(G), NEW p \in Paths, p # <<>>
    PROVE  SectionOpened(o, p) \in Seq(G)
<1> DEFINE n == Len(p)
           q == Last(o).parents
           level == IF n > 1 THEN n ELSE 2
           m == IF Len(q) >= level THEN level - 1 ELSE Len(q)
           up == o \o ClosesDown(q, Len(q) - 1, level - 1)
           k == Common(q, p, IF m > n - 1 THEN n - 1 ELSE m)
           shared == IF k = m THEN Front(up) ELSE up \o ClosesDown(q, m - 1, k + 1)
<1>0. /\ \A s, t : s \in Seq(G) /\ t \in Seq(Marks) => s \o t \in Seq(G)
      /\ n \in Nat \ {0} /\ n <= Len(p)
  <2>1. \A t : t \in Seq(Marks) => t \in Seq(G)
    OBVIOUS
  <2>2. Len(p) \in Nat /\ Len(p) # 0
    BY PathsAre
  <2> QED
    BY <2>1, <2>2
<1>1. CASE ~Pending(o)
  <2>1. SectionOpened(o, p) = o \o OpensUp(p, 1, n)
    BY <1>1 DEF SectionOpened, Pending
  <2>2. 1 \in Nat \ {0} /\ n \in Nat /\ n <= Len(p)
    BY <1>0
  <2> HIDE DEF n
  <2>3. OpensUp(p, 1, n) \in Seq(Marks)
    BY <2>2, MarksMade
  <2> QED
    BY <1>0, <2>1, <2>3
<1>2. CASE Pending(o)
  <2>1. SectionOpened(o, p) = IF n = 1 THEN up \o <<Opens(p)>> ELSE shared \o OpensUp(p, k + 1, n)
    BY <1>2 DEF SectionOpened, Pending
  <2>2. o # <<>> /\ q \in Paths /\ q # <<>>
    <3>1. o # <<>> /\ Last(o).name = "--"
      BY <1>2 DEF Pending
    <3>2. Last(o) \in Readable
      BY <3>1, FrontIs
    <3> QED
      BY <3>1, <3>2 DEF Readable, ItemType
  <2> HIDE DEF q
  <2>3. Len(q) \in Nat \ {0} /\ Len(q) - 1 \in Nat /\ Len(q) - 1 <= Len(q)
    <3>1. Len(q) \in Nat /\ Len(q) # 0
      BY <2>2, PathsAre
    <3> QED
      BY <3>1
  <2> HIDE DEF n
  <2>4. level \in Nat /\ level - 1 \in Nat \ {0}
    BY <1>0
  <2> HIDE DEF level
  <2>5. ClosesDown(q, Len(q) - 1, level - 1) \in Seq(Marks)
    BY <2>2, <2>3, <2>4, MarksMade
  <2>6. up \in Seq(G) /\ up # <<>>
    <3> DEFINE t == ClosesDown(q, Len(q) - 1, level - 1)
    <3>1. t \in Seq(Marks)
      BY <2>5
    <3> HIDE DEF t
    <3>2. o \o t \in Seq(G)
      BY <1>0, <3>1
    <3>3. o \o t # <<>>
      BY <2>2, <3>1
    <3> QED
      BY <3>2, <3>3 DEF t
  <2> HIDE DEF up
  <2>7. CASE n = 1
    <3>1. <<Opens(p)>> \in Seq(Marks)
      BY MarksMade
    <3> QED
      BY <1>0, <2>1, <2>6, <2>7, <3>1
  <2>8. CASE n # 1
    <3>1. m \in 1..Len(q) /\ m <= n - 1 /\ (IF m > n - 1 THEN n - 1 ELSE m) = m
      <4>1. level = n /\ n - 1 \in Nat \ {0}
        BY <1>0, <2>8 DEF level
      <4>2. CASE Len(q) >= n
        BY <1>0, <2>3, <4>1, <4>2
      <4>3. CASE ~(Len(q) >= n)
        BY <1>0, <2>3, <4>1, <4>3
      <4> QED
        BY <4>2, <4>3
    <3> HIDE DEF m
    <3>2. k \in 0..m
      <4>1. k = Common(q, p, m)
        BY <3>1
      <4>2. m \in 0..Len(q) /\ m <= n
        BY <1>0, <2>3, <3>1
      <4>3. m <= Len(p)
        BY <4>2 DEF n
      <4> QED
        BY <2>2, <4>1, <4>2, <4>3, CommonIs
    <3> HIDE DEF k
    <3>3. shared \in Seq(G)
      <4>1. CASE k = m
        BY <2>6, <4>1, FrontIs
      <4>2. CASE k # m
        <5>1. m - 1 \in Nat /\ k + 1 \in Nat \ {0} /\ m - 1 <= Len(q)
          BY <2>3, <3>1, <3>2
        <5>2. ClosesDown(q, m - 1, k + 1) \in Seq(Marks)
          BY <2>2, <5>1, MarksMade
        <5> QED
          BY <1>0, <2>6, <4>2, <5>2
      <4> QED
        BY <4>1, <4>2
    <3> HIDE DEF shared
    <3>4. OpensUp(p, k + 1, n) \in Seq(Marks)
      <4>1. k + 1 \in Nat \ {0} /\ n \in Nat
        BY <1>0, <3>1, <3>2
      <4> QED
        BY <1>0, <4>1, MarksMade
    <3> QED
      BY <1>0, <2>1, <2>8, <3>3, <3>4
  <2> QED
    BY <2>7, <2>8
<1> QED
  BY <1>1, <1>2

LEMMA HeaderItems ==
    ASSUME NEW G, Marks \subseteq G, G \subseteq Readable, NEW o \in Seq(G), NEW s \in Paths
    PROVE  /\ \A p \in Paths : Headed(o, s, p) \in Seq(G)
           /\ SectionsEnded(o, s) \in Seq(G)
<1>1. SectionLeft(o, s) \in Seq(G)
  <2>1. CASE s = Default
    BY <2>1 DEF SectionLeft
  <2>2. CASE s # Default
    <3>1. Closes(s) \in G
      BY <2>2, MarksMade DEF Default
    <3>2. Append(o, Closes(s)) \in Seq(G)
      BY <3>1
    <3> QED
      BY <2>2, <3>2 DEF SectionLeft
  <2> QED
    BY <2>1, <2>2
<1>2. ASSUME NEW p \in Paths PROVE Headed(o, s, p) \in Seq(G)
  <2>1. CASE p = Default
    BY <1>1, <2>1 DEF Headed
  <2>2. CASE p # Default
    <3>1. SectionOpened(SectionLeft(o, s), p) \in Seq(G)
      BY <1>1, <2>2, OpenedItems DEF Default
    <3> QED
      BY <2>2, <3>1 DEF Headed
  <2> QED
    BY <2>1, <2>2
<1>3. SectionsEnded(o, s) \in Seq(G)
  <2>1. CASE s = Default
    BY <2>1 DEF SectionsEnded
  <2>2. CASE s # Default
    <3>1. Len(s) \in Nat /\ 1 \in Nat \ {0} /\ Len(s) <= Len(s)
      <4>1. Len(s) \in Nat
        BY PathsAre
      <4> QED
        BY <4>1
    <3>2. ClosesDown(s, Len(s), 1) \in Seq(Marks)
      BY <3>1, MarksMade
    <3> DEFINE t == ClosesDown(s, Len(s), 1)
    <3>3. SectionsEnded(o, s) = o \o t
      BY <2>2 DEF SectionsEnded
    <3>4. t \in Seq(Marks)
      BY <3>2
    <3> HIDE DEF t
    <3>5. t \in Seq(G)
      BY <3>4
    <3> QED
      BY <3>3, <3>5
  <2> QED
    BY <2>1, <2>2
<1> QED
  BY <1>2, <1>3

\* An entry is a new item, or adds arguments to one of its name: in the place
\* of i there is then another item of the same name, parents and origin.
Lengthens(u, o, i, it) ==
    /\ i \in DOMAIN o /\ it \in Readable /\ u = [o EXCEPT ![i] = it]
    /\ it.name = o[i].name /\ it.parents = o[i].parents /\ it.origin = o[i].origin

LEMMA LastFound ==
    ASSUME NEW n \in Nat, NEW T \in SUBSET (1..n), T # {}
    PROVE  (CHOOSE j \in T : \A k \in T : k <= j) \in T
<1> DEFINE U == { n - j : j \in T }
<1>0. \A j \in T : n - j \in Nat
  OBVIOUS
<1>1. U \in SUBSET Nat /\ U # {}
  BY <1>0
<1>2. PICK x \in U : \A y \in U : x <= y
  BY <1>1, NatMinimum
<1>3. PICK j \in T : x = n - j
  OBVIOUS
<1>4. \A k \in T : n - k \in U /\ k \in 1..n /\ j \in 1..n
  OBVIOUS
<1> HIDE DEF U
<1>5. \A k \in T : k <= j
  BY <1>2, <1>3, <1>4
<1> QED
  BY <1>5

\* Arguments without separators.
LEMMA ArgumentsAre ==
    ASSUME NEW inputs \in Seq(Values)
    PROVE  /\ inputs \in Seq(Values \cup {Separator}) /\ <<Separator>> \in Seq(Values \cup {Separator})
           /\ Separator \notin ToSet(inputs)
           /\ inputs = <<>> \/ ToSet(inputs) \cap Values # {}
<1> DEFINE S == Values \cup {Separator}
<1>1. Values \subseteq S /\ Separator \in S
  OBVIOUS
<1> HIDE DEF S
<1>2. \A i \in DOMAIN inputs : inputs[i] \in Values
  OBVIOUS
<1>3. Separator \notin Values
  BY ReaderAssumption
<1>4. Separator \notin ToSet(inputs)
  BY <1>2, <1>3 DEF ToSet
<1>5. inputs \in Seq(S) /\ <<Separator>> \in Seq(S)
  BY <1>1
<1>6. ASSUME inputs # <<>> PROVE ToSet(inputs) \cap Values # {}
  <2>1. 1 \in DOMAIN inputs
    BY <1>6
  <2> QED
    BY <1>2, <2>1 DEF ToSet
<1> QED
  BY <1>4, <1>5, <1>6 DEF S

\* What an entry may be called.
EntryNames == Segments \cup {""}

LEMMA AddedIs ==
    ASSUME NEW o \in Seq(Readable), NEW parents \in Paths, NEW name \in EntryNames,
           NEW inputs \in Seq(Values), NEW origin \in Paths \X Nat, NEW all \in BOOLEAN,
           all => inputs # <<>>
    PROVE  LET u == Added(o, parents, name, inputs, origin, all)
               e == Entry(parents, name, inputs, origin)
           IN  /\ e \in Readable /\ e.name = name /\ e.origin = origin
               /\ name \notin {"++", "--"}
               /\ u = Append(o, e) \/ \E i, it : Lengthens(u, o, i, it)
<1> DEFINE u == Added(o, parents, name, inputs, origin, all)
           e == Entry(parents, name, inputs, origin)
           found == Matching(o, parents, name, all)
           i == CHOOSE j \in found : \A k \in found : k <= j
           old == o[i].inputs
           new == Separated(old, inputs, all)
           longer == IF new THEN old \o <<Separator>> \o inputs ELSE old \o inputs
           it == [o[i] EXCEPT !.inputs = longer, !.multiline = @ \/ new]
<1>1. name \notin {"++", "--"}
  BY ReaderAssumption DEF EntryNames
<1>2. e \in ItemType /\ e.name = name /\ e.origin = origin /\ e.inputs = inputs
  <2>1. inputs \in Seq(Values \cup {Separator})
    BY ArgumentsAre
  <2> QED
    BY <2>1 DEF Entry, ItemType, EntryNames
<1>3. Separator \notin ToSet(inputs) /\ (inputs = <<>> \/ ToSet(inputs) \cap Values # {})
  BY ArgumentsAre
<1>4. e \in Readable
  BY <1>1, <1>2, <1>3 DEF Readable
<1> HIDE DEF e
<1>5. CASE found = {}
  <2>1. u = Append(o, e)
    BY <1>5 DEF Added, e
  <2> HIDE DEF u
  <2>2. u = Append(o, e) \/ \E j, jt : Lengthens(u, o, j, jt)
    BY <2>1
  <2> QED
    BY <1>1, <1>2, <1>4, <2>2 DEF e, u
<1>6. CASE found # {}
  <2>1. i \in found /\ i \in DOMAIN o
    <3>1. found \in SUBSET (1..Len(o)) /\ Len(o) \in Nat
      <4>1. \A l \in (IF all THEN 1 ELSE Len(o))..Len(o) : l > 0 => l \in 1..Len(o)
        BY SMT
      <4>2. found \subseteq 1..Len(o)
        BY <4>1 DEF Matching
      <4> QED
        BY <4>2
    <3> HIDE DEF found
    <3>2. i \in found
      BY <1>6, <3>1, LastFound
    <3> HIDE DEF i
    <3>3. i \in 1..Len(o)
      BY <3>1, <3>2
    <3> QED
      BY <3>2, <3>3
  <2>2. o[i] \in Readable /\ o[i] \in ItemType /\ o[i].name = name
    <3> HIDE DEF i
    <3>1. o[i].name = name
      BY <2>1 DEF Matching
    <3>2. o[i] \in Readable
      BY <2>1
    <3> QED
      BY <3>1, <3>2 DEF Readable
  <2>3. u = [o EXCEPT ![i].inputs = longer, ![i].multiline = o[i].multiline \/ new]
    BY <1>6 DEF Added, new
  <2> HIDE DEF i, u, new, found
  <2>4. old \in Seq(Values \cup {Separator}) /\ longer \in Seq(Values \cup {Separator})
    <3>1. old \in Seq(Values \cup {Separator})
      BY <2>2 DEF ItemType
    <3> HIDE DEF old
    <3>2. inputs \in Seq(Values \cup {Separator}) /\ <<Separator>> \in Seq(Values \cup {Separator})
      BY ArgumentsAre
    <3> DEFINE S == Values \cup {Separator}
    <3>3. old \in Seq(S) /\ inputs \in Seq(S) /\ <<Separator>> \in Seq(S)
      BY <3>1, <3>2
    <3> HIDE DEF S
    <3>4. longer \in Seq(S)
      <4>1. old \o <<Separator>> \in Seq(S)
        BY <3>3
      <4>2. (old \o <<Separator>>) \o inputs \in Seq(S) /\ old \o inputs \in Seq(S)
        BY <3>3, <4>1
      <4> QED
        BY <4>2
    <3> QED
      BY <3>3, <3>4 DEF S
  <2>5. new \in BOOLEAN
    BY DEF new, Separated
  <2>6. /\ ~new => ToSet(longer) = ToSet(old) \cup ToSet(inputs)
        /\ new => ToSet(longer) = ToSet(old) \cup {Separator} \cup ToSet(inputs)
        /\ old = <<>> /\ inputs = <<>> /\ ~new => longer = <<>>
    <3> DEFINE S == Values \cup {Separator}
    <3>1. old \in Seq(S) /\ inputs \in Seq(S) /\ <<Separator>> \in Seq(S)
      BY <2>4, ArgumentsAre
    <3> HIDE DEF S, old
    <3>2. ToSet(old \o inputs) = ToSet(old) \cup ToSet(inputs)
      BY <3>1, ToSetJoined
    <3>3. old \o <<Separator>> \in Seq(S)
      BY <3>1
    <3>4. ToSet(old \o <<Separator>>) = ToSet(old) \cup ToSet(<<Separator>>)
      BY <3>1, ToSetJoined
    <3>5. ToSet(<<Separator>>) = {Separator}
      <4>1. DOMAIN <<Separator>> = {1} /\ <<Separator>>[1] = Separator
        OBVIOUS
      <4> QED
        BY <4>1 DEF ToSet
    <3>6. ToSet((old \o <<Separator>>) \o inputs) = ToSet(old \o <<Separator>>) \cup ToSet(inputs)
      <4> DEFINE h == old \o <<Separator>>
      <4>1. h \in Seq(S)
        BY <3>3
      <4> HIDE DEF h
      <4>2. ToSet(h \o inputs) = ToSet(h) \cup ToSet(inputs)
        BY <3>1, <4>1, ToSetJoined
      <4> QED
        BY <4>2 DEF h
    <3> QED
      BY <3>2, <3>4, <3>5, <3>6
  <2>15. new => inputs # <<>>
    BY DEF new, Separated
  <2>16. old = <<>> \/ ToSet(old) \cap Values # {}
    BY <2>2 DEF Readable, old
  <2>17. longer = <<>> \/ ToSet(longer) \cap Values # {}
    <3> HIDE DEF longer, old, new
    <3>1. CASE inputs = <<>>
      <4>1. ~new
        BY <2>15, <3>1
      <4> QED
        BY <2>6, <2>16, <3>1, <4>1
    <3>2. CASE inputs # <<>>
      BY <1>3, <2>5, <2>6, <3>2
    <3> QED
      BY <3>1, <3>2
  <2> HIDE DEF longer, old
  <2>7. it = [o[i] EXCEPT !.inputs = longer, !.multiline = o[i].multiline \/ new]
    OBVIOUS
  <2>8. it \in ItemType
    BY <2>2, <2>4, <2>5 DEF ItemType
  <2>9. /\ it.name = o[i].name /\ it.parents = o[i].parents /\ it.origin = o[i].origin
        /\ it.inputs = longer
    BY <2>2 DEF ItemType
  <2>10. it.multiline = (o[i].multiline \/ new)
    BY <2>2 DEF ItemType
  <2>11. it \in Readable
    <3>1. it.name \notin {"++", "--"}
      BY <1>1, <2>2, <2>9
    <3>2. it.multiline \/ Separator \notin ToSet(it.inputs)
      BY <1>3, <2>2, <2>6, <2>9, <2>10 DEF Readable, old
    <3> QED
      BY <2>8, <2>9, <2>17, <3>1, <3>2 DEF Readable
  <2>12. u = [o EXCEPT ![i] = it]
    BY <2>1, <2>2, <2>3, <2>7 DEF ItemType
  <2> HIDE DEF it
  <2>13. Lengthens(u, o, i, it)
    BY <2>1, <2>9, <2>11, <2>12 DEF Lengthens
  <2>14. u = Append(o, e) \/ \E j, jt : Lengthens(u, o, j, jt)
    BY <2>13
  <2> QED
    BY <1>1, <1>2, <1>4, <2>14 DEF e, u
<1> QED
  BY <1>5, <1>6

LEMMA LengthenedIs ==
    ASSUME NEW o \in Seq(Readable), NEW u, NEW i, NEW it, Lengthens(u, o, i, it)
    PROVE  /\ u \in Seq(Readable) /\ u # <<>> /\ o # <<>>
           /\ Last(u).name = Last(o).name /\ Last(u).parents = Last(o).parents
           /\ \A x \in Paths : Bal(u, x) = Bal(o, x)
           /\ \A q, n : Enclosed(o, q, n) => Enclosed(u, q, n)
<1>1. /\ i \in DOMAIN o /\ it \in Readable /\ u = [o EXCEPT ![i] = it]
      /\ it.name = o[i].name /\ it.parents = o[i].parents /\ it.origin = o[i].origin
  BY DEF Lengthens
<1>2. u \in Seq(Readable) /\ DOMAIN u = DOMAIN o /\ Len(u) = Len(o)
  BY <1>1
<1>3. \A j \in DOMAIN o : u[j].name = o[j].name /\ u[j].parents = o[j].parents
  BY <1>1
<1>4. \A j \in DOMAIN o : u[j] \in ItemType /\ o[j] \in ItemType
  <2>1. \A j \in DOMAIN o : u[j] \in Readable /\ o[j] \in Readable
    BY <1>2
  <2> QED
    BY <2>1 DEF Readable
<1>5. o # <<>> /\ u # <<>> /\ Len(o) \in DOMAIN o
  BY <1>1, <1>2
<1>6. Last(u).name = Last(o).name /\ Last(u).parents = Last(o).parents
  BY <1>2, <1>3, <1>5 DEF Last
<1>7. ASSUME NEW x \in Paths PROVE Bal(u, x) = Bal(o, x)
  <2>1. PlacesOf(u, Opening(x)) = PlacesOf(o, Opening(x))
    BY <1>2, <1>3, <1>4 DEF PlacesOf, Opening
  <2>2. PlacesOf(u, Closing(x)) = PlacesOf(o, Closing(x))
    BY <1>2, <1>3, <1>4 DEF PlacesOf, Closing
  <2> QED
    BY <2>1, <2>2 DEF Bal
<1>8. ASSUME NEW q, NEW n, Enclosed(o, q, n) PROVE Enclosed(u, q, n)
  <2>1. \A j \in DOMAIN o : u[j].origin = o[j].origin
    BY <1>1
  <2>2. \A x : \A j \in DOMAIN o : o[j] \in Closing(x) => u[j] \in Closing(x)
    BY <1>3, <1>4 DEF Closing
  <2> QED
    BY <1>2, <1>3, <1>8, <2>1, <2>2 DEF Enclosed
<1> QED
  BY <1>2, <1>5, <1>6, <1>7, <1>8

\* What an entry does to a set of items that is told by their names, parents
\* and origins.
LEMMA AddedItems ==
    ASSUME NEW G, G \subseteq Readable,
           \A j \in G, it \in Readable :
                it.name = j.name /\ it.parents = j.parents /\ it.origin = j.origin => it \in G,
           NEW o \in Seq(G), NEW parents \in Paths, NEW name \in EntryNames,
           NEW inputs \in Seq(Values), NEW origin \in Paths \X Nat, NEW all \in BOOLEAN,
           all => inputs # <<>>, Entry(parents, name, inputs, origin) \in G
    PROVE  Added(o, parents, name, inputs, origin, all) \in Seq(G)
<1> DEFINE u == Added(o, parents, name, inputs, origin, all)
           e == Entry(parents, name, inputs, origin)
<1>1. o \in Seq(Readable)
  OBVIOUS
<1>2. u = Append(o, e) \/ \E i, it : Lengthens(u, o, i, it)
  BY <1>1, AddedIs
<1> HIDE DEF u
<1>3. e \in G
  OBVIOUS
<1> HIDE DEF e
<1>4. CASE u = Append(o, e)
  BY <1>3, <1>4 DEF u
<1>5. ASSUME NEW i, NEW it, Lengthens(u, o, i, it) PROVE u \in Seq(G)
  <2>1. /\ i \in DOMAIN o /\ it \in Readable /\ u = [o EXCEPT ![i] = it]
        /\ it.name = o[i].name /\ it.parents = o[i].parents /\ it.origin = o[i].origin
    BY <1>5 DEF Lengthens
  <2>2. o[i] \in G
    BY <2>1
  <2>3. it \in G
    BY <2>1, <2>2
  <2> QED
    BY <2>1, <2>3
<1> QED
  BY <1>2, <1>4, <1>5 DEF u

\* An entry that is read in the section that is open.
LEMMA EnclosedGrown ==
    ASSUME NEW o \in Seq(ItemType), NEW e \in ItemType, NEW s \in Paths, e.origin[1] = s,
           Enclosed(o, s, Len(s))
    PROVE  Enclosed(Append(o, e), s, Len(s))
<1> DEFINE u == Append(o, e)
<1>1. /\ Len(o) \in Nat /\ DOMAIN o = 1..Len(o) /\ DOMAIN u = 1..(Len(o) + 1)
      /\ \A i \in DOMAIN o : u[i] = o[i]
      /\ u[Len(o) + 1] = e
  OBVIOUS
<1>2. s # Default => Among(s, s, Len(s))
  <2>1. Len(s) \in Nat /\ (Len(s) = 0 <=> s = <<>>)
    BY PathsAre
  <2>3. Prefix(s, Len(s)) = s
    BY PrefixesAre
  <2> QED
    BY <2>1, <2>3 DEF Among, Default
<1> HIDE DEF u
<1>3. \A i \in DOMAIN u : (i \in DOMAIN o /\ i \in DOMAIN u) \/ i = Len(o) + 1
  BY <1>1
<1>4. DOMAIN o \subseteq DOMAIN u
  BY <1>1
<1>5. Enclosed(u, s, Len(s))
  BY <1>1, <1>2, <1>3, <1>4 DEF Enclosed
<1> QED
  BY <1>5 DEF u

LEMMA AddedNests ==
    ASSUME NEW o \in Seq(Readable), NEW parents \in Paths, NEW name \in EntryNames,
           NEW inputs \in Seq(Values), NEW origin \in Paths \X Nat, NEW all \in BOOLEAN,
           all => inputs # <<>>, NEW s \in Paths, origin[1] = s, NEW stray \in BOOLEAN, Nested(o, s, stray)
    PROVE  Nested(Added(o, parents, name, inputs, origin, all), s, stray)
<1> DEFINE u == Added(o, parents, name, inputs, origin, all)
           e == Entry(parents, name, inputs, origin)
<1>1. /\ e \in Readable /\ e.name = name /\ e.origin = origin /\ name \notin {"++", "--"}
      /\ u = Append(o, e) \/ \E i, it : Lengthens(u, o, i, it)
  BY AddedIs
<1> HIDE DEF u, e
<1>2. o \in Seq(ItemType) /\ e \in ItemType
  <2>1. Readable \subseteq ItemType
    BY DEF Readable
  <2> HIDE DEF Readable
  <2> QED
    BY <1>1, <2>1
<1>3. CASE u = Append(o, e)
  <2>1. <<e>> \in Seq(ItemType) /\ u = o \o <<e>> /\ <<e>> # <<>> /\ Last(<<e>>) = e
    BY <1>2, <1>3 DEF Last
  <2>2. u # <<>> /\ Last(u) = e
    BY <1>2, <2>1, LastJoined
  <2>3. ~Pending(u)
    BY <1>1, <2>2 DEF Pending
  <2>4. \A x \in Paths : Bal(u, x) = Bal(o, x)
    <3> SUFFICES ASSUME NEW x \in Paths PROVE Bal(u, x) = Bal(o, x)
      OBVIOUS
    <3>1. Bal(o, x) \in Int /\ Bal(<<e>>, x) \in Int /\ Bal(u, x) = Bal(o, x) + Bal(<<e>>, x)
      BY <1>2, <2>1, BalJoined
    <3>2. PlacesOf(<<e>>, Opening(x)) = {} /\ PlacesOf(<<e>>, Closing(x)) = {}
      <4>1. DOMAIN <<e>> = {1} /\ <<e>>[1] = e
        OBVIOUS
      <4> QED
        BY <1>1, <4>1 DEF PlacesOf, Opening, Closing
    <3>3. /\ Cardinality(PlacesOf(<<e>>, Opening(x))) = 0
          /\ Cardinality(PlacesOf(<<e>>, Closing(x))) = 0
      BY <3>2, CountOne
    <3>4. Bal(<<e>>, x) = 0
      BY <3>3 DEF Bal
    <3> QED
      BY <3>1, <3>4
  <2>7. Held(o, s, Len(s)) /\ (~stray => Exact(o, s, Len(s)))
    BY DEF Nested
  <2>8. Enclosed(o, s, Len(s)) => Enclosed(u, s, Len(s))
    BY <1>1, <1>2, <1>3, EnclosedGrown
  <2>5. Held(u, s, Len(s)) /\ (~stray => Exact(u, s, Len(s)))
    BY <2>4, <2>7, <2>8 DEF Held, Exact, Once
  <2>6. Nested(u, s, stray)
    BY <2>3, <2>5 DEF Nested
  <2> QED
    BY <2>6 DEF u
<1>4. ASSUME NEW i, NEW it, Lengthens(u, o, i, it) PROVE Nested(u, s, stray)
  <2>1. /\ u # <<>> /\ o # <<>>
        /\ Last(u).name = Last(o).name /\ Last(u).parents = Last(o).parents
        /\ \A x \in Paths : Bal(u, x) = Bal(o, x)
        /\ \A q, n : Enclosed(o, q, n) => Enclosed(u, q, n)
    BY <1>4, LengthenedIs
  <2>2. /\ \A q, n : Held(o, q, n) <=> Held(u, q, n)
        /\ \A q, n : Exact(o, q, n) => Exact(u, q, n)
    BY <2>1 DEF Held, Exact, Once
  <2>3. Pending(u) <=> Pending(o)
    BY <2>1 DEF Pending
  <2> DEFINE q == Last(o).parents
  <2>4. Last(u).parents = q
    BY <2>1
  <2>5. /\ Held(o, s, Len(s)) /\ (~stray => Exact(o, s, Len(s)))
        /\ Pending(o) => /\ s = Default /\ q \in Paths \ {<<>>}
                         /\ Held(o, q, Len(q) - 1)
                         /\ ~stray => Len(q) = 1
    BY DEF Nested
  <2> HIDE DEF q
  <2>6. /\ Held(u, s, Len(s)) /\ (~stray => Exact(u, s, Len(s)))
        /\ Pending(u) => /\ s = Default /\ q \in Paths \ {<<>>}
                         /\ Held(u, q, Len(q) - 1)
                         /\ ~stray => Len(q) = 1
    BY <2>2, <2>3, <2>5
  <2> QED
    BY <2>4, <2>6 DEF Nested
<1> QED
  BY <1>1, <1>3, <1>4 DEF u

-----------------------------------------------------------------------------
(* The reader's state.                                                     *)

OpenType ==
    { x \in [kind : {"comment", "array", "text"}, until : Endings, line : LineType] :
        x.kind # "comment" => x.line.path # <<>> }
AtType == [section : Paths, previous : Paths, index : Nat, inSection : BOOLEAN]
Reading == status \in {"reading", "ParseError"}

\* An entry that may be merged with another has an argument.
Answers(l) == program.reader.duplicates => l.inputs # <<>>

\* What configSection and configIndex ask of the header p, the n-th of its name.
Meant(reader, p, n) ==
    ~Whole(reader) /\ p # Default =>
        Head(p) = reader.section /\ (reader.index >= 0 => n = reader.index)

\* The items that such a reader may have.
Ours(reader) ==
    { it \in Readable : it.name \notin {"++", "--"} => Meant(reader, it.origin[1], it.origin[2]) }

FileOK ==
    /\ program \in ProgramType
    /\ written \in Seq(WrittenType) /\ (IsTyped => written = <<>>) /\ typed \in Nat
    /\ open = Nothing \/ (IsTyped /\ open \in OpenType /\ Answers(open.line))
SectionOK ==
    /\ at \in AtType /\ strayed \in BOOLEAN
    /\ at.inSection => Meant(program.reader, at.section, at.index)
ItemsOK ==
    /\ output \in Seq(Ours(program.reader))
    /\ applied \in 0..Len(output) /\ (Reading => applied = 0)
    /\ IF Reading THEN Nested(output, at.section, strayed) ELSE Unnested(output, strayed)
StatusOK ==
    status \in {"reading", "applying", "done", "ParseError", "ConfigExtras",
                "NotConfigurable", "ConversionError", "ArgumentMismatch", "InvalidError",
                "CallbackError"}

\* The inductive invariant of the reader.
ReadingInv == FileOK /\ SectionOK /\ ItemsOK /\ StatusOK

LEMMA TypistIs ==
    /\ Programs \subseteq ProgramType
    /\ IsTyped => Typist.lines \subseteq LineType /\ Typist.most \in Nat
<1>1. Programs \subseteq ProgramType /\ \A t \in DOMAIN Typists : Typists[t] \in [lines : SUBSET LineType, most : Nat]
  BY Zenon, FileAssumption
<1>2. ASSUME IsTyped PROVE Typist \in [lines : SUBSET LineType, most : Nat]
  BY <1>1, <1>2 DEF IsTyped, Typist
<1> QED
  BY <1>1, <1>2

LEMMA OursIs ==
    ASSUME NEW reader
    PROVE  /\ Marks \subseteq Ours(reader) /\ Ours(reader) \subseteq Readable
           /\ \A j \in Ours(reader), it \in Readable :
                it.name = j.name /\ it.parents = j.parents /\ it.origin = j.origin => it \in Ours(reader)
           /\ \A o \in Seq(Ours(reader)) : o \in Seq(Readable) /\ o \in Seq(ItemType)
<1>1. Marks \subseteq Ours(reader)
  BY MarksReadable DEF Ours, Marks
<1>2. Ours(reader) \subseteq Readable /\ Readable \subseteq ItemType
  BY DEF Ours, Readable
<1>3. \A j \in Ours(reader), it \in Readable :
        it.name = j.name /\ it.parents = j.parents /\ it.origin = j.origin => it \in Ours(reader)
  BY DEF Ours
<1> DEFINE G == Ours(reader)
<1>4. \A o \in Seq(G) : o \in Seq(Readable) /\ o \in Seq(ItemType)
  <2>1. G \subseteq Readable /\ Readable \subseteq ItemType
    BY <1>2
  <2> HIDE DEF G
  <2> QED
    BY <2>1
<1> QED
  BY <1>1, <1>2, <1>3, <1>4

LEMMA NothingRead ==
    ASSUME NEW s \in Paths, s = Default, NEW stray \in BOOLEAN
    PROVE  Nested(<<>>, s, stray)
<1>1. \A x : Bal(<<>>, x) = 0
  <2>1. \A T : PlacesOf(<<>>, T) = {}
    BY DEF PlacesOf
  <2>2. \A T : Cardinality(PlacesOf(<<>>, T)) = 0
    BY <2>1, CountOne
  <2> QED
    BY <2>2 DEF Bal
<1>2. \A x \in Paths : ~Among(x, s, 0)
  <2> SUFFICES ASSUME NEW x \in Paths, Len(x) <= 0 PROVE x = <<>>
    BY DEF Among
  <2>1. Len(x) \in Nat /\ (Len(x) = 0 <=> x = <<>>)
    BY PathsAre
  <2> QED
    BY <2>1
<1>3. Held(<<>>, s, Len(s)) /\ Exact(<<>>, s, Len(s))
  BY <1>1, <1>2, LengthOfDefault DEF Held, Exact, Once, Enclosed
<1>4. ~Pending(<<>>)
  BY DEF Pending
<1> QED
  BY <1>3, <1>4 DEF Nested

LEMMA InitReads == Init => ReadingInv
<1> SUFFICES ASSUME Init PROVE ReadingInv
  OBVIOUS
<1>1. /\ program \in Programs /\ typed = 0 /\ open = Nothing /\ at = NoSection /\ output = <<>>
      /\ status = "reading" /\ applied = 0 /\ strayed = FALSE
  BY DEF Init
<1>2. written \in Seq(WrittenType) /\ (IsTyped => written = <<>>)
  BY ToConfigIs DEF Init, IsTyped
<1>3. FileOK
  BY <1>1, <1>2, TypistIs DEF FileOK
<1>4. at \in AtType /\ at.section = Default /\ at.inSection = FALSE
  BY <1>1, LengthOfDefault DEF NoSection, AtType
<1>5. SectionOK
  BY <1>1, <1>4 DEF SectionOK
<1>6. output \in Seq(Ours(program.reader)) /\ Len(output) = 0
  BY <1>1
<1>7. Nested(output, at.section, strayed)
  BY <1>1, <1>4, LengthOfDefault, NothingRead
<1>8. Reading /\ StatusOK /\ applied \in 0..Len(output)
  BY <1>1, <1>6 DEF Reading, StatusOK
<1> QED
  BY <1>1, <1>3, <1>5, <1>6, <1>7, <1>8 DEF ReadingInv, ItemsOK

\* A line, and what is left of the file behind it.
LEMMA LineRead ==
    ASSUME FileOK, NEW l \in TheLines, Getline(l), program' = program
    PROVE  /\ l \in LineType /\ status = "reading" /\ (~IsTyped => l \in WrittenType)
           /\ written' \in Seq(WrittenType) /\ (IsTyped' => written' = <<>>) /\ typed' \in Nat
           /\ l.kind # "header" => Answers(l)
<1>1. program \in ProgramType /\ written \in Seq(WrittenType) /\ (IsTyped => written = <<>>) /\ typed \in Nat
  BY DEF FileOK
<1>2. IsTyped' = IsTyped /\ status = "reading"
  BY DEF IsTyped, Getline
<1>3. WrittenType \subseteq LineType
  BY DEF WrittenType
<1>4. CASE IsTyped
  <2>1. l \in LineType
    BY <1>4, TypistIs DEF TheLines
  <2>2. written' = written /\ typed' = typed + 1 /\ Answers(l)
    BY <1>1, <1>4 DEF Getline, Answers
  <2> QED
    BY <1>1, <1>2, <1>4, <2>1, <2>2
<1>5. CASE ~IsTyped
  <2>1. PICK i \in DOMAIN written : l = written[i]
    BY <1>5 DEF TheLines
  <2>2. l \in WrittenType
    BY <1>1, <2>1
  <2>5. l.kind # "header" => Answers(l)
    BY <2>2 DEF WrittenType, Answers
  <2>3. written # <<>> /\ written' = Tail(written) /\ typed' = typed
    BY <1>5 DEF Getline
  <2>4. written' \in Seq(WrittenType)
    BY <1>1, <2>3
  <2> QED
    BY <1>1, <1>2, <1>3, <1>5, <2>2, <2>3, <2>4, <2>5
<1> QED
  BY <1>4, <1>5

\* The parents of an entry, when configSection is set or not.
LEMMA ChosenIs ==
    ASSUME NEW reader, NEW where \in AtType, NEW parents \in Paths, Chosen(reader, where, parents)
    PROVE  /\ Stripped(reader, where, parents) \in Paths
           /\ ~Whole(reader) /\ ~where.inSection =>
                /\ parents # <<>> /\ Head(parents) = reader.section
                /\ reader.index >= 0 => where.index = reader.index
<1> DEFINE T == Segments \cup {""}
<1>1. Paths = Seq(T)
  BY DEF Paths
<1>2. CASE Whole(reader) \/ where.inSection
  BY <1>2 DEF Stripped
<1>3. CASE ~(Whole(reader) \/ where.inSection)
  <2>1. /\ parents # <<>> /\ Head(parents) = reader.section
        /\ reader.index >= 0 => where.index = reader.index
    BY <1>3 DEF Chosen
  <2>2. Stripped(reader, where, parents) = Tail(parents)
    BY <1>3 DEF Stripped
  <2> HIDE DEF T
  <2>3. Tail(parents) \in Seq(T)
    BY <1>1, <2>1
  <2> QED
    BY <1>1, <2>1, <2>2, <2>3
<1> QED
  BY <1>2, <1>3

LEMMA PathParts ==
    ASSUME NEW p \in Paths, p # <<>>
    PROVE  /\ Front(p) \in Paths /\ Last(p) \in EntryNames
           /\ \A q \in Paths : Head(p \o q) = Head(p)
<1>1. Paths = Seq(EntryNames)
  BY DEF Paths, EntryNames
<1>2. p \in Seq(EntryNames)
  BY <1>1
<1>3. Front(p) \in Seq(EntryNames) /\ Last(p) \in EntryNames
  BY <1>2, FrontIs
<1>4. \A q \in Seq(EntryNames) : Head(p \o q) = Head(p)
  BY <1>2
<1> QED
  BY <1>1, <1>3, <1>4

\* An entry that is complete.
LEMMA EntryReads ==
    ASSUME SectionOK, ItemsOK, status = "reading", program \in ProgramType,
           NEW l \in LineType, l.path # <<>>, Answers(l), Enter(l)
    PROVE  program' = program /\ SectionOK' /\ ItemsOK' /\ StatusOK'
<1> DEFINE parents == at.section \o Front(l.path)
           reader == program.reader
           layers == Len(parents) <= reader.layers
           taken == layers /\ Chosen(reader, at, parents)
           origin == <<at.section, at.index>>
           name == Last(l.path)
           kept == Stripped(reader, at, parents)
           added == Added(output, kept, name, l.inputs, origin, reader.duplicates)
<1>1. /\ program' = program /\ applied' = applied /\ strayed' = strayed
      /\ \/ status' = "ParseError" /\ at' = at /\ output' = output
         \/ /\ status' = status
            /\ at' = [at EXCEPT !.inSection = @ \/ (taken /\ ~Whole(reader))]
            /\ output' = IF taken THEN added ELSE output
  BY DEF Enter
<1>2. l.path \in Paths /\ l.inputs \in Seq(Values)
  BY DEF LineType
<1>3. /\ at \in AtType /\ strayed \in BOOLEAN
      /\ at.section \in Paths /\ at.index \in Nat /\ at.inSection \in BOOLEAN
      /\ at.inSection => Meant(reader, at.section, at.index)
  BY DEF SectionOK, AtType
<1>4. Front(l.path) \in Paths /\ name \in EntryNames /\ parents \in Paths
  BY <1>2, <1>3, PathParts, PathsAre
<1>5. reader.duplicates \in BOOLEAN /\ (reader.duplicates => l.inputs # <<>>)
  BY DEF ProgramType, ReaderType, Answers
<1>6. Reading /\ Reading' /\ StatusOK'
  BY <1>1 DEF Reading, StatusOK
<1>7. /\ output \in Seq(Ours(reader)) /\ output \in Seq(Readable) /\ applied \in 0..Len(output)
      /\ applied = 0 /\ Nested(output, at.section, strayed)
  BY <1>6, OursIs DEF ItemsOK
<1>8. taken => Meant(reader, at.section, at.index)
  <2> SUFFICES ASSUME taken, ~Whole(reader), at.section # Default, ~at.inSection
               PROVE  /\ Head(at.section) = reader.section
                      /\ reader.index >= 0 => at.index = reader.index
    BY <1>3 DEF Meant
  <2>1. /\ parents # <<>> /\ Head(parents) = reader.section
        /\ reader.index >= 0 => at.index = reader.index
    BY <1>3, <1>4, ChosenIs
  <2>2. Head(parents) = Head(at.section)
    BY <1>3, <1>4, PathParts DEF Default
  <2> QED
    BY <2>1, <2>2
<1> HIDE DEF reader, name, parents
<1>9. taken => added \in Seq(Ours(reader)) /\ Nested(added, at.section, strayed)
  <2> SUFFICES ASSUME taken
               PROVE  added \in Seq(Ours(reader)) /\ Nested(added, at.section, strayed)
    OBVIOUS
  <2>1. kept \in Paths /\ origin \in Paths \X Nat
    BY <1>3, <1>4, ChosenIs
  <2>2. Meant(reader, origin[1], origin[2]) /\ origin[1] = at.section
    BY <1>8
  <2> HIDE DEF kept, taken, origin
  <2>3. /\ Entry(kept, name, l.inputs, origin) \in Readable
        /\ Entry(kept, name, l.inputs, origin).origin = origin
    BY <1>2, <1>4, <1>5, <1>7, <2>1, AddedIs
  <2>4. Entry(kept, name, l.inputs, origin) \in Ours(reader)
    BY <2>2, <2>3 DEF Ours
  <2>5. added \in Seq(Ours(reader))
    BY <1>2, <1>4, <1>5, <1>7, <2>1, <2>4, OursIs, AddedItems
  <2>6. Nested(added, at.section, strayed)
    BY <1>2, <1>3, <1>4, <1>5, <1>7, <2>1, <2>2, AddedNests
  <2> QED
    BY <2>5, <2>6
<1> HIDE DEF added, taken
<1>10. CASE status' = "ParseError" /\ at' = at /\ output' = output
  <2>1. SectionOK'
    BY <1>1, <1>10 DEF SectionOK
  <2>2. ItemsOK'
    BY <1>1, <1>6, <1>7, <1>10 DEF ItemsOK, reader
  <2> QED
    BY <1>1, <1>6, <2>1, <2>2
<1>11. CASE /\ at' = [at EXCEPT !.inSection = @ \/ (taken /\ ~Whole(reader))]
            /\ output' = IF taken THEN added ELSE output
  <2>1. /\ at'.section = at.section /\ at'.index = at.index /\ at' \in AtType
        /\ at'.inSection = (at.inSection \/ (taken /\ ~Whole(reader)))
    <3> DEFINE b == at.inSection \/ (taken /\ ~Whole(reader))
    <3>1. b \in BOOLEAN /\ at' = [at EXCEPT !.inSection = b]
      BY <1>3, <1>11
    <3> HIDE DEF b
    <3>2. at' \in AtType /\ at'.section = at.section /\ at'.index = at.index
      BY <1>3, <3>1 DEF AtType
    <3>3. at'.inSection = b
      BY <1>3, <3>1 DEF AtType
    <3> QED
      BY <3>2, <3>3 DEF b
  <2>2. at'.inSection => Meant(reader, at.section, at.index)
    BY <1>3, <1>8, <2>1
  <2>3. SectionOK'
    BY <1>1, <1>3, <2>1, <2>2 DEF SectionOK, reader
  <2>4. output' \in Seq(Ours(reader)) /\ Nested(output', at.section, strayed)
    BY <1>7, <1>9, <1>11
  <2>5. applied' \in 0..Len(output') /\ applied' = 0
    <3>1. Len(output') \in Nat
      BY <2>4
    <3> QED
      BY <1>1, <1>7, <3>1
  <2>6. ItemsOK'
    BY <1>1, <1>6, <2>1, <2>4, <2>5 DEF ItemsOK, reader
  <2> QED
    BY <1>1, <1>6, <2>3, <2>6
<1> QED
  BY <1>1, <1>10, <1>11

\* Steps that leave the sections and the items alone.
LEMMA SameSections ==
    ASSUME SectionOK, ItemsOK, StatusOK, UNCHANGED <<program, at, output, status, applied, strayed>>
    PROVE  SectionOK' /\ ItemsOK' /\ StatusOK'
<1>1. SectionOK'
  BY DEF SectionOK
<1>2. ItemsOK'
  BY DEF ItemsOK, Reading
<1>3. StatusOK'
  BY DEF StatusOK
<1> QED
  BY <1>1, <1>2, <1>3

\* The items do not change once the file is read.
ApplyStep ==
    /\ status = "applying" /\ StatusOK' /\ ~Reading'
    /\ UNCHANGED <<program, reading, strayed>>
    /\ applied' = applied \/ (applied < Len(output) /\ applied' = applied + 1)

LEMMA ApplyKeeps == ReadingInv /\ ApplyStep => ReadingInv'
<1> SUFFICES ASSUME ReadingInv, ApplyStep PROVE ReadingInv'
  OBVIOUS
<1>1. /\ program' = program /\ written' = written /\ typed' = typed /\ open' = open /\ at' = at
      /\ output' = output /\ strayed' = strayed
  BY DEF ApplyStep, reading
<1>2. FileOK'
  BY <1>1 DEF ReadingInv, FileOK, IsTyped, Answers
<1>3. SectionOK'
  BY <1>1 DEF ReadingInv, SectionOK
<1>4. ~Reading /\ ~Reading'
  BY DEF ApplyStep, Reading
<1>5. applied' \in 0..Len(output)
  <2>1. applied \in 0..Len(output) /\ Len(output) \in Nat
    BY DEF ReadingInv, ItemsOK
  <2>2. applied' = applied \/ (applied < Len(output) /\ applied' = applied + 1)
    BY DEF ApplyStep
  <2> QED
    BY <2>1, <2>2
<1>6. ItemsOK'
  BY <1>1, <1>4, <1>5 DEF ReadingInv, ItemsOK
<1> QED
  BY <1>2, <1>3, <1>6 DEF ReadingInv, ApplyStep

LEMMA AppliesAre ==
    ReadingInv /\ (OpenSection \/ CloseSection \/ Extra \/ SetOption \/ Finish) => ApplyStep
<1> SUFFICES ASSUME ReadingInv, OpenSection \/ CloseSection \/ Extra \/ SetOption \/ Finish
             PROVE  ApplyStep
  OBVIOUS
<1>1. CASE OpenSection
  BY <1>1 DEF OpenSection, Applying, Applied, ApplyStep, StatusOK, Reading
<1>2. CASE CloseSection
  BY <1>2 DEF CloseSection, Applying, Applied, ApplyStep, StatusOK, Reading, Throws
<1>3. CASE Extra
  BY <1>3 DEF Extra, Applying, Applied, ApplyStep, StatusOK, Reading
<1>4. CASE SetOption
  BY <1>4 DEF SetOption, Overfull, Applying, Applied, ApplyStep, StatusOK, Reading, Throws
<1>5. CASE Finish
  BY <1>5 DEF Finish, ApplyStep, StatusOK, Reading
<1> QED
  BY <1>1, <1>2, <1>3, <1>4, <1>5

\* What each line does with what goes on over several lines.
LEMMA OpenIs == Nothing \notin OpenType /\ Nothing.kind = "none"
<1>1. Nothing.kind = "none"
  BY DEF Nothing
<1>2. \A x \in OpenType : x.kind # "none"
  BY DEF OpenType
<1> QED
  BY <1>1, <1>2

LEMMA HeaderReads == ReadingInv /\ Header => ReadingInv'
<1> SUFFICES ASSUME ReadingInv, Header PROVE ReadingInv'
  OBVIOUS
<1>1. PICK l \in TheLines :
        /\ Getline(l) /\ output' = Headed(output, at.section, l.path)
        /\ at' = [section |-> l.path, previous |-> l.path, inSection |-> FALSE,
                  index |-> IF l.path = at.previous THEN at.index + 1 ELSE 0]
        /\ strayed' = (strayed \/ (l.path = Default /\ Len(at.section) > 1))
        /\ program' = program /\ open' = open /\ status' = status /\ applied' = applied
  BY DEF Header
<1>2. FileOK /\ SectionOK /\ ItemsOK /\ StatusOK
  BY DEF ReadingInv
<1>3. /\ l \in LineType /\ status = "reading"
      /\ written' \in Seq(WrittenType) /\ (IsTyped' => written' = <<>>) /\ typed' \in Nat
  BY <1>1, <1>2, LineRead
<1>4. l.path \in Paths
  BY <1>3 DEF LineType
<1>5. FileOK'
  BY <1>1, <1>2, <1>3 DEF FileOK, IsTyped, Answers
<1>6. at \in AtType /\ at.section \in Paths /\ at.index \in Nat /\ strayed \in BOOLEAN
  BY <1>2 DEF SectionOK, AtType
<1>7. /\ at' \in AtType /\ at'.section = l.path /\ at'.inSection = FALSE /\ strayed' \in BOOLEAN
  <2>1. (IF l.path = at.previous THEN at.index + 1 ELSE 0) \in Nat
    BY <1>6
  <2> QED
    BY <1>1, <1>4, <1>6, <2>1 DEF AtType
<1>8. SectionOK'
  BY <1>7 DEF SectionOK
<1>9. Reading /\ Reading' /\ StatusOK'
  BY <1>1, <1>2, <1>3 DEF Reading, StatusOK
<1>10. /\ output \in Seq(Ours(program.reader)) /\ output \in Seq(ItemType) /\ applied = 0
       /\ Nested(output, at.section, strayed)
  BY <1>2, <1>9, OursIs DEF ItemsOK
<1>11. output' \in Seq(Ours(program.reader))
  BY <1>1, <1>4, <1>6, <1>10, OursIs, HeaderItems
<1>12. Nested(output', l.path, strayed')
  BY <1>1, <1>4, <1>6, <1>10, HeaderNests
<1>13. applied' \in 0..Len(output') /\ applied' = 0
  <2>1. Len(output') \in Nat
    BY <1>11
  <2> QED
    BY <1>1, <1>10, <2>1
<1>14. ItemsOK'
  BY <1>1, <1>7, <1>9, <1>11, <1>12, <1>13 DEF ItemsOK
<1> QED
  BY <1>5, <1>8, <1>9, <1>14 DEF ReadingInv

LEMMA EndReads == ReadingInv /\ EndOfFile => ReadingInv'
<1> SUFFICES ASSUME ReadingInv, EndOfFile PROVE ReadingInv'
  OBVIOUS
<1>1. /\ status = "reading" /\ status' = "applying"
      /\ output' = SectionsEnded(output, at.section)
      /\ UNCHANGED <<program, written, typed, open, at, applied, strayed>>
  BY DEF EndOfFile
<1>2. FileOK /\ SectionOK /\ ItemsOK
  BY DEF ReadingInv
<1>3. FileOK'
  BY <1>1, <1>2 DEF FileOK, IsTyped, Answers
<1>4. SectionOK'
  BY <1>1, <1>2 DEF SectionOK
<1>5. Reading /\ ~Reading' /\ StatusOK'
  BY <1>1 DEF Reading, StatusOK
<1>6. at.section \in Paths /\ strayed \in BOOLEAN
  BY <1>2 DEF SectionOK, AtType
<1>7. /\ output \in Seq(Ours(program.reader)) /\ output \in Seq(ItemType) /\ applied = 0
      /\ Nested(output, at.section, strayed)
  BY <1>2, <1>5, OursIs DEF ItemsOK
<1>8. output' \in Seq(Ours(program.reader))
  BY <1>1, <1>6, <1>7, OursIs, HeaderItems
<1>9. Unnested(output', strayed)
  BY <1>1, <1>6, <1>7, EndNests
<1>10. applied' \in 0..Len(output')
  <2>1. Len(output') \in Nat
    BY <1>8
  <2> QED
    BY <1>1, <1>7, <2>1
<1>11. ItemsOK'
  BY <1>1, <1>5, <1>8, <1>9, <1>10 DEF ItemsOK
<1> QED
  BY <1>3, <1>4, <1>5, <1>11 DEF ReadingInv

\* A step that reads the line l and leaves open' open.
LEMMA FileKept ==
    ASSUME FileOK, NEW l \in TheLines, Getline(l), program' = program,
           open' = Nothing \/ open' = open
               \/ (IsTyped /\ open' \in OpenType /\ Answers(open'.line))
    PROVE  FileOK'
<1>1. /\ l \in LineType
      /\ written' \in Seq(WrittenType) /\ (IsTyped' => written' = <<>>) /\ typed' \in Nat
  BY LineRead
<1> QED
  BY <1>1 DEF FileOK, IsTyped, Answers

\* Only a line that is typed leaves something open.
LEMMA Opened ==
    ASSUME FileOK, NEW l \in TheLines, Getline(l), program' = program,
           l.kind \notin {"header", "entry"} \/ ~l.closed
    PROVE  IsTyped /\ l \in LineType /\ (l.kind # "header" => Answers(l))
<1>1. l \in LineType /\ (~IsTyped => l \in WrittenType) /\ (l.kind # "header" => Answers(l))
  BY LineRead
<1> QED
  BY <1>1 DEF WrittenType

LEMMA LineReads ==
    ReadingInv /\ (SkipLine \/ OpenComment \/ OpenEntry \/ GoOn \/ CloseComment) => ReadingInv'
<1> SUFFICES ASSUME ReadingInv, SkipLine \/ OpenComment \/ OpenEntry \/ GoOn \/ CloseComment
             PROVE  ReadingInv'
  OBVIOUS
<1>0. FileOK /\ SectionOK /\ ItemsOK /\ StatusOK
  BY DEF ReadingInv
<1>1. UNCHANGED <<program, at, output, status, applied, strayed>>
  BY DEF SkipLine, OpenComment, OpenEntry, GoOn, CloseComment
<1>2. SectionOK' /\ ItemsOK' /\ StatusOK'
  BY <1>0, <1>1, SameSections
<1>3. CASE SkipLine \/ GoOn \/ CloseComment
  <2>1. PICK l \in TheLines : Getline(l) /\ (open' = Nothing \/ open' = open)
    BY <1>3 DEF SkipLine, GoOn, CloseComment
  <2>2. FileOK'
    BY <1>0, <1>1, <2>1, FileKept
  <2> QED
    BY <1>2, <2>2 DEF ReadingInv
<1>4. CASE OpenComment
  <2>1. PICK l \in TheLines :
          /\ Getline(l) /\ l.kind = "quotes" /\ ~l.closed
          /\ open' = [kind |-> "comment", until |-> l.quote, line |-> l]
    BY <1>4 DEF OpenComment
  <2>2. IsTyped /\ l \in LineType /\ Answers(l)
    BY <1>0, <1>1, <2>1, Opened
  <2>3. open' \in OpenType /\ open'.line = l
    BY <2>1, <2>2 DEF OpenType, LineType, Endings
  <2>4. FileOK'
    BY <1>0, <1>1, <2>1, <2>2, <2>3, FileKept
  <2> QED
    BY <1>2, <2>4 DEF ReadingInv
<1>5. CASE OpenEntry
  <2>1. PICK l \in TheLines :
          /\ Getline(l) /\ l.kind \in {"array", "text"} /\ ~l.closed
          /\ open' = [kind |-> l.kind, until |-> IF l.kind = "array" THEN "bracket" ELSE l.quote,
                      line |-> l]
    BY <1>5 DEF OpenEntry
  <2>2. IsTyped /\ l \in LineType /\ Answers(l)
    BY <1>0, <1>1, <2>1, Opened
  <2>3. l.path # <<>> /\ l.quote \in Endings /\ "bracket" \in Endings
    BY <2>1, <2>2 DEF LineType, Endings
  <2>4. open' \in OpenType /\ open'.line = l
    BY <2>1, <2>2, <2>3 DEF OpenType
  <2>5. FileOK'
    BY <1>0, <1>1, <2>1, <2>2, <2>4, FileKept
  <2> QED
    BY <1>2, <2>5 DEF ReadingInv
<1> QED
  BY <1>3, <1>4, <1>5

LEMMA EntryLineReads == ReadingInv /\ (EnterLine \/ CloseEntry) => ReadingInv'
<1> SUFFICES ASSUME ReadingInv, EnterLine \/ CloseEntry PROVE ReadingInv'
  OBVIOUS
<1>0. FileOK /\ SectionOK /\ ItemsOK /\ StatusOK /\ program \in ProgramType
  BY DEF ReadingInv, FileOK
<1> DEFINE Read(l, k) ==
        /\ Getline(l) /\ Enter(k) /\ (open' = Nothing \/ open' = open)
        /\ \/ k = l /\ l.kind \in {"entry", "array", "text"}
           \/ k = open.line /\ open.kind \in {"array", "text"}
<1>7. PICK l \in TheLines : \E k : Read(l, k)
  <2>1. CASE EnterLine
    BY <2>1 DEF EnterLine
  <2>2. CASE CloseEntry
    BY <2>2 DEF CloseEntry
  <2> QED
    BY <2>1, <2>2
<1>1. PICK k : Read(l, k)
  BY <1>7
<1>2. program' = program
  BY <1>1 DEF Enter
<1>3. l \in LineType /\ status = "reading" /\ (l.kind # "header" => Answers(l))
  BY <1>0, <1>1, <1>2, LineRead
<1>4. k \in LineType /\ k.path # <<>> /\ Answers(k)
  <2>1. CASE k = l /\ l.kind \in {"entry", "array", "text"}
    BY <1>3, <2>1 DEF LineType
  <2>2. CASE k = open.line /\ open.kind \in {"array", "text"}
    <3>1. open \in OpenType /\ Answers(open.line)
      BY <1>0, <2>2, OpenIs DEF FileOK
    <3> QED
      BY <2>2, <3>1 DEF OpenType
  <2> QED
    BY <1>1, <2>1, <2>2
<1>5. FileOK'
  BY <1>0, <1>1, <1>2, FileKept
<1>6. SectionOK' /\ ItemsOK' /\ StatusOK'
  BY <1>0, <1>1, <1>3, <1>4, EntryReads
<1> QED
  BY <1>5, <1>6 DEF ReadingInv

LEMMA EndInEntryReads == ReadingInv /\ EndInEntry => ReadingInv'
<1> SUFFICES ASSUME ReadingInv, EndInEntry PROVE ReadingInv'
  OBVIOUS
<1>0. FileOK /\ SectionOK /\ ItemsOK /\ StatusOK /\ program \in ProgramType
  BY DEF ReadingInv, FileOK
<1>1. /\ status = "reading" /\ open.kind \in {"array", "text"} /\ Enter(open.line)
      /\ open' = Nothing /\ typed' = Typist.most /\ written' = written
  BY DEF EndInEntry
<1>2. program' = program
  BY <1>1 DEF Enter
<1>3. IsTyped /\ open \in OpenType /\ Answers(open.line)
  BY <1>0, <1>1, OpenIs DEF FileOK
<1>4. open.line \in LineType /\ open.line.path # <<>> /\ Answers(open.line)
  BY <1>1, <1>3 DEF OpenType
<1>5. typed' \in Nat
  BY <1>1, <1>3, TypistIs
<1>6. FileOK'
  BY <1>0, <1>1, <1>2, <1>5 DEF FileOK, IsTyped
<1>7. SectionOK' /\ ItemsOK' /\ StatusOK'
  BY <1>0, <1>1, <1>4, EntryReads
<1> QED
  BY <1>6, <1>7 DEF ReadingInv

LEMMA ReadingNext == ReadingInv /\ [Next]_vars => ReadingInv'
<1>1. ReadingInv /\ UNCHANGED vars => ReadingInv'
  <2> SUFFICES ASSUME ReadingInv, UNCHANGED vars PROVE ReadingInv'
    OBVIOUS
  <2>1. /\ UNCHANGED <<program, at, output, status, applied, strayed>>
        /\ UNCHANGED <<written, typed, open>>
    BY DEF vars, reading
  <2>2. SectionOK' /\ ItemsOK' /\ StatusOK'
    BY <2>1, SameSections DEF ReadingInv
  <2>3. FileOK'
    BY <2>1 DEF ReadingInv, FileOK, IsTyped, Answers
  <2> QED
    BY <2>2, <2>3 DEF ReadingInv
<1> QED
  BY <1>1, HeaderReads, EndReads, LineReads, EntryLineReads, EndInEntryReads, AppliesAre,
     ApplyKeeps DEF Next

LEMMA ReadingStays == Spec => []ReadingInv
<1>1. Init => ReadingInv
  BY InitReads
<1>2. ReadingInv /\ [Next]_vars => ReadingInv'
  BY ReadingNext
<1> QED
  BY <1>1, <1>2, PTL DEF Spec

-----------------------------------------------------------------------------
(* The sections.                                                           *)

\* With configSection and configIndex set, what is read under a header is read
\* under one of that section and index, whatever the file (from_config).
THEOREM OnlyThatSection == Spec => []OnlyTheSection
<1>1. ReadingInv => OnlyTheSection
  <2> SUFFICES ASSUME ReadingInv, ~Whole(program.reader), NEW it \in ToSet(output),
                      it.name \notin {"++", "--"}, it.origin[1] # Default
               PROVE  /\ Head(it.origin[1]) = program.reader.section
                      /\ program.reader.index >= 0 => it.origin[2] = program.reader.index
    BY DEF OnlyTheSection
  <2>1. output \in Seq(Ours(program.reader))
    BY DEF ReadingInv, ItemsOK
  <2>2. it \in Ours(program.reader)
    BY <2>1 DEF ToSet
  <2> QED
    BY <2>2 DEF Ours, Meant
<1> QED
  BY <1>1, ReadingStays, PTL

\* Sections nest, whatever the file: what is opened is closed, in the order of
\* the headers, and never what was not open (from_config, checkParentSegments).
THEOREM SectionsBalance == Spec => []SectionsNest
<1>1. ReadingInv => SectionsNest
  <2> SUFFICES ASSUME ReadingInv PROVE SectionsNest
    OBVIOUS
  <2> DEFINE s == at.section
  <2>1. /\ output \in Seq(Ours(program.reader))
        /\ IF Reading THEN Nested(output, s, strayed) ELSE Unnested(output, strayed)
    BY DEF ReadingInv, ItemsOK
  <2>2. s \in Paths /\ strayed \in BOOLEAN
    BY DEF ReadingInv, SectionOK, AtType
  <2> HIDE DEF s
  <2>3. output \in Seq(ItemType)
    BY <2>1, OursIs
  <2>4. \A i \in DOMAIN output : output[i] \in Readable
    <3>1. output \in Seq(Readable)
      BY <2>1, OursIs
    <3> QED
      BY <3>1
  <2>5. ASSUME NEW it \in ToSet(output), it.name \in {"++", "--"}
        PROVE  it.parents \in Paths /\ it.parents # <<>>
    <3>1. it \in Readable
      BY <2>4 DEF ToSet
    <3> QED
      BY <2>5, <3>1 DEF Readable, ItemType
  <2>6. ASSUME NEW p \in Paths, p # <<>>
        PROVE  /\ Balance(p) = Bal(output, p) /\ Balance(p) \in Int
               /\ ~Among(p, Default, 0) /\ (Among(p, s, Len(s)) <=> IsPrefix(p, s))
    <3>1. Balance(p) = Bal(output, p) /\ Bal(output, p) \in Int
      <4>1. <<>> \in Seq(ItemType)
        OBVIOUS
      <4> QED
        BY <2>3, <4>1, BalanceIs, BalJoined
    <3>2. Len(p) \in Nat /\ Len(p) # 0 /\ Len(s) \in Nat
      BY <2>2, <2>6, PathsAre
    <3>3. Prefix(p, Len(p)) = p
      BY PrefixesAre
    <3>4. ~Among(p, Default, 0)
      BY <3>2 DEF Among
    <3>5. Among(p, s, Len(s)) <=> IsPrefix(p, s)
      BY <2>6, <3>3 DEF Among, IsPrefix, Prefix
    <3> QED
      BY <3>1, <3>4, <3>5
  <2>7. ASSUME NEW p \in Paths, p # <<>>
        PROVE  /\ Balance(p) >= 0
               /\ ~strayed =>
                    IF Reading THEN Balance(p) = IF IsPrefix(p, s) THEN 1 ELSE 0
                    ELSE Balance(p) = 0
    <3>1. CASE Reading
      <4>1. /\ Balance(p) >= IF IsPrefix(p, s) THEN 1 ELSE 0
            /\ ~strayed => Balance(p) = IF IsPrefix(p, s) THEN 1 ELSE 0
        BY <2>1, <2>6, <2>7, <3>1 DEF Nested, Held, Exact, Once
      <4> QED
        BY <2>6, <2>7, <3>1, <4>1
    <3>2. CASE ~Reading
      BY <2>1, <2>6, <2>7, <3>2 DEF Unnested, Held, Exact, Once
    <3> QED
      BY <3>1, <3>2
  <2> QED
    BY <2>5, <2>7 DEF SectionsNest, Reading, s
<1> QED
  BY <1>1, ReadingStays, PTL

-----------------------------------------------------------------------------
(* What the items do.                                                      *)

Arguments == (Values \ {Separator}) \cup {"{}"}

\* The rest of TypeOK.
TreeOK ==
    /\ parsed \in [Apps -> Nat] /\ completed \in [Apps -> Nat]
    /\ listed \in [Apps -> Seq(Apps)] /\ \A a \in Apps : listed[a] \in Seq(ToSet(SubsOf[a]))
    /\ seen \in [Apps -> SUBSET (Apps \X Segments)] /\ \A a \in Apps : seen[a] \subseteq Own(a)
    /\ entered \subseteq Apps
    /\ results \in [Options -> Seq(Arguments)]
    /\ missing \in Seq(EntryNames)

LEMMA OwnAre == \A a \in Apps : Own(a) \in SUBSET (Apps \X Segments)
<1>1. \A a \in Apps : ToSet(OptionsOf[a]) \subseteq Segments
  <2> SUFFICES ASSUME NEW a \in Apps PROVE ToSet(OptionsOf[a]) \subseteq Segments
    OBVIOUS
  <2>1. OptionsOf[a] \in Seq(Segments)
    BY TreeTypes
  <2>2. \A i \in DOMAIN OptionsOf[a] : OptionsOf[a][i] \in Segments
    BY <2>1
  <2> QED
    BY <2>2 DEF ToSet
<1> QED
  BY <1>1 DEF Own

LEMMA SubsAre == \A a \in Apps : SubsOf[a] \in Seq(ToSet(SubsOf[a])) /\ ToSet(SubsOf[a]) \subseteq Apps
<1>1. \A a \in Apps : SubsOf[a] \in Seq(Apps) /\ \A s \in ToSet(SubsOf[a]) : s \in Apps
  BY TreeTypes
<1>2. ASSUME NEW a \in Apps PROVE SubsOf[a] \in Seq(ToSet(SubsOf[a]))
  <2> DEFINE s == SubsOf[a]
  <2>1. s \in Seq(Apps)
    BY <1>1
  <2> HIDE DEF s
  <2>2. \A i \in DOMAIN s : s[i] \in ToSet(s)
    BY DEF ToSet
  <2>3. s \in Seq(ToSet(s))
    BY <2>1, <2>2
  <2> QED
    BY <2>3 DEF s
<1> QED
  BY <1>1, <1>2

LEMMA InputsAre ==
    ASSUME NEW it \in Readable
    PROVE  Inputs(it) \in Seq(Arguments)
<1>1. it.inputs \in Seq(Values \cup {Separator}) /\ (it.multiline \/ Separator \notin ToSet(it.inputs))
  BY DEF Readable, ItemType
<1>2. (Values \cup {Separator}) \cap Values \subseteq Arguments
  BY ReaderAssumption DEF Arguments
<1>3. CASE it.multiline
  <2> DEFINE k == Kept(it.inputs, Values)
             S == (Values \cup {Separator}) \cap Values
  <2>1. k \in Seq(S)
    BY <1>1, KeptIs
  <2>2. S \subseteq Arguments
    BY <1>2
  <2>3. Inputs(it) = k
    BY <1>3 DEF Inputs
  <2> HIDE DEF k, S
  <2>4. k \in Seq(Arguments)
    BY <2>1, <2>2
  <2> QED
    BY <2>3, <2>4
<1>4. CASE ~it.multiline
  <2> DEFINE k == it.inputs
             S == Values \cup {Separator}
  <2>1. k \in Seq(S) /\ Separator \notin ToSet(k)
    BY <1>1, <1>4
  <2>2. \A x \in S : x # Separator => x \in Arguments
    BY DEF Arguments
  <2>3. Inputs(it) = k
    BY <1>4 DEF Inputs
  <2> HIDE DEF k, S
  <2>4. \A i \in DOMAIN k : k[i] \in Arguments
    BY <2>1, <2>2 DEF ToSet
  <2>5. k \in Seq(Arguments)
    BY <2>1, <2>4
  <2> QED
    BY <2>3, <2>5
<1> QED
  BY <1>3, <1>4

LEMMA InitTree == Init => TreeOK
<1> SUFFICES ASSUME Init PROVE TreeOK
  OBVIOUS
<1> DEFINE line == program.mode \in DOMAIN Typists
           onLine(a) == line /\ a \in program.got
<1>1. /\ parsed = [a \in Apps |-> IF onLine(a) THEN 1 ELSE 0]
      /\ listed = [a \in Apps |-> Kept(SubsOf[a], { b \in Apps : onLine(b) })]
      /\ entered = { a \in Apps : onLine(a) }
      /\ results = [o \in Options |-> IF line /\ o \in program.given THEN <<Used>> ELSE <<>>]
      /\ seen = [a \in Apps |-> {}] /\ completed = [a \in Apps |-> 0] /\ missing = <<>>
  BY DEF Init
<1> HIDE DEF onLine, line
<1>2. parsed \in [Apps -> Nat] /\ completed \in [Apps -> Nat]
  BY <1>1
<1>3. seen \in [Apps -> SUBSET (Apps \X Segments)] /\ \A a \in Apps : seen[a] \subseteq Own(a)
  BY <1>1
<1>4. entered \subseteq Apps /\ missing \in Seq(EntryNames)
  BY <1>1
<1>5. results \in [Options -> Seq(Arguments)]
  <2>1. Used \in Arguments
    BY FileAssumption, ReaderAssumption DEF Arguments
  <2>2. <<Used>> \in Seq(Arguments) /\ <<>> \in Seq(Arguments)
    BY <2>1
  <2> QED
    BY <1>1, <2>2
<1>6. \A a \in Apps : listed[a] \in Seq(ToSet(SubsOf[a])) /\ listed[a] \in Seq(Apps)
  <2> SUFFICES ASSUME NEW a \in Apps
               PROVE  listed[a] \in Seq(ToSet(SubsOf[a])) /\ listed[a] \in Seq(Apps)
    OBVIOUS
  <2> DEFINE S == ToSet(SubsOf[a])
             T == { b \in Apps : onLine(b) }
             k == Kept(SubsOf[a], T)
  <2>1. SubsOf[a] \in Seq(S) /\ S \subseteq Apps
    BY SubsAre
  <2>2. listed[a] = k
    BY <1>1
  <2> HIDE DEF S, T
  <2>3. k \in Seq(S \cap T)
    BY <2>1, KeptIs
  <2> HIDE DEF k
  <2>4. S \cap T \subseteq S /\ S \cap T \subseteq Apps
    BY <2>1
  <2>5. k \in Seq(S) /\ k \in Seq(Apps)
    BY <2>3, <2>4
  <2> QED
    BY <2>2, <2>5 DEF S
<1>7. listed \in [Apps -> Seq(Apps)]
  BY <1>1, <1>6
<1> QED
  BY <1>2, <1>3, <1>4, <1>5, <1>6, <1>7 DEF TreeOK

LEMMA ItemRead ==
    ASSUME ReadingInv, NEW it \in ToSet(output)
    PROVE  /\ it \in Readable /\ it \in ItemType /\ it.parents \in Paths
           /\ Locate(it.parents) \in Apps \cup {NoApp}
           /\ it.name \in {"++", "--"} => Locate(it.parents) # Root
<1>1. output \in Seq(Readable)
  BY OursIs DEF ReadingInv, ItemsOK
<1>2. it \in Readable
  BY <1>1 DEF ToSet
<1>3. it \in ItemType /\ it.parents \in Paths /\ (it.name \in {"++", "--"} => it.parents # <<>>)
  BY <1>2 DEF Readable, ItemType
<1>4. Locate(it.parents) \in Apps \cup {NoApp} /\ (it.parents # <<>> => Locate(it.parents) # Root)
  BY <1>3, LocateIs DEF Paths
<1> QED
  BY <1>2, <1>3, <1>4

LEMMA OpenSectionTree == ReadingInv /\ TreeOK /\ OpenSection => TreeOK'
<1> SUFFICES ASSUME ReadingInv, TreeOK, OpenSection PROVE TreeOK'
  OBVIOUS
<1>1. PICK it \in ToSet(output) :
        /\ it.name = "++" /\ Locate(it.parents) # NoApp
        /\ LET a      == Locate(it.parents)
               counted == [b \in Apps |->
                            IF b \in Counting(a) THEN parsed[b] + 1 ELSE parsed[b]]
               again  == a \in entered /\ a \in program.immediate /\ ~IsGroup(a)
               lists  == IF again THEN Forgotten(listed, a, <<>>) ELSE listed
           IN  IF a \notin program.configurable THEN UNCHANGED tree
               ELSE /\ parsed' = IF again THEN [Forgotten(counted, a, 0) EXCEPT ![a] = counted[a]]
                                 ELSE counted
                    /\ listed' = [lists EXCEPT ![ParentOf(a)] = Append(@, a)]
                    /\ entered' = IF again THEN (entered \ Under(a)) \cup {a} ELSE entered \cup {a}
                    /\ results' = IF again
                                  THEN [o \in Options |-> IF o[1] \in Under(a) THEN <<>> ELSE results[o]]
                                  ELSE results
                    /\ UNCHANGED <<seen, completed, missing>>
  BY DEF OpenSection
<1> DEFINE a == Locate(it.parents)
           counted == [b \in Apps |->
                        IF b \in Counting(a) THEN parsed[b] + 1 ELSE parsed[b]]
           again  == a \in entered /\ a \in program.immediate /\ ~IsGroup(a)
           lists  == IF again THEN Forgotten(listed, a, <<>>) ELSE listed
           q == ParentOf(a)
<1>2. a \in Apps /\ a # Root
  BY <1>1, ItemRead
<1>3. CASE a \notin program.configurable
  <2>1. UNCHANGED <<parsed, listed, entered, results, seen, completed, missing>>
    BY <1>1, <1>3 DEF tree
  <2> QED
    BY <2>1 DEF TreeOK
<1>4. CASE a \in program.configurable
  <2>1. /\ parsed' = IF again THEN [Forgotten(counted, a, 0) EXCEPT ![a] = counted[a]] ELSE counted
        /\ listed' = [lists EXCEPT ![q] = Append(@, a)]
        /\ entered' = IF again THEN (entered \ Under(a)) \cup {a} ELSE entered \cup {a}
        /\ results' = IF again THEN [o \in Options |-> IF o[1] \in Under(a) THEN <<>> ELSE results[o]]
                      ELSE results
        /\ seen' = seen /\ completed' = completed /\ missing' = missing
    BY <1>1, <1>4
  <2>2. q \in Apps /\ a \in ToSet(SubsOf[q])
    BY <1>2, ParentIs
  <2>3. counted \in [Apps -> Nat]
    <3>1. \A b \in Apps : parsed[b] \in Nat
      BY DEF TreeOK
    <3> QED
      BY <3>1
  <2> HIDE DEF a, counted, again, q
  <2>4. parsed' \in [Apps -> Nat]
    <3>1. Forgotten(counted, a, 0) \in [Apps -> Nat]
      BY <2>3 DEF Forgotten
    <3>2. counted[a] \in Nat
      BY <1>2, <2>3
    <3> QED
      BY <2>1, <2>3, <3>1, <3>2
  <2>5. lists \in [Apps -> Seq(Apps)] /\ \A b \in Apps : lists[b] \in Seq(ToSet(SubsOf[b]))
    <3>1. listed \in [Apps -> Seq(Apps)] /\ \A b \in Apps : listed[b] \in Seq(ToSet(SubsOf[b]))
      BY DEF TreeOK
    <3>2. \A b \in Apps : <<>> \in Seq(ToSet(SubsOf[b])) /\ <<>> \in Seq(Apps)
      OBVIOUS
    <3>3. CASE again
      <4>1. lists = [x \in Apps |-> IF x \in Under(a) THEN <<>> ELSE listed[x]]
        BY <3>1, <3>3 DEF Forgotten
      <4> HIDE DEF lists
      <4>2. \A b \in Apps : lists[b] \in Seq(Apps) /\ lists[b] \in Seq(ToSet(SubsOf[b]))
        BY <3>1, <3>2, <4>1
      <4> QED
        BY <4>1, <4>2
    <3>4. CASE ~again
      BY <3>1, <3>4
    <3> QED
      BY <3>3, <3>4
  <2> HIDE DEF lists
  <2>6. listed' \in [Apps -> Seq(Apps)] /\ \A b \in Apps : listed'[b] \in Seq(ToSet(SubsOf[b]))
    <3> DEFINE v == Append(lists[q], a)
    <3>1. v \in Seq(ToSet(SubsOf[q])) /\ v \in Seq(Apps)
      <4>1. lists[q] \in Seq(ToSet(SubsOf[q])) /\ lists[q] \in Seq(Apps)
        BY <2>2, <2>5
      <4> QED
        BY <1>2, <2>2, <4>1
    <3>2. listed' = [lists EXCEPT ![q] = v]
      BY <2>1
    <3> HIDE DEF v
    <3>3. \A b \in Apps : listed'[b] = IF b = q THEN v ELSE lists[b]
      BY <2>5, <3>2
    <3>4. listed' \in [Apps -> Seq(Apps)]
      BY <2>5, <3>1, <3>2
    <3>5. ASSUME NEW b \in Apps PROVE listed'[b] \in Seq(ToSet(SubsOf[b]))
      BY <2>5, <3>1, <3>3
    <3> QED
      BY <3>4, <3>5
  <2>7. entered' \subseteq Apps
    BY <1>2, <2>1 DEF TreeOK
  <2>8. results' \in [Options -> Seq(Arguments)]
    <3>1. results \in [Options -> Seq(Arguments)] /\ <<>> \in Seq(Arguments)
      BY DEF TreeOK
    <3> QED
      BY <2>1, <3>1
  <2> QED
    BY <2>1, <2>4, <2>6, <2>7, <2>8 DEF TreeOK
<1> QED
  BY <1>3, <1>4

LEMMA CloseSectionTree == ReadingInv /\ TreeOK /\ CloseSection => TreeOK'
<1> SUFFICES ASSUME ReadingInv, TreeOK, CloseSection PROVE TreeOK'
  OBVIOUS
<1>1. PICK it \in ToSet(output) :
        /\ it.name = "--" /\ Locate(it.parents) # NoApp
        /\ LET a == Locate(it.parents)
           IN  \/ UNCHANGED tree
               \/ /\ seen' = [seen EXCEPT ![a] = { o \in Own(a) : results[o] # <<>> }]
                  /\ completed' = [completed EXCEPT ![a] = @ + 1]
                  /\ UNCHANGED <<parsed, listed, entered, results, missing>>
  BY DEF CloseSection, Throws
<1> DEFINE a == Locate(it.parents)
           new == { o \in Own(a) : results[o] # <<>> }
<1>2. a \in Apps
  BY <1>1, ItemRead
<1> HIDE DEF a
<1>3. CASE UNCHANGED tree
  <2>1. UNCHANGED <<parsed, listed, entered, results, seen, completed, missing>>
    BY <1>3 DEF tree
  <2> QED
    BY <2>1 DEF TreeOK
<1>4. CASE /\ seen' = [seen EXCEPT ![a] = new]
           /\ completed' = [completed EXCEPT ![a] = @ + 1]
           /\ UNCHANGED <<parsed, listed, entered, results, missing>>
  <2>1. new \subseteq Own(a) /\ new \in SUBSET (Apps \X Segments)
    BY <1>2, OwnAre
  <2> HIDE DEF new
  <2>2. seen \in [Apps -> SUBSET (Apps \X Segments)] /\ \A b \in Apps : seen[b] \subseteq Own(b)
    BY DEF TreeOK
  <2>3. seen' \in [Apps -> SUBSET (Apps \X Segments)] /\ \A b \in Apps : seen'[b] \subseteq Own(b)
    BY <1>4, <2>1, <2>2
  <2>4. completed' \in [Apps -> Nat]
    BY <1>2, <1>4 DEF TreeOK
  <2> QED
    BY <1>4, <2>3, <2>4 DEF TreeOK
<1> QED
  BY <1>1, <1>3, <1>4 DEF a

LEMMA ExtraTree == ReadingInv /\ TreeOK /\ Extra => TreeOK'
<1> SUFFICES ASSUME ReadingInv, TreeOK, Extra PROVE TreeOK'
  OBVIOUS
<1>1. PICK it \in ToSet(output) :
        /\ Locate(it.parents) = NoApp \/ it.name \notin {"++", "--"}
        /\ missing' = IF Locate(it.parents) # NoApp /\ program.extras = "Capture"
                      THEN Append(missing, it.name) ELSE missing
        /\ UNCHANGED <<parsed, listed, entered, results, seen, completed>>
  BY DEF Extra
<1>2. it.name \notin {"++", "--"} => it.name \in EntryNames
  <2>1. it \in ItemType
    BY ItemRead
  <2> QED
    BY <2>1 DEF ItemType, EntryNames
<1>3. missing' \in Seq(EntryNames)
  <2>1. missing \in Seq(EntryNames)
    BY DEF TreeOK
  <2> QED
    BY <1>1, <1>2, <2>1
<1> QED
  BY <1>1, <1>3 DEF TreeOK

\* The first n of some arguments.
LEMMA FirstOf ==
    ASSUME NEW inputs \in Seq(Arguments), NEW wrong, wrong \subseteq DOMAIN inputs, wrong # {}
    PROVE  SubSeq(inputs, 1, Min(wrong) - 1) \in Seq(Arguments)
<1>1. wrong \subseteq 1..Len(inputs) /\ Len(inputs) \in Nat
  OBVIOUS
<1>2. Min(wrong) \in 1..Len(inputs)
  <2>1. wrong \in SUBSET Nat
    BY <1>1
  <2> QED
    BY <1>1, <2>1, MinOfNats
<1> DEFINE n == Min(wrong) - 1
<1>3. n \in Int /\ n <= Len(inputs)
  BY <1>1, <1>2
<1> HIDE DEF n
<1>4. \A i \in 1..n : inputs[i] \in Arguments
  BY <1>1, <1>3
<1> QED
  BY <1>3, <1>4 DEF n

LEMMA SetOptionTree == ReadingInv /\ TreeOK /\ SetOption => TreeOK'
<1> SUFFICES ASSUME ReadingInv, TreeOK, SetOption PROVE TreeOK'
  OBVIOUS
<1>1. PICK it \in ToSet(output) :
        LET o == <<HomeOf(it), it.name>>
            taken == IF o \in Flags /\ it.inputs = <<>> THEN <<"{}">> ELSE Inputs(it)
            wrong == { i \in DOMAIN Inputs(it) : Inputs(it)[i] \notin FlagWords }
        IN  \/ UNCHANGED tree
            \/ Gets(o, taken)
            \/ Gets(o, Inputs(it))
            \/ wrong # {} /\ Gets(o, SubSeq(Inputs(it), 1, Min(wrong) - 1))
  BY DEF SetOption, Overfull, Throws
<1> DEFINE o == <<HomeOf(it), it.name>>
           taken == IF o \in Flags /\ it.inputs = <<>> THEN <<"{}">> ELSE Inputs(it)
           wrong == { i \in DOMAIN Inputs(it) : Inputs(it)[i] \notin FlagWords }
<1>2. taken \in Seq(Arguments) /\ Inputs(it) \in Seq(Arguments)
  <2>1. Inputs(it) \in Seq(Arguments)
    BY ItemRead, InputsAre
  <2>2. \A x \in Arguments : <<x>> \in Seq(Arguments)
    <3> HIDE DEF o, taken, wrong
    <3> QED
      OBVIOUS
  <2>3. "{}" \in Arguments
    BY Zenon DEF Arguments
  <2>4. <<"{}">> \in Seq(Arguments)
    BY Zenon, <2>2, <2>3
  <2> QED
    BY Zenon, <2>1, <2>4
<1>3. wrong \subseteq DOMAIN Inputs(it)
  OBVIOUS
<1>4. wrong # {} => SubSeq(Inputs(it), 1, Min(wrong) - 1) \in Seq(Arguments)
  <2> HIDE DEF o, taken, wrong
  <2> QED
    BY <1>2, <1>3, FirstOf
<1>5. ASSUME NEW v \in Seq(Arguments), Gets(o, v) PROVE TreeOK'
  <2> HIDE DEF o, taken, wrong
  <2>1. results' \in [Options -> Seq(Arguments)]
    BY <1>5 DEF TreeOK, Gets
  <2> QED
    BY <1>5, <2>1 DEF TreeOK, Gets
<1>6. CASE UNCHANGED tree
  <2>1. UNCHANGED <<parsed, listed, entered, results, seen, completed, missing>>
    BY <1>6 DEF tree
  <2> QED
    BY <2>1 DEF TreeOK
<1>7. \/ UNCHANGED tree
      \/ Gets(o, taken)
      \/ Gets(o, Inputs(it))
      \/ wrong # {} /\ Gets(o, SubSeq(Inputs(it), 1, Min(wrong) - 1))
  BY Zenon, <1>1
<1> HIDE DEF o, taken, wrong
<1> QED
  BY <1>2, <1>4, <1>5, <1>6, <1>7

LEMMA TreeNext == ReadingInv /\ TreeOK /\ [Next]_vars => TreeOK'
<1> SUFFICES ASSUME ReadingInv, TreeOK, [Next]_vars PROVE TreeOK'
  OBVIOUS
<1>1. CASE UNCHANGED tree
  <2>1. UNCHANGED <<parsed, listed, entered, results, seen, completed, missing>>
    BY <1>1 DEF tree
  <2> QED
    BY <2>1 DEF TreeOK
<1>2. CASE UNCHANGED vars
  BY <1>1, <1>2 DEF vars
<1>3. CASE SkipLine \/ OpenComment \/ CloseComment \/ Header \/ EnterLine \/ OpenEntry \/ GoOn
           \/ CloseEntry \/ EndInEntry \/ EndOfFile \/ Finish
  <2>1. UNCHANGED tree
    BY <1>3 DEF SkipLine, OpenComment, CloseComment, Header, EnterLine, OpenEntry, GoOn,
                CloseEntry, EndInEntry, EndOfFile, Finish, Enter
  <2> QED
    BY <1>1, <2>1
<1> QED
  BY <1>2, <1>3, OpenSectionTree, CloseSectionTree, ExtraTree, SetOptionTree DEF Next

LEMMA TreeStays == Spec => []TreeOK
  BY InitTree, TreeNext, ReadingStays, PTL DEF Spec

\* Types, of every step.
THEOREM FileTypes == Spec => []TypeOK
<1>1. ReadingInv /\ TreeOK => TypeOK
  <2> SUFFICES ASSUME ReadingInv, TreeOK PROVE TypeOK
    OBVIOUS
  <2>1. /\ program \in ProgramType /\ typed \in Nat /\ at \in AtType /\ strayed \in BOOLEAN
        /\ written \in Seq(WrittenType) /\ output \in Seq(ItemType) /\ applied \in 0..Len(output)
    BY OursIs DEF ReadingInv, FileOK, SectionOK, ItemsOK
  <2>2. ToSet(written) \subseteq LineType
    <3>1. \A i \in DOMAIN written : written[i] \in WrittenType
      BY <2>1
    <3> QED
      BY <3>1 DEF ToSet, WrittenType
  <2>3. ToSet(output) \subseteq ItemType
    <3>1. \A i \in DOMAIN output : output[i] \in ItemType
      BY <2>1
    <3> QED
      BY <3>1 DEF ToSet
  <2>4. open = Nothing \/ open.until \in Endings
    BY DEF ReadingInv, FileOK, OpenType
  <2>5. missing \in Seq(Segments \cup {""})
    BY DEF TreeOK, EntryNames
  <2>6. /\ parsed \in [Apps -> Nat] /\ completed \in [Apps -> Nat]
        /\ \A a \in Apps : listed[a] \in Seq(ToSet(SubsOf[a])) /\ seen[a] \subseteq Own(a)
        /\ entered \subseteq Apps
    BY DEF TreeOK
  <2>7. results \in [Options -> Seq((Values \ {Separator}) \cup {"{}"})]
    BY DEF TreeOK, Arguments
  <2> QED
    BY Zenon, <2>1, <2>2, <2>3, <2>4, <2>5, <2>6, <2>7 DEF TypeOK, AtType, ReadingInv, StatusOK
<1> QED
  BY <1>1, TreeStays, ReadingStays, PTL

-----------------------------------------------------------------------------
(* CompletionSeesSection                                                   *)

\* The option an item is for, if its App holds that itself.
OptionOf(it) == <<Locate(it.parents), it.name>>

\* What the property speaks of.
Sets(it) ==
    /\ it.name \notin {"++", "--"}
    /\ it.parents = it.origin[1] /\ it.parents # <<>>
    /\ Locate(it.parents) \in program.configurable \cap program.completes
    /\ \A b \in program.immediate : Locate(it.parents) \notin Under(b)
    /\ OptionOf(it) \in Options \ Locked /\ (it.inputs # <<>> \/ OptionOf(it) \in Flags)

\* The section that an item is in is still to be closed when n items have
\* been applied.
ToClose(it, n) == \E j \in DOMAIN output : j > n /\ output[j] \in Closing(it.parents)

\* What an item has set stays set, and the end of its section is still to
\* come or has been seen to.
SeenInv ==
    /\ status = "done" => applied = Len(output)
    /\ status \in {"applying", "done"} /\ ~strayed =>
        \A i \in DOMAIN output : i <= applied /\ Sets(output[i]) =>
            /\ results[OptionOf(output[i])] # <<>>
            /\ \/ OptionOf(output[i]) \in seen[Locate(output[i].parents)]
               \/ ToClose(output[i], applied)

\* An item that sets something is found.
LEMMA SetsIs ==
    ASSUME ReadingInv, NEW it \in ToSet(output), Sets(it)
    PROVE  /\ it \in Readable /\ Locate(it.parents) \in Apps
           /\ Locate(it.parents) # NoApp /\ HomeOf(it) = Locate(it.parents)
           /\ OptionOf(it) \in Own(Locate(it.parents)) /\ OptionOf(it) \in Options
<1> DEFINE a == Locate(it.parents)
<1>1. program \in ProgramType /\ it \in Readable
  BY ItemRead DEF ReadingInv, FileOK
<1>2. a \in program.configurable /\ <<a, it.name>> \in Options
  BY DEF Sets, OptionOf
<1>3. program.configurable \subseteq Apps
  BY <1>1 DEF ProgramType
<1> HIDE DEF a
<1>4. a \in Apps /\ a # NoApp
  BY <1>2, <1>3, TreeTypes
<1>5. it.name \in ToSet(OptionsOf[a])
  BY <1>2 DEF Options
<1>6. FindOption(a, it.name) = a
  BY <1>4, <1>5, OptionIs
<1>7. HomeOf(it) = a
  BY <1>4, <1>6 DEF HomeOf, a
<1>8. <<a, it.name>> \in Own(a)
  BY <1>5 DEF Own
<1> QED
  BY <1>1, <1>2, <1>4, <1>7, <1>8 DEF a, OptionOf

\* What an item sets is something.
LEMMA SetsSomething ==
    ASSUME NEW it \in Readable, it.inputs # <<>>
    PROVE  Inputs(it) # <<>>
<1>1. /\ it.inputs \in Seq(Values \cup {Separator})
      /\ ToSet(it.inputs) \cap Values # {}
  BY DEF Readable, ItemType
<1>2. CASE it.multiline
  <2> DEFINE k == Kept(it.inputs, Values)
  <2>1. ToSet(k) = ToSet(it.inputs) \cap Values
    BY <1>1, KeptIs
  <2>2. Inputs(it) = k
    BY <1>2 DEF Inputs
  <2> HIDE DEF k
  <2>3. ToSet(k) # {}
    BY <1>1, <2>1
  <2>4. ToSet(<<>>) = {}
    BY DEF ToSet
  <2> QED
    BY <2>2, <2>3, <2>4
<1>3. CASE ~it.multiline
  BY <1>3 DEF Inputs
<1> QED
  BY <1>2, <1>3

\* After the end of the file the closing of each section is behind what was
\* read in it.
LEMMA ClosingComes ==
    ASSUME ReadingInv, ~Reading, ~strayed, NEW i \in DOMAIN output, Sets(output[i])
    PROVE  ToClose(output[i], i)
<1>1. Enclosed(output, Default, 0)
  BY DEF ReadingInv, ItemsOK, Unnested, Exact
<1>2. output[i] \in ToSet(output)
  BY DEF ToSet
<1>3. /\ output[i].name \notin {"++", "--"} /\ output[i].origin[1] = output[i].parents
      /\ output[i].parents # Default /\ output[i].parents \in Paths
  BY <1>2, ItemRead DEF Sets, Default
<1>4. ~Among(output[i].parents, Default, 0)
  <2>1. Len(output[i].parents) \in Nat /\ Len(output[i].parents) # 0
    BY <1>3, PathsAre DEF Default
  <2> QED
    BY <2>1 DEF Among
<1> QED
  BY <1>1, <1>3, <1>4 DEF Enclosed, ToClose

\* What a step of _parse_config must not do.
LEMMA SeenStep ==
    ASSUME ReadingInv, SeenInv, UNCHANGED <<program, output, strayed>>,
           status = "applying", status' # "done",
           applied < Len(output), applied' = applied + 1,
           NEW it, it = output[applied + 1],
           \A x \in ToSet(output) : status' = "applying" /\ Sets(x) =>
                /\ results[OptionOf(x)] # <<>> \/ x = it => results'[OptionOf(x)] # <<>>
                /\ results[OptionOf(x)] # <<>>
                     /\ (OptionOf(x) \in seen[Locate(x.parents)] \/ it \in Closing(x.parents))
                   => OptionOf(x) \in seen'[Locate(x.parents)]
    PROVE  SeenInv'
<1>1. applied \in Nat /\ Len(output) \in Nat /\ DOMAIN output = 1..Len(output) /\ ~Reading
  <2>1. output \in Seq(ItemType) /\ applied \in 0..Len(output)
    BY OursIs DEF ReadingInv, ItemsOK
  <2> QED
    BY <2>1 DEF Reading
<1>2. SUFFICES ASSUME status' = "applying", ~strayed, NEW i \in DOMAIN output,
                      i <= applied + 1, Sets(output[i])
               PROVE  /\ results'[OptionOf(output[i])] # <<>>
                      /\ \/ OptionOf(output[i]) \in seen'[Locate(output[i].parents)]
                         \/ ToClose(output[i], applied + 1)
  BY DEF SeenInv, Sets, ToClose
<1> DEFINE x == output[i]
<1>3. x \in ToSet(output)
  BY DEF ToSet
<1>4. /\ results[OptionOf(x)] # <<>> \/ x = it => results'[OptionOf(x)] # <<>>
      /\ results[OptionOf(x)] # <<>>
           /\ (OptionOf(x) \in seen[Locate(x.parents)] \/ it \in Closing(x.parents))
         => OptionOf(x) \in seen'[Locate(x.parents)]
  BY <1>2, <1>3
<1>5. CASE i <= applied
  <2>1. /\ results[OptionOf(x)] # <<>>
        /\ OptionOf(x) \in seen[Locate(x.parents)] \/ ToClose(x, applied)
    BY <1>2, <1>5 DEF SeenInv
  <2>2. ToClose(x, applied) => ToClose(x, applied + 1) \/ it \in Closing(x.parents)
    <3> SUFFICES ASSUME NEW j \in DOMAIN output, j > applied, output[j] \in Closing(x.parents)
                 PROVE  ToClose(x, applied + 1) \/ it \in Closing(x.parents)
      BY DEF ToClose
    <3>1. j = applied + 1 \/ j > applied + 1
      BY <1>1
    <3> QED
      BY <3>1 DEF ToClose
  <2> QED
    BY <1>4, <2>1, <2>2
<1>6. CASE i = applied + 1
  <2>1. ToClose(x, applied + 1)
    BY <1>1, <1>2, <1>6, ClosingComes
  <2> QED
    BY <1>4, <1>6, <2>1
<1>7. i <= applied \/ i = applied + 1
  BY <1>1, <1>2
<1> QED
  BY <1>5, <1>6, <1>7

LEMMA OpenSectionSees == ReadingInv /\ TreeOK /\ SeenInv /\ OpenSection => SeenInv'
<1> SUFFICES ASSUME ReadingInv, TreeOK, SeenInv, OpenSection PROVE SeenInv'
  OBVIOUS
<1>1. PICK it \in ToSet(output) :
        /\ Applying(it) /\ it.name = "++" /\ seen' = seen
        /\ \/ results' = results
           \/ /\ Locate(it.parents) \in program.immediate
              /\ results' = [o \in Options |-> IF o[1] \in Under(Locate(it.parents)) THEN <<>> ELSE results[o]]
        /\ status' = status /\ Applied
  BY DEF OpenSection, tree
<1>2. ASSUME NEW x \in ToSet(output), Sets(x)
      PROVE  /\ results[OptionOf(x)] # <<>> \/ x = it => results'[OptionOf(x)] # <<>>
             /\ results[OptionOf(x)] # <<>>
                  /\ (OptionOf(x) \in seen[Locate(x.parents)] \/ it \in Closing(x.parents))
                => OptionOf(x) \in seen'[Locate(x.parents)]
  <2>1. x # it /\ it \notin Closing(x.parents)
    BY <1>1, <1>2 DEF Sets, Closing
  <2>2. CASE results' = results
    BY <1>1, <2>1, <2>2
  <2>3. CASE /\ Locate(it.parents) \in program.immediate
             /\ results' = [o \in Options |-> IF o[1] \in Under(Locate(it.parents)) THEN <<>> ELSE results[o]]
    <3>1. OptionOf(x) \in Options /\ OptionOf(x)[1] = Locate(x.parents)
      BY <1>2, SetsIs DEF OptionOf
    <3>2. Locate(x.parents) \notin Under(Locate(it.parents))
      BY <1>2, <2>3 DEF Sets
    <3>3. results'[OptionOf(x)] = results[OptionOf(x)]
      BY <2>3, <3>1, <3>2
    <3> QED
      BY <1>1, <2>1, <3>3
  <2> QED
    BY <1>1, <2>2, <2>3
<1> QED
  BY <1>1, <1>2, SeenStep DEF Applying, Applied, reading

LEMMA CloseSectionSees == ReadingInv /\ TreeOK /\ SeenInv /\ CloseSection => SeenInv'
<1> SUFFICES ASSUME ReadingInv, TreeOK, SeenInv, CloseSection PROVE SeenInv'
  OBVIOUS
<1>1. PICK it \in ToSet(output) :
        /\ Applying(it) /\ it.name = "--" /\ Applied
        /\ LET a == Locate(it.parents)
           IN  \/ status' = "CallbackError"
               \/ /\ a \notin program.configurable \cap program.completes
                  /\ UNCHANGED <<status, results, seen>>
               \/ /\ seen' = [seen EXCEPT ![a] = { o \in Own(a) : results[o] # <<>> }]
                  /\ UNCHANGED <<status, results>>
  BY DEF CloseSection, Throws, tree
<1> DEFINE a == Locate(it.parents)
<1>2. ASSUME NEW x \in ToSet(output), Sets(x), status' = "applying"
      PROVE  /\ results[OptionOf(x)] # <<>> \/ x = it => results'[OptionOf(x)] # <<>>
             /\ results[OptionOf(x)] # <<>>
                  /\ (OptionOf(x) \in seen[Locate(x.parents)] \/ it \in Closing(x.parents))
                => OptionOf(x) \in seen'[Locate(x.parents)]
  <2>1. x # it
    BY <1>1, <1>2 DEF Sets
  <2>2. it \in Closing(x.parents) => a = Locate(x.parents)
    BY DEF Closing
  <2>3. /\ Locate(x.parents) \in Apps /\ OptionOf(x) \in Own(Locate(x.parents))
        /\ Locate(x.parents) \in program.configurable \cap program.completes
    BY <1>2, SetsIs DEF Sets
  <2>4. seen \in [Apps -> SUBSET (Apps \X Segments)]
    BY DEF TreeOK
  <2>5. CASE a \notin program.configurable \cap program.completes /\ UNCHANGED <<status, results, seen>>
    BY <2>1, <2>2, <2>3, <2>5
  <2>6. CASE /\ seen' = [seen EXCEPT ![a] = { o \in Own(a) : results[o] # <<>> }]
             /\ UNCHANGED <<status, results>>
    <3> HIDE DEF a
    <3>1. seen'[Locate(x.parents)] = IF Locate(x.parents) = a THEN { o \in Own(a) : results[o] # <<>> }
                                     ELSE seen[Locate(x.parents)]
      BY <2>3, <2>4, <2>6
    <3> QED
      BY <2>1, <2>2, <2>3, <2>6, <3>1
  <2> QED
    BY <1>1, <1>2, <2>5, <2>6
<1>3. status' # "done"
  BY <1>1 DEF Applying
<1> QED
  BY <1>1, <1>2, <1>3, SeenStep DEF Applying, Applied, reading

LEMMA ExtraSees == ReadingInv /\ TreeOK /\ SeenInv /\ Extra => SeenInv'
<1> SUFFICES ASSUME ReadingInv, TreeOK, SeenInv, Extra PROVE SeenInv'
  OBVIOUS
<1>1. PICK it \in ToSet(output) :
        /\ Applying(it) /\ Applied
        /\ Locate(it.parents) = NoApp \/ (it.name \notin {"++", "--"} /\ HomeOf(it) = NoApp)
        /\ status' \in {"ConfigExtras", status} /\ UNCHANGED <<results, seen>>
  BY DEF Extra
<1>2. ASSUME NEW x \in ToSet(output), Sets(x)
      PROVE  /\ results[OptionOf(x)] # <<>> \/ x = it => results'[OptionOf(x)] # <<>>
             /\ results[OptionOf(x)] # <<>>
                  /\ (OptionOf(x) \in seen[Locate(x.parents)] \/ it \in Closing(x.parents))
                => OptionOf(x) \in seen'[Locate(x.parents)]
  <2>1. Locate(x.parents) # NoApp /\ HomeOf(x) # NoApp
    BY <1>2, SetsIs
  <2>2. x # it
    BY <1>1, <2>1
  <2>3. it \notin Closing(x.parents)
    BY <1>1, <2>1 DEF Closing
  <2> QED
    BY <1>1, <2>2, <2>3
<1>3. status' # "done"
  BY <1>1 DEF Applying
<1> QED
  BY <1>1, <1>2, <1>3, SeenStep DEF Applying, Applied, reading

\* What _parse_single_config may throw for an option.
Thrown == {"NotConfigurable", "ConversionError", "ArgumentMismatch", "InvalidError"}

LEMMA SetOptionSees == ReadingInv /\ TreeOK /\ SeenInv /\ SetOption => SeenInv'
<1> SUFFICES ASSUME ReadingInv, TreeOK, SeenInv, SetOption PROVE SeenInv'
  OBVIOUS
<1> DEFINE taken(o, it) == IF o \in Flags /\ it.inputs = <<>> THEN <<"{}">> ELSE Inputs(it)
<1>1. PICK it \in ToSet(output) :
        /\ Applying(it) /\ Applied /\ it.name \notin {"++", "--"}
        /\ LET o == <<HomeOf(it), it.name>>
           IN  \/ status' \in Thrown
               \/ o \in Locked /\ UNCHANGED <<status, results, seen>>
               \/ results[o] # <<>> /\ UNCHANGED <<status, results, seen>>
               \/ /\ results[o] = <<>>
                  /\ \/ results' = [results EXCEPT ![o] = taken(o, it)]
                     \/ /\ Len(it.inputs) > 1
                        /\ results' = [results EXCEPT ![o] = Inputs(it)]
                  /\ UNCHANGED <<status, seen>>
  BY DEF SetOption, TooMany, Overfull, Gets, Throws, tree, Fresh, Thrown
<1> DEFINE o == <<HomeOf(it), it.name>>
           value == taken(o, it)
<1>2. it.inputs # <<>> \/ o \in Flags => value # <<>>
  <2>1. it \in Readable
    BY ItemRead
  <2>2. it.inputs # <<>> => Inputs(it) # <<>>
    BY <2>1, SetsSomething
  <2>3. \A v : <<v>> # <<>>
    OBVIOUS
  <2>4. <<"{}">> # <<>>
    BY Zenon, <2>3
  <2> QED
    BY Zenon, <2>2, <2>4
<1>3. \/ status' \in Thrown
      \/ o \in Locked /\ UNCHANGED <<status, results, seen>>
      \/ results[o] # <<>> /\ UNCHANGED <<status, results, seen>>
      \/ results[o] = <<>> /\ results' = [results EXCEPT ![o] = value] /\ UNCHANGED <<status, seen>>
  <2>1. Len(it.inputs) > 1 => it.inputs # <<>>
    OBVIOUS
  <2>2. Len(it.inputs) > 1 => Inputs(it) = value
    BY Zenon, <2>1
  <2> QED
    BY Zenon, <1>1, <2>2
<1> HIDE DEF value, taken
<1>5. status' # "done" /\ (status' \in Thrown => status' # "applying")
  BY <1>3, <1>1 DEF Applying, Thrown
<1>4. ASSUME NEW x \in ToSet(output), Sets(x), status' = "applying"
      PROVE  /\ results[OptionOf(x)] # <<>> \/ x = it => results'[OptionOf(x)] # <<>>
             /\ results[OptionOf(x)] # <<>>
                  /\ (OptionOf(x) \in seen[Locate(x.parents)] \/ it \in Closing(x.parents))
                => OptionOf(x) \in seen'[Locate(x.parents)]
  <2>1. it \notin Closing(x.parents)
    BY <1>1 DEF Closing
  <2>2. /\ OptionOf(x) \in Options \ Locked
        /\ x.inputs # <<>> \/ OptionOf(x) \in Flags
    BY <1>4 DEF Sets
  <2>3. x = it => OptionOf(x) = o
    BY <1>4, SetsIs DEF OptionOf
  <2>4. results \in [Options -> Seq(Arguments)]
    BY DEF TreeOK
  <2> HIDE DEF o
  <2>5. CASE results[o] = <<>> /\ results' = [results EXCEPT ![o] = value] /\ UNCHANGED <<status, seen>>
    <3>1. results'[OptionOf(x)] = IF OptionOf(x) = o THEN value ELSE results[OptionOf(x)]
      BY <2>2, <2>4, <2>5
    <3>2. x = it => value # <<>>
      BY <1>2, <2>2, <2>3
    <3> QED
      BY <2>1, <2>3, <2>5, <3>1, <3>2
  <2>6. CASE (o \in Locked \/ results[o] # <<>>) /\ UNCHANGED <<status, results, seen>>
    BY <2>1, <2>2, <2>3, <2>6
  <2> QED
    BY <1>3, <1>4, <1>5, <2>5, <2>6
<1> QED
  BY <1>1, <1>4, <1>5, SeenStep DEF Applying, Applied, reading

LEMMA SeenNext == ReadingInv /\ TreeOK /\ SeenInv /\ [Next]_vars => SeenInv'
<1> SUFFICES ASSUME ReadingInv, TreeOK, SeenInv, [Next]_vars PROVE SeenInv'
  OBVIOUS
<1>1. CASE UNCHANGED vars
  BY <1>1 DEF vars, reading, tree, SeenInv, Sets, ToClose
<1>2. CASE SkipLine \/ OpenComment \/ CloseComment \/ Header \/ EnterLine \/ OpenEntry \/ GoOn
           \/ CloseEntry \/ EndInEntry
  <2>1. status' \in {"reading", "ParseError"}
    BY <1>2 DEF SkipLine, OpenComment, CloseComment, Header, EnterLine, OpenEntry, GoOn,
                CloseEntry, EndInEntry, Enter, Getline
  <2> QED
    BY <2>1 DEF SeenInv
<1>3. CASE EndOfFile
  <2>1. /\ status' = "applying" /\ applied' = 0
    BY <1>3 DEF EndOfFile, ReadingInv, ItemsOK, Reading
  <2>2. output' \in Seq(ItemType)
    BY ReadingNext, OursIs DEF ReadingInv, ItemsOK
  <2>3. \A i \in DOMAIN output' : ~(i <= applied')
    BY <2>1, <2>2
  <2> QED
    BY <2>1, <2>3 DEF SeenInv
<1>4. CASE Finish
  <2>1. /\ status = "applying" /\ status' = "done" /\ applied = Len(output)
        /\ UNCHANGED <<program, output, applied, strayed, results, seen>>
    BY <1>4 DEF Finish, reading, tree
  <2> QED
    BY <2>1 DEF SeenInv, Sets, ToClose
<1> QED
  BY <1>1, <1>2, <1>3, <1>4, OpenSectionSees, CloseSectionSees, ExtraSees, SetOptionSees DEF Next

\* CompletionSeesSection, of every program and every file.
THEOREM SectionsComplete == Spec => []CompletionSeesSection
<1>1. Init => SeenInv
  BY DEF Init, SeenInv
<1>2. ReadingInv /\ SeenInv => CompletionSeesSection
  <2> SUFFICES ASSUME ReadingInv, SeenInv, status = "done", ~strayed,
                      NEW it \in ToSet(output), Sets(it)
               PROVE  OptionOf(it) \in seen[Locate(it.parents)]
    BY DEF CompletionSeesSection, Sets, OptionOf
  <2>1. PICK i \in DOMAIN output : it = output[i]
    BY DEF ToSet
  <2>2. applied = Len(output) /\ Len(output) \in Nat /\ DOMAIN output = 1..Len(output)
    <3>1. output \in Seq(ItemType)
      BY OursIs DEF ReadingInv, ItemsOK
    <3> QED
      BY <3>1 DEF SeenInv
  <2>3. OptionOf(it) \in seen[Locate(it.parents)] \/ ToClose(it, applied)
    BY <2>1, <2>2 DEF SeenInv
  <2> QED
    BY <2>2, <2>3 DEF ToClose
<1> QED
  BY <1>1, <1>2, InitTree, TreeStays, SeenNext, ReadingStays, PTL DEF Spec
==============================================================================
