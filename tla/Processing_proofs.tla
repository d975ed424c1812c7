--------------------------- MODULE Processing_proofs --------------------------
(***************************************************************************)
(* What holds of every tree of Apps, whatever it requires and whatever     *)
(* files hold: proofs about Processing.  What is to come stands on the     *)
(* agenda, so the invariant says of each call what must and what must not  *)
(* stand behind it; such a condition is kept when the first call is taken  *)
(* off and when calls that meet it are put in front.                       *)
(***************************************************************************)
EXTENDS Processing, AppTree_proofs, SequenceTheorems

-----------------------------------------------------------------------------
(* Sequences of calls.                                                     *)

\* What stands behind place i.
Rest(s, i) == { s[j] : j \in { k \in DOMAIN s : k > i } }

LEMMA ToSetTaken ==
    ASSUME NEW S, NEW s \in Seq(S), s # <<>>
    PROVE  /\ Head(s) \in S /\ Tail(s) \in Seq(S)
           /\ ToSet(s) = {Head(s)} \cup ToSet(Tail(s))
           /\ Rest(s, 1) = ToSet(Tail(s))
           /\ \A i \in DOMAIN Tail(s) :
                i + 1 \in DOMAIN s /\ Tail(s)[i] = s[i + 1] /\ Rest(Tail(s), i) = Rest(s, i + 1)
<1>1. /\ Head(s) = s[1] /\ Tail(s) \in Seq(S) /\ Len(Tail(s)) = Len(s) - 1 /\ Len(s) \in Nat
      /\ \A i \in 1..(Len(s) - 1) : Tail(s)[i] = s[i + 1]
      /\ DOMAIN s = 1..Len(s) /\ DOMAIN Tail(s) = 1..(Len(s) - 1) /\ Len(s) > 0
      /\ \A i \in DOMAIN s : s[i] \in S
  OBVIOUS
<1> DEFINE t == Tail(s)
<1> HIDE DEF t
<1>2. /\ t \in Seq(S) /\ DOMAIN t = 1..(Len(s) - 1)
      /\ \A i \in 1..(Len(s) - 1) : t[i] = s[i + 1]
  BY <1>1 DEF t
<1>3. ASSUME NEW i \in Nat PROVE Rest(t, i) = Rest(s, i + 1)
  <2>1. ASSUME NEW j \in DOMAIN t, j > i PROVE t[j] \in Rest(s, i + 1)
    <3>1. j + 1 \in DOMAIN s /\ j + 1 > i + 1 /\ t[j] = s[j + 1]
      BY <1>1, <1>2, <2>1
    <3> QED
      BY <3>1 DEF Rest
  <2>2. ASSUME NEW j \in DOMAIN s, j > i + 1 PROVE s[j] \in Rest(t, i)
    <3>1. j - 1 \in DOMAIN t /\ j - 1 > i /\ s[j] = t[j - 1]
      BY <1>1, <1>2, <2>2
    <3> QED
      BY <3>1 DEF Rest
  <2> QED
    BY <2>1, <2>2 DEF Rest
<1>4. ToSet(t) = Rest(s, 1)
  <2>1. ToSet(t) = Rest(t, 0)
    BY <1>1, <1>2 DEF ToSet, Rest
  <2>2. Rest(t, 0) = Rest(s, 0 + 1)
    BY <1>3
  <2> QED
    BY <2>1, <2>2
<1>5. ToSet(s) = {s[1]} \cup Rest(s, 1)
  BY <1>1 DEF ToSet, Rest
<1>6. ASSUME NEW i \in DOMAIN t
      PROVE  i + 1 \in DOMAIN s /\ t[i] = s[i + 1] /\ Rest(t, i) = Rest(s, i + 1)
  <2>1. i \in 1..(Len(s) - 1) /\ i \in Nat
    BY <1>1, <1>2
  <2>2. i + 1 \in DOMAIN s
    BY <1>1, <2>1
  <2>3. t[i] = s[i + 1]
    BY <1>2, <2>1
  <2>4. Rest(t, i) = Rest(s, i + 1)
    BY <1>3, <2>1
  <2> QED
    BY <2>2, <2>3, <2>4
<1>7. Head(s) \in S
  BY <1>1
<1>8. ToSet(s) = {Head(s)} \cup ToSet(t)
  BY <1>1, <1>4, <1>5
<1> QED
  BY <1>1, <1>4, <1>6, <1>7, <1>8 DEF t

\* Two sequences joined: what stands behind a place.
LEMMA RestJoined ==
    ASSUME NEW S, NEW s \in Seq(S), NEW t \in Seq(S)
    PROVE  /\ \A i \in DOMAIN s : (s \o t)[i] = s[i] /\ Rest(s \o t, i) = Rest(s, i) \cup ToSet(t)
           /\ \A i \in DOMAIN (s \o t) : i \notin DOMAIN s =>
                \E k \in DOMAIN t : /\ (s \o t)[i] = t[k] /\ Rest(s \o t, i) = Rest(t, k)
                                    /\ i = Len(s) + k
<1> DEFINE u == s \o t
<1>1. /\ u \in Seq(S) /\ Len(s) \in Nat /\ Len(t) \in Nat
      /\ DOMAIN s = 1..Len(s) /\ DOMAIN t = 1..Len(t) /\ DOMAIN u = 1..(Len(s) + Len(t))
      /\ \A i \in 1..Len(s) : u[i] = s[i]
      /\ \A i \in 1..Len(t) : u[Len(s) + i] = t[i]
  OBVIOUS
<1> HIDE DEF u
<1>2. ASSUME NEW i \in DOMAIN s PROVE Rest(u, i) = Rest(s, i) \cup ToSet(t)
  <2>1. ASSUME NEW j \in DOMAIN u, j > i PROVE u[j] \in Rest(s, i) \cup ToSet(t)
    <3>1. CASE j <= Len(s)
      BY <1>1, <2>1, <3>1 DEF Rest
    <3>2. CASE j > Len(s)
      <4>1. j - Len(s) \in DOMAIN t /\ u[j] = t[j - Len(s)]
        BY <1>1, <3>2
      <4> QED
        BY <4>1 DEF ToSet
    <3> QED
      BY <1>1, <3>1, <3>2
  <2>2. ASSUME NEW j \in DOMAIN s, j > i PROVE s[j] \in Rest(u, i)
    BY <1>1, <2>2 DEF Rest
  <2>3. ASSUME NEW j \in DOMAIN t PROVE t[j] \in Rest(u, i)
    <3>1. Len(s) + j \in DOMAIN u /\ Len(s) + j > i /\ u[Len(s) + j] = t[j]
      BY <1>1
    <3> QED
      BY <3>1 DEF Rest
  <2> QED
    BY <2>1, <2>2, <2>3 DEF Rest, ToSet
<1>3. ASSUME NEW i \in DOMAIN u, i \notin DOMAIN s
      PROVE  \E k \in DOMAIN t : u[i] = t[k] /\ Rest(u, i) = Rest(t, k) /\ i = Len(s) + k
  <2> DEFINE k == i - Len(s)
  <2>1. k \in DOMAIN t /\ u[i] = t[k] /\ i = Len(s) + k
    BY <1>1, <1>3
  <2>2. ASSUME NEW j \in DOMAIN u, j > i PROVE u[j] \in Rest(t, k)
    <3>1. j - Len(s) \in DOMAIN t /\ j - Len(s) > k /\ u[j] = t[j - Len(s)]
      BY <1>1, <1>3, <2>2
    <3> QED
      BY <3>1 DEF Rest
  <2>3. ASSUME NEW j \in DOMAIN t, j > k PROVE t[j] \in Rest(u, i)
    <3>1. Len(s) + j \in DOMAIN u /\ Len(s) + j > i /\ u[Len(s) + j] = t[j]
      BY <1>1, <1>3, <2>3
    <3> QED
      BY <3>1 DEF Rest
  <2> QED
    BY <2>1, <2>2, <2>3 DEF Rest
<1> QED
  BY <1>1, <1>2, <1>3 DEF u

\* The calls for the elements of s that are in T.
LEMMA EachIs ==
    ASSUME NEW S, NEW s \in Seq(S), NEW T, NEW C, NEW calls,
           \A x \in S \cap T : calls[x] \in Seq(C)
    PROVE  /\ Each(s, T, calls) \in Seq(C)
           /\ ToSet(Each(s, T, calls)) = UNION { ToSet(calls[x]) : x \in ToSet(s) \cap T }
<1> DEFINE q == [i \in DOMAIN s |-> IF s[i] \in T THEN calls[s[i]] ELSE <<>>]
<1>1. DOMAIN s = 1..Len(s) /\ Len(s) \in Nat /\ \A i \in DOMAIN s : s[i] \in S
  OBVIOUS
<1>2. q \in Seq(Seq(C)) /\ DOMAIN q = DOMAIN s
  <2>1. \A i \in 1..Len(s) : q[i] \in Seq(C)
    BY <1>1
  <2> QED
    BY <1>1, <2>1
<1>3. Each(s, T, calls) = FlattenSeq(q)
  BY DEF Each
<1>4. UNION { ToSet(q[i]) : i \in DOMAIN q } = UNION { ToSet(calls[x]) : x \in ToSet(s) \cap T }
  <2>1. ToSet(<<>>) = {}
    BY DEF ToSet
  <2>2. ASSUME NEW i \in DOMAIN s, NEW c \in ToSet(q[i])
        PROVE  s[i] \in ToSet(s) \cap T /\ c \in ToSet(calls[s[i]])
    BY <2>1, <2>2 DEF ToSet
  <2>3. ASSUME NEW x \in ToSet(s) \cap T, NEW c \in ToSet(calls[x])
        PROVE  \E i \in DOMAIN s : c \in ToSet(q[i])
    <3>1. PICK i \in DOMAIN s : s[i] = x
      BY DEF ToSet
    <3> QED
      BY <3>1
  <2>4. ASSUME NEW x \in ToSet(s) \cap T, NEW c \in ToSet(calls[x])
        PROVE  c \in UNION { ToSet(q[i]) : i \in DOMAIN q }
    <3>1. PICK i \in DOMAIN q : c \in ToSet(q[i])
      BY <1>2, <2>3
    <3> HIDE DEF q
    <3> QED
      BY <3>1
  <2>5. ASSUME NEW i \in DOMAIN q, NEW c \in ToSet(q[i])
        PROVE  c \in UNION { ToSet(calls[x]) : x \in ToSet(s) \cap T }
    BY <1>2, <2>2
  <2> HIDE DEF q
  <2> QED
    BY <2>4, <2>5
<1> HIDE DEF q
<1> QED
  BY <1>2, <1>3, <1>4, FlattenIs

-----------------------------------------------------------------------------
(* The walks.                                                              *)

LEMMA RuleTypes ==
    /\ \A a \in Apps : /\ RulesOf[a] \in AppRules /\ RulesOf[a].final \in BOOLEAN
                       /\ RulesOf[a].configurable \in BOOLEAN
                       /\ RulesOf[a].help # NoOption => RulesOf[a].help \in Own(a)
    /\ \A o \in Options : OptionRules[o].priority \in Priorities /\ OptionRules[o].env \in BOOLEAN
    /\ Files \subseteq Seq(Items)
<1>1. /\ RulesOf \in [Apps -> AppRules] /\ OptionRules \in [Options -> OptionRuleType]
      /\ \A a \in Apps : RulesOf[a].help # NoOption => RulesOf[a].help \in ToSet(AppOf[a].opts)
      /\ Files \subseteq Seq(Items)
  BY RulesAssumption
<1>2. \A a \in Apps : RulesOf[a] \in AppRules
  BY <1>1
<1>3. \A a \in Apps : RulesOf[a].final \in BOOLEAN /\ RulesOf[a].configurable \in BOOLEAN
  BY <1>2 DEF AppRules
<1>4. \A o \in Options : OptionRules[o] \in OptionRuleType
  BY <1>1
<1>5. \A o \in Options : OptionRules[o].priority \in Priorities /\ OptionRules[o].env \in BOOLEAN
  BY <1>4 DEF OptionRuleType
<1> QED
  BY <1>1, <1>2, <1>3, <1>5 DEF Own

\* The options of the whole tree, and their owners.
LEMMA Owners ==
    /\ \A a \in Apps : Own(a) \in SUBSET Options /\ \A o \in Own(a) : Owner(o) = a
    /\ \A o \in Options : Owner(o) \in Apps /\ o \in Own(Owner(o))
<1>1. \A a \in Apps : Own(a) \in SUBSET Options
  BY TreeTypes DEF Own, Opts
<1>2. \A a, b \in Apps : Own(a) \cap Own(b) # {} => a = b
  BY TreeAssumption DEF Own
<1>3. ASSUME NEW o \in Options PROVE \E a \in Apps : o \in Own(a)
  BY TreeAssumption DEF Own
<1>4. ASSUME NEW o \in Options PROVE Owner(o) \in Apps /\ o \in Own(Owner(o))
  <2>1. Owner(o) = CHOOSE a \in Apps : o \in Own(a)
    BY DEF Owner, Own
  <2> QED
    BY <1>3, <2>1
<1>5. ASSUME NEW a \in Apps, NEW o \in Own(a) PROVE Owner(o) = a
  BY <1>1, <1>2, <1>4
<1> QED
  BY <1>1, <1>4, <1>5

\* The value of Used.
LEMMA UsedIs ==
    \A x \in Apps :
        /\ Used(x) \in BOOLEAN
        /\ Used(x) <=> \/ Own(x) \cap given # {}
                       \/ \E s \in Subs(x) : Used(s)
                       \/ ~IsGroup(x) /\ parsed[x] > 0
<1> DEFINE V == BOOLEAN
           R(f) == [x \in Apps |-> \/ Own(x) \cap given # {}
                                   \/ \E s \in Subs(x) : f[s]
                                   \/ ~IsGroup(x) /\ parsed[x] > 0]
           F == [f \in [Apps -> V] |-> R(f)]
           u == CHOOSE u : u = R(u)
<1>1. \A a \in Apps : Subs(a) \in SUBSET Apps /\ Below[a] = Subs(a)
  BY TreeTypes DEF Below
<1>2. F \in [[Apps -> V] -> [Apps -> V]]
  BY <1>1
<1>3. Local(Apps, Below, V, F)
  <2> SUFFICES ASSUME NEW f \in [Apps -> V], NEW g \in [Apps -> V], NEW a \in Apps,
                      \A b \in Below[a] : f[b] = g[b]
               PROVE  F[f][a] = F[g][a]
    BY DEF Local
  <2>1. (\E s \in Subs(a) : f[s]) <=> (\E s \in Subs(a) : g[s])
    BY <1>1
  <2> QED
    BY <2>1
<1>4. PICK f \in [Apps -> V] : f = F[f]
  <2>1. V # {}
    OBVIOUS
  <2> HIDE DEF V, F
  <2>2. Recursion(Apps, Below, V, F)
    BY <2>1, <1>2, <1>3, BelowWellFounded DEF Recursion
  <2> QED
    BY <2>2, RecursionSolved
<1>5. u = R(u)
  <2>1. \E k : k = R(k)
    BY <1>4
  <2> QED
    BY ONLY <2>1
<1>6. \A x \in Apps : Used(x) = u[x]
  BY DEF Used
<1> HIDE DEF u
<1>7. \A x \in Apps : u[x] = (\/ Own(x) \cap given # {}
                              \/ \E s \in Subs(x) : u[s]
                              \/ ~IsGroup(x) /\ parsed[x] > 0)
  BY ONLY <1>5
<1>8. \A x \in Apps : (\E s \in Subs(x) : u[s]) <=> (\E s \in Subs(x) : Used(s))
  BY <1>1, <1>6
<1> QED
  BY <1>6, <1>7, <1>8

\* Whoever holds an option that is given is used, and so are those above.
LEMMA UsedUpward ==
    /\ \A x \in Apps : Own(x) \cap given # {} => Used(x)
    /\ \A x \in Apps : x # Root /\ Used(x) => Used(Parent(x))
  BY UsedIs, Parents

\* The value of Lineage.
LEMMA LineageIs ==
    \A a \in Apps : /\ Lineage[a] \in SUBSET Apps
                    /\ Lineage[a] = IF a = Root THEN {} ELSE {a} \cup Lineage[Parent(a)]
<1> DEFINE V == SUBSET Apps
           R(f) == [a \in Apps |-> IF a = Root THEN {} ELSE {a} \cup f[Parent(a)]]
           F == [f \in [Apps -> V] |-> R(f)]
<1>1. \A a \in Apps : a # Root => Parent(a) \in Apps /\ Parent(a) \in Above[a]
  BY Parents DEF Above
<1>2. F \in [[Apps -> V] -> [Apps -> V]]
  BY <1>1
<1>3. Local(Apps, Above, V, F)
  BY <1>1 DEF Local
<1>4. PICK f \in [Apps -> V] : f = F[f]
  <2>1. V # {}
    OBVIOUS
  <2> HIDE DEF V, F
  <2>2. Recursion(Apps, Above, V, F)
    BY <2>1, <1>2, <1>3, AboveWellFounded DEF Recursion
  <2> QED
    BY <2>2, RecursionSolved
<1>5. Lineage = R(Lineage)
  <2>1. \E k : k = R(k)
    BY <1>4
  <2> QED
    BY ONLY <2>1 DEF Lineage
<1>6. \A a \in Apps : Lineage[a] = IF a = Root THEN {} ELSE {a} \cup Lineage[Parent(a)]
  BY ONLY <1>5
<1>7. \A a \in Apps : Lineage[a] \in V
  <2> DEFINE Good == { a \in Apps : Lineage[a] \in V }
  <2>1. Good \in SUBSET Apps /\ \A a \in Apps : Above[a] \subseteq Good => a \in Good
    BY <1>1, <1>6
  <2> HIDE DEF Good
  <2>2. Good = Apps
    BY <2>1, UpInduction
  <2> QED
    BY <2>2 DEF Good
<1> QED
  BY <1>6, <1>7

\* The App whose rounds of callbacks an App's options are for: the next one
\* above that completes on its own, or the root.
Station[a \in Apps] == IF a = Root \/ Completes(a) THEN a ELSE Station[Parent(a)]

LEMMA StationIs ==
    \A a \in Apps : /\ Station[a] \in Apps
                    /\ Station[a] = IF a = Root \/ Completes(a) THEN a ELSE Station[Parent(a)]
                    /\ Station[a] = Root \/ (Completes(Station[a]) /\ Station[a] \in Lineage[a])
<1> DEFINE V == Apps
           R(f) == [a \in Apps |-> IF a = Root \/ Completes(a) THEN a ELSE f[Parent(a)]]
           F == [f \in [Apps -> V] |-> R(f)]
<1>1. \A a \in Apps : a # Root => Parent(a) \in Apps /\ Parent(a) \in Above[a]
  BY Parents DEF Above
<1>2. F \in [[Apps -> V] -> [Apps -> V]]
  BY <1>1
<1>3. Local(Apps, Above, V, F)
  BY <1>1 DEF Local
<1>4. PICK f \in [Apps -> V] : f = F[f]
  <2>1. V # {}
    BY TreeTypes
  <2> HIDE DEF V, F
  <2>2. Recursion(Apps, Above, V, F)
    BY <2>1, <1>2, <1>3, AboveWellFounded DEF Recursion
  <2> QED
    BY <2>2, RecursionSolved
<1>5. Station = R(Station)
  <2>1. \E k : k = R(k)
    BY <1>4
  <2> QED
    BY ONLY <2>1 DEF Station
<1>6. \A a \in Apps : Station[a] = IF a = Root \/ Completes(a) THEN a ELSE Station[Parent(a)]
  BY ONLY <1>5
<1> DEFINE Good == { a \in Apps : /\ Station[a] \in Apps
                                  /\ \/ Station[a] = Root
                                     \/ Completes(Station[a]) /\ Station[a] \in Lineage[a] }
<1>7. Good \in SUBSET Apps /\ \A a \in Apps : Above[a] \subseteq Good => a \in Good
  <2> SUFFICES ASSUME NEW a \in Apps, Above[a] \subseteq Good PROVE a \in Good
    OBVIOUS
  <2>1. CASE a = Root
    BY <1>6, <2>1
  <2>2. CASE a # Root
    <3>1. Lineage[a] = {a} \cup Lineage[Parent(a)]
      BY <2>2, LineageIs
    <3>2. CASE Completes(a)
      BY <1>6, <3>1, <3>2
    <3>3. CASE ~Completes(a)
      <4>1. Station[a] = Station[Parent(a)] /\ Parent(a) \in Good
        BY <1>1, <1>6, <2>2, <3>3
      <4> QED
        BY <3>1, <4>1
    <3> QED
      BY <3>2, <3>3
  <2> QED
    BY <2>1, <2>2
<1> HIDE DEF Good
<1>8. Good = Apps
  BY <1>7, UpInduction
<1> QED
  BY <1>6, <1>8 DEF Good

\* Groups belong to the station of their parents.
LEMMA StationOfGroups ==
    /\ \A g \in Apps : IsGroup(g) => Station[g] = Station[Parent(g)]
    /\ \A a, x \in Apps : x \in Counted[a] => Station[x] = Station[a]
<1>1. \A g \in Apps : IsGroup(g) => Station[g] = Station[Parent(g)]
  BY StationIs, Parents DEF Completes
<1> DEFINE Good == { a \in Apps : \A x \in Counted[a] : Station[x] = Station[a] }
<1>2. Good \in SUBSET Apps /\ \A a \in Apps : Below[a] \subseteq Good => a \in Good
  <2> SUFFICES ASSUME NEW a \in Apps, Below[a] \subseteq Good, NEW x \in Counted[a]
               PROVE  Station[x] = Station[a]
    OBVIOUS
  <2>1. CASE x = a
    BY <2>1
  <2>2. CASE x # a
    <3>1. PICK s \in Subs(a) : IsGroup(s) /\ x \in Counted[s]
      BY <2>2, CountedIs
    <3>2. s \in Below[a] /\ s \in Apps /\ Parent(s) = a
      BY Parents DEF Below
    <3> QED
      BY <1>1, <3>1, <3>2
  <2> QED
    BY <2>1, <2>2
<1> HIDE DEF Good
<1>3. Good = Apps
  BY <1>2, DownInduction
<1> QED
  BY <1>1, <1>3 DEF Good

\* What _process_env looks at from an App belongs to its station.
LEMMA EnvironmentIs ==
    ASSUME NEW a \in Apps, NEW o \in EnvironmentOf(a)
    PROVE  o \in Options /\ OptionRules[o].env /\ Station[Owner(o)] = Station[a]
<1> DEFINE V == SUBSET Options
           Open(x) == { t \in Subs(x) : IsGroup(t) \/ (Used(t) /\ ~AppOf[t].completes) }
           R(f) == [x \in Apps |-> Own(x) \cup UNION { f[s] : s \in Open(x) }]
           F == [f \in [Apps -> V] |-> R(f)]
           seen == CHOOSE seen : seen = R(seen)
<1>1. /\ \A x \in Apps : Open(x) \in SUBSET Apps /\ Open(x) \subseteq Below[x] /\ Own(x) \in V
      /\ \A x \in Apps : \A s \in Open(x) : Station[s] = Station[x]
  <2>1. \A x \in Apps : Subs(x) \in SUBSET Apps /\ Below[x] = Subs(x) /\ Own(x) \in V
    BY TreeTypes, Owners DEF Below
  <2>2. ASSUME NEW x \in Apps, NEW s \in Open(x) PROVE Station[s] = Station[x]
    BY <2>1, StationOfGroups, StationIs, Parents DEF Completes
  <2> QED
    BY <2>1, <2>2
<1>2. EnvironmentOf(a) = { i \in seen[a] : OptionRules[i].env /\ i \notin given }
  BY DEF EnvironmentOf
<1> HIDE DEF Open
<1>3. F \in [[Apps -> V] -> [Apps -> V]]
  BY <1>1
<1>4. Local(Apps, Below, V, F)
  <2> SUFFICES ASSUME NEW f \in [Apps -> V], NEW g \in [Apps -> V], NEW x \in Apps,
                      \A b \in Below[x] : f[b] = g[b]
               PROVE  F[f][x] = F[g][x]
    BY DEF Local
  <2>1. { f[s] : s \in Open(x) } = { g[s] : s \in Open(x) }
    BY <1>1
  <2> QED
    BY <2>1
<1>5. PICK f \in [Apps -> V] : f = F[f]
  <2>1. V # {}
    OBVIOUS
  <2> HIDE DEF V, F
  <2>2. Recursion(Apps, Below, V, F)
    BY <2>1, <1>3, <1>4, BelowWellFounded DEF Recursion
  <2> QED
    BY <2>2, RecursionSolved
<1>6. seen = R(seen)
  <2>1. \E k : k = R(k)
    BY <1>5
  <2> QED
    BY ONLY <2>1
<1> HIDE DEF seen
<1>7. \A x \in Apps : seen[x] = Own(x) \cup UNION { seen[s] : s \in Open(x) }
  BY ONLY <1>6
<1> DEFINE Good == { x \in Apps : \A i \in seen[x] : i \in Options /\ Station[Owner(i)] = Station[x] }
<1>8. Good \in SUBSET Apps /\ \A x \in Apps : Below[x] \subseteq Good => x \in Good
  <2> SUFFICES ASSUME NEW x \in Apps, Below[x] \subseteq Good, NEW i \in seen[x]
               PROVE  i \in Options /\ Station[Owner(i)] = Station[x]
    OBVIOUS
  <2>1. CASE i \in Own(x)
    BY <2>1, Owners
  <2>2. CASE i \notin Own(x)
    <3>1. PICK s \in Open(x) : i \in seen[s]
      BY <1>7, <2>2
    <3> QED
      BY <1>1, <3>1
  <2> QED
    BY <2>1, <2>2
<1> HIDE DEF Good
<1>9. Good = Apps
  BY <1>8, DownInduction
<1> QED
  BY <1>2, <1>9 DEF Good

\* The calls of Each depend on those for the elements of the sequence only.
LEMMA EachSame ==
    ASSUME NEW S, NEW s \in Seq(S), NEW T, NEW f, NEW g, \A x \in ToSet(s) \cap T : f[x] = g[x]
    PROVE  Each(s, T, f) = Each(s, T, g)
<1>1. \A i \in DOMAIN s : s[i] \in ToSet(s)
  BY DEF ToSet
<1>2. [i \in DOMAIN s |-> IF s[i] \in T THEN f[s[i]] ELSE <<>>]
        = [i \in DOMAIN s |-> IF s[i] \in T THEN g[s[i]] ELSE <<>>]
  BY <1>1
<1> QED
  BY ONLY <1>2 DEF Each

LEMMA EachOfSubs ==
    ASSUME NEW x \in Apps, NEW T, NEW f, \A s \in Subs(x) \cap T : f[s] \in Seq(Calls)
    PROVE  /\ Each(AppOf[x].subs, T, f) \in Seq(Calls)
           /\ ToSet(Each(AppOf[x].subs, T, f)) = UNION { ToSet(f[s]) : s \in Subs(x) \cap T }
<1>1. AppOf[x].subs \in Seq(Apps) /\ Subs(x) = ToSet(AppOf[x].subs)
  BY TreeTypes DEF Subs
<1>2. PICK q : q = AppOf[x].subs
  OBVIOUS
<1>3. q \in Seq(ToSet(q))
  BY <1>1, <1>2 DEF ToSet
<1>4. \A s \in ToSet(q) \cap T : f[s] \in Seq(Calls)
  BY <1>1, <1>2
<1>5. /\ Each(q, T, f) \in Seq(Calls)
      /\ ToSet(Each(q, T, f)) = UNION { ToSet(f[s]) : s \in ToSet(q) \cap T }
  BY ONLY <1>3, <1>4, EachIs
<1> QED
  BY <1>1, <1>2, <1>5

\* What each call carries.
LEMMA CallsAre ==
    /\ \A c \in Calls :
        /\ c.do \in {"unreadable", "sources", "environment", "requirements", "rethrow", "extras",
                     "completed", "final", "return", "leave", "open", "close", "deliver", "set",
                     "callbacks", "help", "run"}
        /\ c.do \in {"leave", "open", "close"} => c.on \in Names /\ c = Do(c.do, c.on)
        /\ c.do \in {"deliver", "set"} => c.on \in Options /\ c = Do(c.do, c.on)
        /\ c.do \in {"unreadable", "sources", "environment", "requirements", "rethrow", "extras",
                     "completed", "final", "return"} => c.on \in Apps /\ c = Do(c.do, c.on)
        /\ c.do = "callbacks" =>
            c.on \in Apps /\ c.priority \in Priorities /\ c = Round(c.on, c.priority)
        /\ c.do = "help" =>
            c.on \in Apps /\ c.priority \in DOMAIN PreHelp /\ c = Help(c.on, c.priority)
        /\ c.do = "run" => c.on \in Apps /\ c.quiet \in BOOLEAN /\ c = Run(c.on, c.quiet)
    /\ \A what, x : Do(what, x).do = what /\ Do(what, x).on = x
    /\ \A a, p : /\ Round(a, p).do = "callbacks" /\ Round(a, p).on = a /\ Round(a, p).priority = p
                 /\ Help(a, p).do = "help" /\ Help(a, p).on = a /\ Help(a, p).priority = p
    /\ \A a, quiet : Run(a, quiet).do = "run" /\ Run(a, quiet).on = a /\ Run(a, quiet).quiet = quiet
<1>1. /\ \A what, x : Do(what, x).do = what /\ Do(what, x).on = x
      /\ \A a, p : /\ Round(a, p).do = "callbacks" /\ Round(a, p).on = a /\ Round(a, p).priority = p
                   /\ Help(a, p).do = "help" /\ Help(a, p).on = a /\ Help(a, p).priority = p
      /\ \A a, quiet :
            Run(a, quiet).do = "run" /\ Run(a, quiet).on = a /\ Run(a, quiet).quiet = quiet
  BY DEF Do, Round, Help, Run
<1>2. ASSUME NEW c \in Calls
      PROVE  \/ \E what \in {"unreadable", "sources", "environment", "requirements",
                             "rethrow", "extras", "completed", "final", "return"}, a \in Apps :
                    c = Do(what, a)
             \/ \E what \in {"leave", "open", "close"}, s \in Names : c = Do(what, s)
             \/ \E what \in {"deliver", "set"}, o \in Options : c = Do(what, o)
             \/ \E a \in Apps, p \in Priorities : c = Round(a, p)
             \/ \E a \in Apps, p \in DOMAIN PreHelp : c = Help(a, p)
             \/ \E a \in Apps, quiet \in BOOLEAN : c = Run(a, quiet)
  BY DEF Calls
<1>3. ASSUME NEW c \in Calls
      PROVE  /\ c.do \in {"unreadable", "sources", "environment", "requirements", "rethrow",
                          "extras", "completed", "final", "return", "leave", "open", "close",
                          "deliver", "set", "callbacks", "help", "run"}
             /\ c.do \in {"leave", "open", "close"} => c.on \in Names /\ c = Do(c.do, c.on)
             /\ c.do \in {"deliver", "set"} => c.on \in Options /\ c = Do(c.do, c.on)
             /\ c.do \in {"unreadable", "sources", "environment", "requirements", "rethrow",
                          "extras", "completed", "final", "return"} =>
                    c.on \in Apps /\ c = Do(c.do, c.on)
             /\ c.do = "callbacks" =>
                    c.on \in Apps /\ c.priority \in Priorities /\ c = Round(c.on, c.priority)
             /\ c.do = "help" =>
                    c.on \in Apps /\ c.priority \in DOMAIN PreHelp /\ c = Help(c.on, c.priority)
             /\ c.do = "run" => c.on \in Apps /\ c.quiet \in BOOLEAN /\ c = Run(c.on, c.quiet)
  <2>1. CASE \E what \in {"unreadable", "sources", "environment", "requirements",
                          "rethrow", "extras", "completed", "final", "return"}, a \in Apps :
                c = Do(what, a)
    BY <1>1, <2>1
  <2>2. CASE \E what \in {"leave", "open", "close"}, s \in Names : c = Do(what, s)
    BY <1>1, <2>2
  <2>3. CASE \E what \in {"deliver", "set"}, o \in Options : c = Do(what, o)
    BY <1>1, <2>3
  <2>4. CASE \E a \in Apps, p \in Priorities : c = Round(a, p)
    BY <1>1, <2>4
  <2>5. CASE \E a \in Apps, p \in DOMAIN PreHelp : c = Help(a, p)
    BY <1>1, <2>5
  <2>6. CASE \E a \in Apps, quiet \in BOOLEAN : c = Run(a, quiet)
    BY <1>1, <2>6
  <2> QED
    BY <1>2, <2>1, <2>2, <2>3, <2>4, <2>5, <2>6
<1> QED
  BY <1>1, <1>3

LEMMA RunIs ==
    \A a : /\ Run(a, TRUE).do = "run" /\ Run(a, TRUE).on = a
           /\ Run(a, FALSE).do = "run" /\ Run(a, FALSE).on = a
  BY DEF Run

LEMMA CallsMade ==
    /\ \A what \in {"unreadable", "sources", "environment", "requirements", "rethrow", "extras",
                    "completed", "final", "return"}, a \in Apps : Do(what, a) \in Calls
    /\ \A what \in {"leave", "open", "close"}, s \in Names : Do(what, s) \in Calls
    /\ \A what \in {"deliver", "set"}, o \in Options : Do(what, o) \in Calls
    /\ \A a \in Apps, p \in Priorities : Round(a, p) \in Calls
    /\ \A a \in Apps, p \in DOMAIN PreHelp : Help(a, p) \in Calls
    /\ \A a \in Apps, quiet \in BOOLEAN : Run(a, quiet) \in Calls
  BY DEF Calls

LEMMA CallsJoined ==
    \A s, t \in Seq(Calls) : s \o t \in Seq(Calls) /\ ToSet(s \o t) = ToSet(s) \cup ToSet(t)
  BY ToSetJoined

LEMMA OneCall ==
    \A c : c \in Calls => <<c>> \in Seq(Calls) /\ ToSet(<<c>>) = {c}
<1>1. ASSUME NEW c \in Calls PROVE <<c>> \in Seq(Calls) /\ ToSet(<<c>>) = {c}
  BY DEF ToSet
<1> QED
  BY <1>1

LEMMA NoCall == <<>> \in Seq(Calls) /\ ToSet(<<>>) = {}
  BY DEF ToSet

\* The call behind the callbacks of a group that completes.
GroupEnds(s, p) == IF p = "Normal" THEN {Run(s, FALSE)} ELSE {}

\* The calls of a round.
LEMMA CallbacksIs ==
    ASSUME NEW p
    PROVE  \A a \in Apps :
        /\ Callbacks(a, p) \in Seq(Calls)
        /\ ToSet(Callbacks(a, p)) =
             (UNION { ToSet(Callbacks(s, p)) \cup GroupEnds(s, p) : s \in UsedGroups(a) \cap Completing })
             \cup { Do("deliver", o) : o \in Own(a) \cap Due(p) }
             \cup (UNION { ToSet(Callbacks(s, p)) : s \in Subs(a) \ Completing })
<1> DEFINE V == Seq(Calls)
           Groups1(f) == [s \in Apps |-> f[s] \o IF p = "Normal" THEN <<Run(s, FALSE)>> ELSE <<>>]
           One(f, x) == Each(AppOf[x].subs, UsedGroups(x) \cap Completing, Groups1(f))
                        \o Each(AppOf[x].opts, Due(p), Deliveries)
                        \o Each(AppOf[x].subs, Apps \ Completing, f)
           R(f) == [x \in Apps |-> One(f, x)]
           F == [f \in [Apps -> V] |-> R(f)]
           c == CHOOSE c : c = R(c)
<1>1. \A x \in Apps : /\ AppOf[x].subs \in Seq(Apps) /\ AppOf[x].opts \in Seq(Options)
                      /\ ToSet(AppOf[x].subs) = Below[x] /\ Below[x] = Subs(x)
                      /\ ToSet(AppOf[x].opts) = Own(x) /\ Subs(x) \in SUBSET Apps
                      /\ Own(x) \in SUBSET Options
  BY TreeTypes, Owners DEF Below, Subs, Own
<1>2. \A o \in Options : Deliveries[o] \in V /\ ToSet(Deliveries[o]) = {Do("deliver", o)}
  BY CallsMade, OneCall DEF Deliveries
<1>3. ASSUME NEW f, NEW s \in Apps, f[s] \in V
      PROVE  Groups1(f)[s] \in V /\ ToSet(Groups1(f)[s]) = ToSet(f[s]) \cup GroupEnds(s, p)
  <2>1. Run(s, FALSE) \in Calls /\ f[s] \in V
    BY <1>3, CallsMade
  <2>2. CASE p = "Normal"
    <3>1. Groups1(f)[s] = f[s] \o <<Run(s, FALSE)>>
      BY <2>2
    <3>2. <<Run(s, FALSE)>> \in V /\ ToSet(<<Run(s, FALSE)>>) = {Run(s, FALSE)}
      BY <2>1, OneCall
    <3>3. f[s] \o <<Run(s, FALSE)>> \in V
          /\ ToSet(f[s] \o <<Run(s, FALSE)>>) = ToSet(f[s]) \cup {Run(s, FALSE)}
      BY <2>1, <3>2, CallsJoined
    <3> QED
      BY <2>2, <3>1, <3>3 DEF GroupEnds
  <2>3. CASE p # "Normal"
    <3>1. Groups1(f)[s] = f[s] \o <<>>
      BY <2>3
    <3>2. f[s] \o <<>> = f[s]
      BY <2>1
    <3> QED
      BY <2>1, <2>3, <3>1, <3>2 DEF GroupEnds
  <2> QED
    BY <2>2, <2>3
<1> HIDE DEF Groups1
<1>4. ASSUME NEW f, NEW x \in Apps, \A s \in Subs(x) : f[s] \in V
      PROVE  /\ One(f, x) \in V
             /\ ToSet(One(f, x)) =
                  (UNION { ToSet(f[s]) \cup GroupEnds(s, p) : s \in UsedGroups(x) \cap Completing })
                  \cup { Do("deliver", o) : o \in Own(x) \cap Due(p) }
                  \cup (UNION { ToSet(f[s]) : s \in Subs(x) \ Completing })
  <2> DEFINE A == Each(AppOf[x].subs, UsedGroups(x) \cap Completing, Groups1(f))
             B == Each(AppOf[x].opts, Due(p), Deliveries)
             C == Each(AppOf[x].subs, Apps \ Completing, f)
  <2>1. UsedGroups(x) \in SUBSET Subs(x) /\ Completing \in SUBSET Apps
    BY DEF UsedGroups, Completing
  <2>2. A \in V /\ ToSet(A) = UNION { ToSet(Groups1(f)[s]) : s \in UsedGroups(x) \cap Completing }
    <3>1. \A s \in Subs(x) \cap (UsedGroups(x) \cap Completing) : Groups1(f)[s] \in Seq(Calls)
      BY <1>1, <1>3, <1>4
    <3>2. A \in V /\ ToSet(A) = UNION { ToSet(Groups1(f)[s]) :
                                s \in Subs(x) \cap (UsedGroups(x) \cap Completing) }
      BY <3>1, EachOfSubs
    <3>3. Subs(x) \cap (UsedGroups(x) \cap Completing) = UsedGroups(x) \cap Completing
      BY <2>1
    <3> QED
      BY <3>2, <3>3
  <2>3. B \in V /\ ToSet(B) = UNION { ToSet(Deliveries[o]) : o \in Own(x) \cap Due(p) }
    <3>1. \A o \in Options \cap Due(p) : Deliveries[o] \in V
      BY <1>2
    <3>2. B \in V /\ ToSet(B) = UNION { ToSet(Deliveries[o]) : o \in ToSet(AppOf[x].opts) \cap Due(p) }
      BY <1>1, <3>1, EachIs
    <3> QED
      BY <1>1, <3>2
  <2>4. C \in V /\ ToSet(C) = UNION { ToSet(f[s]) : s \in Subs(x) \ Completing }
    <3>1. PICK T : T = Apps \ Completing
      OBVIOUS
    <3>2. \A s \in Subs(x) \cap T : f[s] \in Seq(Calls)
      BY <1>4
    <3>3. /\ Each(AppOf[x].subs, T, f) \in Seq(Calls)
          /\ ToSet(Each(AppOf[x].subs, T, f)) = UNION { ToSet(f[s]) : s \in Subs(x) \cap T }
      BY ONLY <3>2, x \in Apps, EachOfSubs
    <3>4. Subs(x) \cap T = Subs(x) \ Completing
      BY <1>1, <3>1
    <3> QED
      BY <3>1, <3>3, <3>4
  <2>5. { ToSet(Groups1(f)[s]) : s \in UsedGroups(x) \cap Completing }
          = { ToSet(f[s]) \cup GroupEnds(s, p) : s \in UsedGroups(x) \cap Completing }
    <3>1. \A s \in UsedGroups(x) \cap Completing :
            ToSet(Groups1(f)[s]) = ToSet(f[s]) \cup GroupEnds(s, p)
      BY <1>1, <1>3, <1>4, <2>1
    <3> QED
      BY ONLY <3>1
  <2>6. UNION { ToSet(Deliveries[o]) : o \in Own(x) \cap Due(p) }
          = { Do("deliver", o) : o \in Own(x) \cap Due(p) }
    <3>1. \A o \in Own(x) \cap Due(p) : ToSet(Deliveries[o]) = {Do("deliver", o)}
      BY <1>1, <1>2
    <3> QED
      BY ONLY <3>1
  <2>7. One(f, x) = A \o B \o C
    OBVIOUS
  <2> HIDE DEF A, B, C, One
  <2>8. A \o B \in V /\ ToSet(A \o B) = ToSet(A) \cup ToSet(B)
    BY <2>2, <2>3, CallsJoined
  <2>9. (A \o B) \o C \in V /\ ToSet((A \o B) \o C) = ToSet(A \o B) \cup ToSet(C)
    BY <2>4, <2>8, CallsJoined
  <2>10. ToSet(One(f, x)) = ToSet(A) \cup ToSet(B) \cup ToSet(C) /\ One(f, x) \in V
    BY <2>7, <2>8, <2>9
  <2> QED
    BY <2>2, <2>3, <2>4, <2>5, <2>6, <2>10
<1>5. ASSUME NEW f \in [Apps -> V], NEW g \in [Apps -> V], NEW x \in Apps,
             \A b \in Below[x] : f[b] = g[b]
      PROVE  One(f, x) = One(g, x)
  <2>1. Each(AppOf[x].subs, UsedGroups(x) \cap Completing, Groups1(f))
          = Each(AppOf[x].subs, UsedGroups(x) \cap Completing, Groups1(g))
    <3>1. \A s \in ToSet(AppOf[x].subs) \cap (UsedGroups(x) \cap Completing) :
                Groups1(f)[s] = Groups1(g)[s]
      BY <1>1, <1>5 DEF Groups1
    <3> QED
      BY <1>1, <3>1, EachSame
  <2>2. Each(AppOf[x].subs, Apps \ Completing, f) = Each(AppOf[x].subs, Apps \ Completing, g)
    <3>1. \A s \in ToSet(AppOf[x].subs) \cap (Apps \ Completing) : f[s] = g[s]
      BY <1>1, <1>5
    <3> QED
      BY <1>1, <3>1, EachSame
  <2> QED
    BY <2>1, <2>2
<1>6. \A a \in Apps : Callbacks(a, p) = c[a]
  BY DEF Callbacks, Groups1
<1> HIDE DEF One
<1>7. F \in [[Apps -> V] -> [Apps -> V]]
  BY <1>1, <1>4
<1>8. Local(Apps, Below, V, F)
  BY <1>5 DEF Local
<1>9. PICK f \in [Apps -> V] : f = F[f]
  <2>1. V # {}
    BY NoCall
  <2> HIDE DEF V, F
  <2>2. Recursion(Apps, Below, V, F)
    BY <2>1, <1>7, <1>8, BelowWellFounded DEF Recursion
  <2> QED
    BY <2>2, RecursionSolved
<1>10. c = R(c)
  <2>1. \E k : k = R(k)
    BY <1>9
  <2> QED
    BY ONLY <2>1
<1> HIDE DEF c
<1>11. \A x \in Apps : c[x] = One(c, x)
  BY ONLY <1>10
<1>12. c \in [Apps -> V]
  <2> DEFINE Good == { a \in Apps : c[a] \in V }
  <2>1. Good \in SUBSET Apps /\ \A a \in Apps : Below[a] \subseteq Good => a \in Good
    BY <1>1, <1>4, <1>11
  <2> HIDE DEF Good
  <2>2. Good = Apps
    BY <2>1, DownInduction
  <2>3. \E fun : c = [x \in Apps |-> fun[x]]
    BY <1>10
  <2> QED
    BY <2>2, <2>3 DEF Good
<1>13. \A x \in Apps : /\ c[x] \in V
                       /\ ToSet(c[x]) =
                           (UNION { ToSet(c[s]) \cup GroupEnds(s, p) : s \in UsedGroups(x) \cap Completing })
                           \cup { Do("deliver", o) : o \in Own(x) \cap Due(p) }
                           \cup (UNION { ToSet(c[s]) : s \in Subs(x) \ Completing })
  BY <1>1, <1>4, <1>11, <1>12
<1>14. ASSUME NEW x \in Apps
       PROVE  /\ { ToSet(c[s]) \cup GroupEnds(s, p) : s \in UsedGroups(x) \cap Completing }
                   = { ToSet(Callbacks(s, p)) \cup GroupEnds(s, p) : s \in UsedGroups(x) \cap Completing }
              /\ { ToSet(c[s]) : s \in Subs(x) \ Completing }
                   = { ToSet(Callbacks(s, p)) : s \in Subs(x) \ Completing }
  <2>1. UsedGroups(x) \in SUBSET Apps /\ Subs(x) \in SUBSET Apps
    BY <1>1 DEF UsedGroups
  <2> QED
    BY <1>6, <2>1
<1> QED
  BY <1>6, <1>13, <1>14

LEMMA EachOfListed ==
    ASSUME NEW x \in Apps, listed[x] \in Seq(Names), NEW f, \A s \in Subs(x) : f[s] \in Seq(Calls)
    PROVE  /\ Each(listed[x], Subs(x), f) \in Seq(Calls)
           /\ ToSet(Each(listed[x], Subs(x), f))
                = UNION { ToSet(f[s]) : s \in ToSet(listed[x]) \cap Subs(x) }
<1>1. PICK q : q = listed[x]
  OBVIOUS
<1>2. PICK T : T = Subs(x)
  OBVIOUS
<1>3. q \in Seq(Names) /\ \A s \in Names \cap T : f[s] \in Seq(Calls)
  BY <1>1, <1>2
<1>4. Each(q, T, f) \in Seq(Calls) /\ ToSet(Each(q, T, f)) = UNION { ToSet(f[s]) : s \in ToSet(q) \cap T }
  BY ONLY <1>3, EachIs
<1> QED
  BY <1>1, <1>2, <1>4

\* The final callbacks of an App, from those of its subcommands.
LastFinal(x) ==
    IF RulesOf[x].final /\ parsed[x] > 0 /\ (IsGroup(x) => Used(x)) THEN <<Do("final", x)>> ELSE <<>>
FinalsFrom(f, x) ==
    Each(listed[x], Subs(x), f) \o Each(AppOf[x].subs, UsedGroups(x), f) \o LastFinal(x)

LEMMA LastFinalIs ==
    \A x \in Apps : LastFinal(x) \in Seq(Calls) /\ ToSet(LastFinal(x)) \subseteq {Do("final", x)}
  BY CallsMade, OneCall, NoCall DEF LastFinal

LEMMA FinalsFromAre ==
    ASSUME NEW f, NEW x \in Apps, listed[x] \in Seq(Names), \A s \in Subs(x) : f[s] \in Seq(Calls)
    PROVE  LET A == Each(listed[x], Subs(x), f)
               B == Each(AppOf[x].subs, UsedGroups(x), f)
           IN  /\ A \in Seq(Calls) /\ B \in Seq(Calls) /\ FinalsFrom(f, x) \in Seq(Calls)
               /\ ToSet(A) = UNION { ToSet(f[s]) : s \in ToSet(listed[x]) \cap Subs(x) }
               /\ ToSet(B) = UNION { ToSet(f[s]) : s \in UsedGroups(x) }
               /\ ToSet(FinalsFrom(f, x)) = ToSet(A) \cup ToSet(B) \cup ToSet(LastFinal(x))
<1> DEFINE A == Each(listed[x], Subs(x), f)
           B == Each(AppOf[x].subs, UsedGroups(x), f)
<1>1. A \in Seq(Calls) /\ ToSet(A) = UNION { ToSet(f[s]) : s \in ToSet(listed[x]) \cap Subs(x) }
  BY EachOfListed
<1>2. B \in Seq(Calls) /\ ToSet(B) = UNION { ToSet(f[s]) : s \in UsedGroups(x) }
  <2>1. Subs(x) \cap UsedGroups(x) = UsedGroups(x)
    BY DEF UsedGroups
  <2>2. \A s \in Subs(x) \cap UsedGroups(x) : f[s] \in Seq(Calls)
    OBVIOUS
  <2>3. B \in Seq(Calls) /\ ToSet(B) = UNION { ToSet(f[s]) : s \in Subs(x) \cap UsedGroups(x) }
    BY ONLY <2>2, x \in Apps, EachOfSubs
  <2> QED
    BY ONLY <2>1, <2>3
<1>3. FinalsFrom(f, x) = (A \o B) \o LastFinal(x)
  BY DEF FinalsFrom
<1> HIDE DEF A, B
<1>4. A \o B \in Seq(Calls) /\ ToSet(A \o B) = ToSet(A) \cup ToSet(B)
  BY <1>1, <1>2, CallsJoined
<1>5. /\ (A \o B) \o LastFinal(x) \in Seq(Calls)
      /\ ToSet((A \o B) \o LastFinal(x)) = ToSet(A \o B) \cup ToSet(LastFinal(x))
  BY <1>4, LastFinalIs, CallsJoined
<1> USE DEF A, B
<1> QED
  BY ONLY <1>1, <1>2, <1>3, <1>4, <1>5

\* The value of Finals.
LEMMA FinalsUnfold ==
    ASSUME \A x \in Apps : listed[x] \in Seq(Names)
    PROVE  \A x \in Apps : Finals(x) = FinalsFrom([y \in Apps |-> Finals(y)], x)
<1> DEFINE V == Seq(Calls)
           R(f) == [x \in Apps |-> FinalsFrom(f, x)]
           F == [f \in [Apps -> V] |-> R(f)]
           c == CHOOSE c : c = R(c)
<1>1. \A x \in Apps : Below[x] = Subs(x) /\ Subs(x) \in SUBSET Apps /\ UsedGroups(x) \in SUBSET Subs(x)
  BY TreeTypes DEF Below, UsedGroups
<1>2. ASSUME NEW f \in [Apps -> V], NEW g \in [Apps -> V], NEW x \in Apps,
             \A b \in Below[x] : f[b] = g[b]
      PROVE  FinalsFrom(f, x) = FinalsFrom(g, x)
  <2>1. Each(listed[x], Subs(x), f) = Each(listed[x], Subs(x), g)
    <3>1. \A s \in ToSet(listed[x]) \cap Subs(x) : f[s] = g[s]
      BY <1>1, <1>2
    <3>2. listed[x] \in Seq(Names)
      OBVIOUS
    <3> QED
      BY <3>1, <3>2, EachSame
  <2>2. Each(AppOf[x].subs, UsedGroups(x), f) = Each(AppOf[x].subs, UsedGroups(x), g)
    <3>1. \A s \in ToSet(AppOf[x].subs) \cap UsedGroups(x) : f[s] = g[s]
      BY <1>1, <1>2
    <3>2. AppOf[x].subs \in Seq(Apps)
      BY TreeTypes
    <3> QED
      BY <3>1, <3>2, EachSame
  <2> QED
    BY <2>1, <2>2 DEF FinalsFrom
<1>3. \A a \in Apps : Finals(a) = c[a]
  BY DEF Finals, FinalsFrom, LastFinal
<1>4. F \in [[Apps -> V] -> [Apps -> V]]
  <2>1. ASSUME NEW f \in [Apps -> V], NEW x \in Apps PROVE FinalsFrom(f, x) \in V
    <3>1. \A s \in Subs(x) : f[s] \in Seq(Calls)
      BY <1>1
    <3> QED
      BY <3>1, FinalsFromAre
  <2> QED
    BY <2>1
<1>5. Local(Apps, Below, V, F)
  BY <1>2 DEF Local
<1>6. PICK f \in [Apps -> V] : f = F[f]
  <2>1. V # {}
    BY NoCall
  <2> HIDE DEF V, F
  <2>2. Recursion(Apps, Below, V, F)
    BY <2>1, <1>4, <1>5, BelowWellFounded DEF Recursion
  <2> QED
    BY <2>2, RecursionSolved
<1>7. c = R(c)
  <2>1. \E k : k = R(k)
    BY <1>6
  <2> QED
    BY ONLY <2>1
<1> HIDE DEF c
<1>8. c = [y \in Apps |-> Finals(y)]
  <2>1. c = [y \in Apps |-> c[y]]
    BY ONLY <1>7
  <2> QED
    BY ONLY <1>3, <2>1
<1>9. \A x \in Apps : c[x] = FinalsFrom(c, x)
  BY ONLY <1>7
<1> QED
  BY ONLY <1>3, <1>8, <1>9

\* run_callback of an App comes to final callbacks at or below it only.
LEMMA FinalsAre ==
    ASSUME \A x \in Apps : listed[x] \in Seq(Names)
    PROVE  \A a \in Apps :
        /\ Finals(a) \in Seq(Calls)
        /\ \A c \in ToSet(Finals(a)) : c.do = "final" /\ c.on \in Apps /\ Lineage[a] \subseteq Lineage[c.on]
<1> DEFINE V == Seq(Calls)
<1>1. PICK c : c = [y \in Apps |-> Finals(y)]
  OBVIOUS
<1>2. \A x \in Apps : c[x] = Finals(x) /\ c[x] = FinalsFrom(c, x)
  BY <1>1, FinalsUnfold
<1>3. ASSUME NEW x \in Apps, \A s \in Subs(x) : c[s] \in V
      PROVE  c[x] \in V /\ ToSet(c[x]) \subseteq (UNION { ToSet(c[s]) : s \in Subs(x) }) \cup {Do("final", x)}
  <2>1. PICK A, B : /\ A = Each(listed[x], Subs(x), c) /\ B = Each(AppOf[x].subs, UsedGroups(x), c)
    OBVIOUS
  <2>2. /\ FinalsFrom(c, x) \in V
        /\ ToSet(A) = UNION { ToSet(c[s]) : s \in ToSet(listed[x]) \cap Subs(x) }
        /\ ToSet(B) = UNION { ToSet(c[s]) : s \in UsedGroups(x) }
        /\ ToSet(FinalsFrom(c, x)) = ToSet(A) \cup ToSet(B) \cup ToSet(LastFinal(x))
    BY <1>3, <2>1, FinalsFromAre
  <2>3. ToSet(A) \subseteq UNION { ToSet(c[s]) : s \in Subs(x) }
    BY <2>2
  <2>4. ToSet(B) \subseteq UNION { ToSet(c[s]) : s \in Subs(x) }
    BY <2>2 DEF UsedGroups
  <2> QED
    BY <1>2, <2>2, <2>3, <2>4, LastFinalIs
<1> DEFINE Good == { a \in Apps : /\ c[a] \in V
                                  /\ \A k \in ToSet(c[a]) :
                                        /\ k.do = "final" /\ k.on \in Apps
                                        /\ Lineage[a] \subseteq Lineage[k.on] }
<1>4. Good \in SUBSET Apps /\ \A a \in Apps : Below[a] \subseteq Good => a \in Good
  <2> SUFFICES ASSUME NEW a \in Apps, Below[a] \subseteq Good PROVE a \in Good
    OBVIOUS
  <2>1. ASSUME NEW s \in Subs(a) PROVE s \in Good /\ s \in Apps /\ Lineage[a] \subseteq Lineage[s]
    <3>1. s \in Good /\ s \in Apps
      BY TreeTypes DEF Below
    <3>2. s # Root /\ Parent(s) = a
      BY <3>1, Parents
    <3>3. Lineage[s] = {s} \cup Lineage[a]
      BY <3>1, <3>2, LineageIs
    <3> QED
      BY <3>1, <3>3
  <2>2. c[a] \in V /\ ToSet(c[a]) \subseteq (UNION { ToSet(c[s]) : s \in Subs(a) }) \cup {Do("final", a)}
    BY <1>3, <2>1
  <2>3. ASSUME NEW k \in ToSet(c[a])
        PROVE  k.do = "final" /\ k.on \in Apps /\ Lineage[a] \subseteq Lineage[k.on]
    <3>1. CASE k = Do("final", a)
      BY <3>1, CallsAre
    <3>2. CASE k # Do("final", a)
      <4>1. PICK s \in Subs(a) : k \in ToSet(c[s])
        BY <2>2, <3>2
      <4>2. k.do = "final" /\ k.on \in Apps /\ Lineage[s] \subseteq Lineage[k.on]
        BY <2>1, <4>1
      <4> QED
        BY <2>1, <4>1, <4>2
    <3> QED
      BY <3>1, <3>2
  <2> QED
    BY <2>2, <2>3
<1> HIDE DEF Good
<1>5. Good = Apps
  BY <1>4, DownInduction
<1> QED
  BY <1>2, <1>5 DEF Good

\* The callbacks of a round are deliveries of options, and the ends of groups
\* that complete.
Small(c) ==
    \/ c.do = "deliver"
    \/ c.do = "run" /\ c \in Calls /\ ~c.quiet /\ IsGroup(c.on) /\ AppOf[c.on].completes

LEMMA CallbacksAre ==
    ASSUME NEW p
    PROVE  \A a \in Apps : \A c \in ToSet(Callbacks(a, p)) :
            Small(c) /\ (c.do = "deliver" => c.on \in Due(p))
<1> DEFINE Good == { a \in Apps : \A c \in ToSet(Callbacks(a, p)) :
                                    Small(c) /\ (c.do = "deliver" => c.on \in Due(p)) }
<1>1. Good \in SUBSET Apps /\ \A a \in Apps : Below[a] \subseteq Good => a \in Good
  <2> SUFFICES ASSUME NEW a \in Apps, Below[a] \subseteq Good, NEW c \in ToSet(Callbacks(a, p))
               PROVE  Small(c) /\ (c.do = "deliver" => c.on \in Due(p))
    OBVIOUS
  <2>1. Below[a] = Subs(a) /\ Subs(a) \in SUBSET Apps /\ UsedGroups(a) \in SUBSET Subs(a)
    BY TreeTypes DEF Below, UsedGroups
  <2>2. CASE c \in UNION { ToSet(Callbacks(s, p)) \cup GroupEnds(s, p) :
                                s \in UsedGroups(a) \cap Completing }
    <3>1. PICK s \in UsedGroups(a) \cap Completing : c \in ToSet(Callbacks(s, p)) \cup GroupEnds(s, p)
      BY <2>2
    <3>2. CASE c \in ToSet(Callbacks(s, p))
      BY <2>1, <3>1, <3>2
    <3>3. CASE c \in GroupEnds(s, p)
      <4>1. c = Run(s, FALSE) /\ s \in Apps /\ IsGroup(s) /\ AppOf[s].completes
        BY <2>1, <3>1, <3>3 DEF GroupEnds, UsedGroups, Completing
      <4>2. c \in Calls /\ c.do = "run" /\ c.on = s /\ c.quiet = FALSE
        <5>1. c = [do |-> "run", on |-> s, quiet |-> FALSE]
          BY <4>1 DEF Run
        <5>2. Run(s, FALSE) \in Calls
          <6>1. s \in Apps
            BY ONLY <4>1
          <6> QED
            BY ONLY <6>1, CallsMade
        <5>3. c \in Calls
          BY ONLY <4>1, <5>2
        <5>4. c.do = "run" /\ c.on = s /\ c.quiet = FALSE
          BY ONLY <5>1
        <5> QED
          BY ONLY <5>3, <5>4
      <4>3. c.do = "run" /\ c \in Calls /\ ~c.quiet /\ IsGroup(c.on) /\ AppOf[c.on].completes
        BY <4>1, <4>2
      <4>4. Small(c)
        BY ONLY <4>3 DEF Small
      <4> QED
        BY <4>2, <4>4
    <3> QED
      BY <3>1, <3>2, <3>3
  <2>3. CASE c \in { Do("deliver", o) : o \in Own(a) \cap Due(p) }
    BY <2>3, CallsAre DEF Small
  <2>4. CASE c \in UNION { ToSet(Callbacks(s, p)) : s \in Subs(a) \ Completing }
    BY <2>1, <2>4
  <2> QED
    BY <2>2, <2>3, <2>4, CallbacksIs
<1> HIDE DEF Good
<1>2. Good = Apps
  BY <1>1, DownInduction
<1> QED
  BY <1>2 DEF Good

\* A round at a station delivers what is due in all of its Apps.
LEMMA RoundDelivers ==
    ASSUME NEW p, NEW o \in Options, o \in Due(p)
    PROVE  Do("deliver", o) \in ToSet(Callbacks(Station[Owner(o)], p))
<1> DEFINE d == Do("deliver", o)
           Good == { x \in Apps : Used(x) /\ d \in ToSet(Callbacks(x, p)) =>
                                    d \in ToSet(Callbacks(Station[x], p)) }
<1>1. Good \in SUBSET Apps /\ \A a \in Apps : Above[a] \subseteq Good => a \in Good
  <2> SUFFICES ASSUME NEW x \in Apps, Above[x] \subseteq Good, Used(x), d \in ToSet(Callbacks(x, p))
               PROVE  d \in ToSet(Callbacks(Station[x], p))
    OBVIOUS
  <2>1. CASE x = Root \/ Completes(x)
    BY <2>1, StationIs
  <2>2. CASE x # Root /\ ~Completes(x)
    <3>1. Parent(x) \in Apps /\ x \in Subs(Parent(x)) /\ Used(Parent(x)) /\ Parent(x) \in Above[x]
      BY <2>2, Parents, UsedUpward DEF Above
    <3>2. d \in ToSet(Callbacks(Parent(x), p))
      <4>1. CASE AppOf[x].completes
        <5>1. x \in UsedGroups(Parent(x)) \cap Completing
          BY <2>2, <3>1, <4>1 DEF UsedGroups, Completing, Completes
        <5> QED
          BY <3>1, <5>1, CallbacksIs
      <4>2. CASE ~AppOf[x].completes
        <5>1. x \in Subs(Parent(x)) \ Completing
          BY <3>1, <4>2 DEF Completing
        <5> QED
          BY <3>1, <5>1, CallbacksIs
      <4> QED
        BY <4>1, <4>2
    <3>3. Station[x] = Station[Parent(x)]
      BY <2>2, StationIs
    <3> QED
      BY <3>1, <3>2, <3>3
  <2> QED
    BY <2>1, <2>2
<1>2. Used(Owner(o)) /\ d \in ToSet(Callbacks(Owner(o), p)) /\ Owner(o) \in Apps
  <2>1. Owner(o) \in Apps /\ o \in Own(Owner(o)) /\ o \in given
    BY Owners DEF Due
  <2>2. Used(Owner(o))
    BY <2>1, UsedUpward
  <2> QED
    BY <2>1, <2>2, CallbacksIs
<1> HIDE DEF Good
<1>3. Good = Apps
  BY <1>1, UpInduction
<1> QED
  BY <1>2, <1>3 DEF Good

-----------------------------------------------------------------------------
(* What stands behind a call.                                              *)

\* The calls that belong to a file.
SourceKinds == {"sources", "open", "close", "set", "unreadable"}
\* The Apps that go through the rounds of callbacks themselves.
Ends(a) == a = Root \/ Completes(a)
\* Those whose final callbacks may run before the end of parse, and what they hold.
EndsEarly(b) == AppOf[b].completes /\ (IsGroup(b) \/ RulesOf[b].configurable)
Early(a) == \E b \in Lineage[a] : EndsEarly(b)

\* What is still to come while files are read: the rest of them and of _process.
Later(c) ==
    \/ c.do \in SourceKinds \cup {"rethrow", "extras", "return"}
    \/ c.do \in {"environment", "callbacks", "help", "requirements", "run"} /\ c.on = Root

\* a's requirements, and the rounds and looks for help of all priorities but
\* the first.
Remains(a, R) ==
    /\ Do("requirements", a) \in R
    /\ \A p \in DOMAIN PreHelp \ {"First"} : Help(a, p) \in R
    /\ \A p \in Priorities \ {"FirstPreHelp", "First"} : Round(a, p) \in R

\* Once one of these is reached, there are only final callbacks left.
Final(c) ==
    \/ c.do \in {"run", "completed"} /\ c.on = Root
    \/ c.do = "final" /\ ~Early(c.on)

\* What the calls R behind a call c must be.
Behind(c, R) ==
    /\ c.do \in SourceKinds => Remains(Root, R) /\ \A d \in R : Later(d)
    /\ c.do = "environment" => Remains(c.on, R) /\ (c.on = Root => \A d \in R : Later(d))
    /\ c.do \in {"leave", "return"} => R = {}
    /\ c.do \in {"run", "completed"} /\ Ends(c.on) =>
        \A d \in R : /\ d.do # "deliver"
                     /\ d.do \in {"callbacks", "requirements", "help"} => d.on # c.on
    /\ Final(c) => \A d \in R : d.do \in {"final", "return"}
    /\ c.do = "rethrow" =>
        \A d \in R : /\ d.do \notin {"deliver", "requirements"}
                     /\ d.do = "callbacks" => d.priority \in {"LastPreHelp", "Last"}

\* The calls of s may be put in front of the calls R.
Fits(s, R) == \A i \in DOMAIN s : Behind(s[i], Rest(s, i) \cup R)

\* Calls that may stand anywhere.
Loose(c) ==
    \/ c.do \in {"callbacks", "help", "requirements", "deliver", "extras"}
    \/ c.do \in {"run", "completed"} /\ ~Ends(c.on)
    \/ c.do = "final" /\ Early(c.on)

LEMMA LooseFits == \A c \in Calls : Loose(c) => \A R : Behind(c, R)
<1> SUFFICES ASSUME NEW c \in Calls, Loose(c), NEW R PROVE Behind(c, R)
  OBVIOUS
<1>1. CASE c.do \in {"callbacks", "help", "requirements", "deliver", "extras"}
  BY <1>1 DEF Behind, Final, SourceKinds
<1>2. CASE c.do \in {"run", "completed"} /\ ~Ends(c.on)
  BY <1>2 DEF Behind, Final, SourceKinds, Ends
<1>3. CASE c.do = "final" /\ Early(c.on)
  BY <1>3 DEF Behind, Final, SourceKinds
<1> QED
  BY <1>1, <1>2, <1>3 DEF Loose

LEMMA AllLooseFit ==
    \A s \in Seq(Calls) : \A R : (\A c \in ToSet(s) : Loose(c)) => Fits(s, R)
<1> SUFFICES ASSUME NEW s \in Seq(Calls), NEW R, \A c \in ToSet(s) : Loose(c),
                    NEW i \in DOMAIN s
             PROVE  Behind(s[i], Rest(s, i) \cup R)
  BY DEF Fits
<1>1. s[i] \in Calls /\ s[i] \in ToSet(s)
  BY DEF ToSet
<1> QED
  BY <1>1, LooseFits

LEMMA OneFits == \A c \in Calls : \A R : Behind(c, R) => Fits(<<c>>, R)
<1> SUFFICES ASSUME NEW c \in Calls, NEW R, Behind(c, R) PROVE Fits(<<c>>, R)
  OBVIOUS
<1>1. DOMAIN <<c>> = {1} /\ <<c>>[1] = c
  OBVIOUS
<1>2. Rest(<<c>>, 1) = {}
  BY <1>1 DEF Rest
<1>3. Rest(<<c>>, 1) \cup R = R
  BY <1>2
<1> QED
  BY <1>1, <1>3 DEF Fits

LEMMA JoinedFit ==
    \A s, t \in Seq(Calls) : \A R : Fits(s, ToSet(t) \cup R) /\ Fits(t, R) => Fits(s \o t, R)
<1> SUFFICES ASSUME NEW s \in Seq(Calls), NEW t \in Seq(Calls), NEW R,
                    Fits(s, ToSet(t) \cup R), Fits(t, R), NEW i \in DOMAIN (s \o t)
             PROVE  Behind((s \o t)[i], Rest(s \o t, i) \cup R)
  BY DEF Fits
<1>1. CASE i \in DOMAIN s
  <2>1. (s \o t)[i] = s[i] /\ Rest(s \o t, i) = Rest(s, i) \cup ToSet(t)
    BY <1>1, RestJoined
  <2>2. Behind(s[i], Rest(s, i) \cup (ToSet(t) \cup R))
    BY <1>1 DEF Fits
  <2>3. Rest(s, i) \cup (ToSet(t) \cup R) = Rest(s \o t, i) \cup R
    BY <2>1
  <2> QED
    BY ONLY <2>1, <2>2, <2>3
<1>2. CASE i \notin DOMAIN s
  <2>1. PICK k \in DOMAIN t : (s \o t)[i] = t[k] /\ Rest(s \o t, i) = Rest(t, k)
    BY <1>2, RestJoined
  <2>2. Behind(t[k], Rest(t, k) \cup R)
    BY DEF Fits
  <2> QED
    BY ONLY <2>1, <2>2
<1> QED
  BY <1>1, <1>2

\* The calls of the agenda fit as they stand; so do those left when the first
\* is taken off, and those put in front of them.
LEMMA AgendaTaken ==
    \A s \in Seq(Calls) : s # <<>> /\ Fits(s, {}) =>
        /\ Head(s) \in Calls /\ Tail(s) \in Seq(Calls)
        /\ ToSet(s) = {Head(s)} \cup ToSet(Tail(s))
        /\ Behind(Head(s), ToSet(Tail(s))) /\ Fits(Tail(s), {})
<1> SUFFICES ASSUME NEW s \in Seq(Calls), s # <<>>, Fits(s, {})
             PROVE  /\ Head(s) \in Calls /\ Tail(s) \in Seq(Calls)
                    /\ ToSet(s) = {Head(s)} \cup ToSet(Tail(s))
                    /\ Behind(Head(s), ToSet(Tail(s))) /\ Fits(Tail(s), {})
  OBVIOUS
<1>1. /\ Head(s) \in Calls /\ Tail(s) \in Seq(Calls)
      /\ ToSet(s) = {Head(s)} \cup ToSet(Tail(s))
      /\ Rest(s, 1) = ToSet(Tail(s))
      /\ \A i \in DOMAIN Tail(s) :
            i + 1 \in DOMAIN s /\ Tail(s)[i] = s[i + 1] /\ Rest(Tail(s), i) = Rest(s, i + 1)
  BY ToSetTaken
<1>2. 1 \in DOMAIN s /\ Head(s) = s[1]
  OBVIOUS
<1>3. \A i \in DOMAIN s : Behind(s[i], Rest(s, i))
  <2>1. \A i \in DOMAIN s : Rest(s, i) \cup {} = Rest(s, i)
    OBVIOUS
  <2> QED
    BY <2>1 DEF Fits
<1>4. Behind(Head(s), ToSet(Tail(s)))
  BY <1>1, <1>2, <1>3
<1>5. Fits(Tail(s), {})
  <2>1. \A i \in DOMAIN Tail(s) : Behind(Tail(s)[i], Rest(Tail(s), i))
    BY <1>1, <1>3
  <2>2. \A i \in DOMAIN Tail(s) : Rest(Tail(s), i) \cup {} = Rest(Tail(s), i)
    OBVIOUS
  <2> QED
    BY <2>1, <2>2 DEF Fits
<1> QED
  BY <1>1, <1>4, <1>5

LEMMA AgendaGrown ==
    \A s, t \in Seq(Calls) : Fits(s, ToSet(t)) /\ Fits(t, {}) =>
        /\ s \o t \in Seq(Calls) /\ ToSet(s \o t) = ToSet(s) \cup ToSet(t)
        /\ Fits(s \o t, {})
<1> SUFFICES ASSUME NEW s \in Seq(Calls), NEW t \in Seq(Calls), Fits(s, ToSet(t)), Fits(t, {})
             PROVE  Fits(s \o t, {})
  BY CallsJoined
<1>1. ToSet(t) \cup {} = ToSet(t)
  OBVIOUS
<1> QED
  BY <1>1, JoinedFit

-----------------------------------------------------------------------------
(* The calls of _process and of _process_completion_callbacks.             *)

LEMMA PrioritiesAre ==
    /\ DOMAIN PreHelp = {"First", "PreRequirementsCheck", "Normal", "Last"}
    /\ PreHelp["First"] = "FirstPreHelp" /\ PreHelp["Normal"] = "NormalPreHelp"
    /\ PreHelp["PreRequirementsCheck"] = "PreRequirementsCheckPreHelp"
    /\ PreHelp["Last"] = "LastPreHelp"
    /\ Priorities = {"FirstPreHelp", "First", "PreRequirementsCheckPreHelp",
                     "PreRequirementsCheck", "NormalPreHelp", "Normal", "LastPreHelp", "Last"}
<1>1. /\ DOMAIN PreHelp = {"First", "PreRequirementsCheck", "Normal", "Last"}
      /\ PreHelp["First"] = "FirstPreHelp" /\ PreHelp["Normal"] = "NormalPreHelp"
      /\ PreHelp["PreRequirementsCheck"] = "PreRequirementsCheckPreHelp"
      /\ PreHelp["Last"] = "LastPreHelp"
  BY DEF PreHelp
<1>2. { PreHelp[p] : p \in DOMAIN PreHelp } =
        {"FirstPreHelp", "PreRequirementsCheckPreHelp", "NormalPreHelp", "LastPreHelp"}
  BY <1>1
<1> QED
  BY <1>1, <1>2 DEF Priorities

\* The calls of a stage.
Staged(a, p, withHelp) ==
    {Round(a, PreHelp[p]), Round(a, p)} \cup (IF withHelp THEN {Help(a, p)} ELSE {})

LEMMA StageIs ==
    \A a \in Apps, p \in DOMAIN PreHelp, w \in BOOLEAN :
        /\ Stage(a, p, w) \in Seq(Calls) /\ ToSet(Stage(a, p, w)) = Staged(a, p, w)
        /\ \A c \in Staged(a, p, w) : c.do \in {"callbacks", "help"} /\ c.on = a /\ Loose(c)
        /\ \A R : Fits(Stage(a, p, w), R)
<1> SUFFICES ASSUME NEW a \in Apps, NEW p \in DOMAIN PreHelp, NEW w \in BOOLEAN
             PROVE  /\ Stage(a, p, w) \in Seq(Calls) /\ ToSet(Stage(a, p, w)) = Staged(a, p, w)
                    /\ \A c \in Staged(a, p, w) :
                            c.do \in {"callbacks", "help"} /\ c.on = a /\ Loose(c)
                    /\ \A R : Fits(Stage(a, p, w), R)
  OBVIOUS
<1> DEFINE h == IF w THEN <<Help(a, p)>> ELSE <<>>
<1>1. p \in Priorities /\ PreHelp[p] \in Priorities
  BY PrioritiesAre
<1>2. Round(a, PreHelp[p]) \in Calls /\ Round(a, p) \in Calls /\ Help(a, p) \in Calls
  BY <1>1, CallsMade
<1>3. h \in Seq(Calls) /\ ToSet(h) = IF w THEN {Help(a, p)} ELSE {}
  BY <1>2, OneCall, NoCall
<1>4. Stage(a, p, w) = <<Round(a, PreHelp[p])>> \o h \o <<Round(a, p)>>
  BY DEF Stage
<1> HIDE DEF h
<1>5. /\ <<Round(a, PreHelp[p])>> \in Seq(Calls)
      /\ ToSet(<<Round(a, PreHelp[p])>>) = {Round(a, PreHelp[p])}
      /\ <<Round(a, p)>> \in Seq(Calls) /\ ToSet(<<Round(a, p)>>) = {Round(a, p)}
  BY <1>2, OneCall
<1>6. /\ <<Round(a, PreHelp[p])>> \o h \in Seq(Calls)
      /\ ToSet(<<Round(a, PreHelp[p])>> \o h) = {Round(a, PreHelp[p])} \cup ToSet(h)
  BY <1>3, <1>5, CallsJoined
<1>7. Stage(a, p, w) \in Seq(Calls) /\ ToSet(Stage(a, p, w)) = Staged(a, p, w)
  <2>1. /\ Stage(a, p, w) \in Seq(Calls)
        /\ ToSet(Stage(a, p, w)) = ({Round(a, PreHelp[p])} \cup ToSet(h)) \cup {Round(a, p)}
    <3>1. PICK u : u = <<Round(a, PreHelp[p])>> \o h
      OBVIOUS
    <3>2. PICK v : v = <<Round(a, p)>>
      OBVIOUS
    <3>3. u \in Seq(Calls) /\ v \in Seq(Calls)
      BY ONLY <1>5, <1>6, <3>1, <3>2
    <3>4. u \o v \in Seq(Calls) /\ ToSet(u \o v) = ToSet(u) \cup ToSet(v)
      BY ONLY <3>3, CallsJoined
    <3>5. Stage(a, p, w) = u \o v
      BY ONLY <1>4, <3>1, <3>2
    <3>6. ToSet(u) = {Round(a, PreHelp[p])} \cup ToSet(h) /\ ToSet(v) = {Round(a, p)}
      BY ONLY <1>5, <1>6, <3>1, <3>2
    <3> QED
      BY ONLY <3>4, <3>5, <3>6
  <2> QED
    BY <1>3, <2>1 DEF Staged
<1>8. \A c \in Staged(a, p, w) : c.do \in {"callbacks", "help"} /\ c.on = a
  BY CallsAre DEF Staged
<1>9. \A c \in Staged(a, p, w) : Loose(c)
  BY <1>8 DEF Loose
<1> QED
  BY <1>7, <1>8, <1>9, AllLooseFit

\* Up to the check of requirements.
CheckedCalls(a, withHelp) ==
    Staged(a, "First", withHelp) \cup Staged(a, "PreRequirementsCheck", withHelp)
    \cup {Do("requirements", a)}

LEMMA CheckedIs ==
    \A a \in Apps, w \in BOOLEAN, reads \in Seq(Calls) :
        /\ Checked(a, reads, w) \in Seq(Calls)
        /\ ToSet(Checked(a, reads, w)) = CheckedCalls(a, w) \cup ToSet(reads)
        /\ \A R : Fits(reads, Staged(a, "PreRequirementsCheck", w) \cup {Do("requirements", a)} \cup R)
                    => Fits(Checked(a, reads, w), R)
<1> SUFFICES ASSUME NEW a \in Apps, NEW w \in BOOLEAN, NEW reads \in Seq(Calls)
             PROVE  /\ Checked(a, reads, w) \in Seq(Calls)
                    /\ ToSet(Checked(a, reads, w)) = CheckedCalls(a, w) \cup ToSet(reads)
                    /\ \A R : Fits(reads, Staged(a, "PreRequirementsCheck", w)
                                            \cup {Do("requirements", a)} \cup R)
                                => Fits(Checked(a, reads, w), R)
  OBVIOUS
<1> DEFINE s1 == Stage(a, "First", w)
           s2 == Stage(a, "PreRequirementsCheck", w)
           r == <<Do("requirements", a)>>
<1>1. /\ s1 \in Seq(Calls) /\ ToSet(s1) = Staged(a, "First", w) /\ \A R : Fits(s1, R)
      /\ s2 \in Seq(Calls) /\ ToSet(s2) = Staged(a, "PreRequirementsCheck", w) /\ \A R : Fits(s2, R)
  BY PrioritiesAre, StageIs
<1>2. r \in Seq(Calls) /\ ToSet(r) = {Do("requirements", a)} /\ \A R : Fits(r, R)
  <2>1. Do("requirements", a) \in Calls /\ Do("requirements", a).do = "requirements"
    BY CallsMade, CallsAre
  <2>2. Loose(Do("requirements", a))
    BY <2>1 DEF Loose
  <2> QED
    BY <2>1, <2>2, OneCall, LooseFits, OneFits
<1>3. Checked(a, reads, w) = s1 \o reads \o s2 \o r
  BY DEF Checked
<1> HIDE DEF s1, s2, r
<1>4. s1 \o reads \in Seq(Calls) /\ ToSet(s1 \o reads) = ToSet(s1) \cup ToSet(reads)
  BY <1>1, CallsJoined
<1>5. /\ s1 \o reads \o s2 \in Seq(Calls)
      /\ ToSet(s1 \o reads \o s2) = ToSet(s1) \cup ToSet(reads) \cup ToSet(s2)
  BY <1>1, <1>4, CallsJoined
<1>6. /\ s1 \o reads \o s2 \o r \in Seq(Calls)
      /\ ToSet(s1 \o reads \o s2 \o r) = ToSet(s1) \cup ToSet(reads) \cup ToSet(s2) \cup ToSet(r)
  BY <1>2, <1>5, CallsJoined
<1>7. ASSUME NEW R, Fits(reads, Staged(a, "PreRequirementsCheck", w)
                                    \cup {Do("requirements", a)} \cup R)
      PROVE  Fits(Checked(a, reads, w), R)
  <2>1. ToSet(s2) \cup (ToSet(r) \cup R)
            = Staged(a, "PreRequirementsCheck", w) \cup {Do("requirements", a)} \cup R
    BY <1>1, <1>2
  <2>2. Fits(reads, ToSet(s2) \cup (ToSet(r) \cup R))
    BY ONLY <1>7, <2>1
  <2>3. Fits(s1, ToSet(reads) \cup (ToSet(s2) \cup (ToSet(r) \cup R)))
    BY <1>1
  <2>4. Fits(s1 \o reads, ToSet(s2) \cup (ToSet(r) \cup R))
    BY ONLY <1>1, <2>2, <2>3, JoinedFit, reads \in Seq(Calls)
  <2>5. Fits(s1 \o reads \o s2, ToSet(r) \cup R)
    BY ONLY <1>1, <1>4, <2>4, JoinedFit
  <2>6. Fits(s1 \o reads \o s2 \o r, R)
    BY ONLY <1>2, <1>5, <2>5, JoinedFit
  <2> QED
    BY ONLY <1>3, <2>6
<1> QED
  BY <1>1, <1>2, <1>3, <1>6, <1>7 DEF CheckedCalls

\* The end of the rounds.
AllRounds(a) == { Round(a, p) : p \in Priorities }
AllHelp(a) == { Help(a, p) : p \in DOMAIN PreHelp }

LEMMA StagesAre ==
    \A a \in Apps, w \in BOOLEAN :
        Staged(a, "First", w) \cup Staged(a, "PreRequirementsCheck", w)
            \cup Staged(a, "Normal", w) \cup Staged(a, "Last", w)
        = AllRounds(a) \cup (IF w THEN AllHelp(a) ELSE {})
  BY PrioritiesAre DEF Staged, AllRounds, AllHelp

\* The calls of _process_completion_callbacks.
CompletionCalls(a, withHelp) ==
    AllRounds(a) \cup (IF withHelp THEN AllHelp(a) \cup {Do("environment", a)} ELSE {})
    \cup {Do("requirements", a), Run(a, withHelp)}

LEMMA CompletionIs ==
    \A a \in Apps, w \in BOOLEAN :
        /\ Completion(a, w) \in Seq(Calls) /\ ToSet(Completion(a, w)) = CompletionCalls(a, w)
        /\ \A R : Behind(Run(a, w), R) /\ (w => a # Root) => Fits(Completion(a, w), R)
<1> SUFFICES ASSUME NEW a \in Apps, NEW w \in BOOLEAN
             PROVE  /\ Completion(a, w) \in Seq(Calls)
                    /\ ToSet(Completion(a, w)) = CompletionCalls(a, w)
                    /\ \A R : Behind(Run(a, w), R) /\ (w => a # Root) => Fits(Completion(a, w), R)
  OBVIOUS
<1> DEFINE e == EnvironmentIf(a, w)
           s == Checked(a, e, w)
           n == Stage(a, "Normal", w)
           l == Stage(a, "Last", w)
           r == <<Run(a, w)>>
<1>1. /\ n \in Seq(Calls) /\ ToSet(n) = Staged(a, "Normal", w) /\ \A R : Fits(n, R)
      /\ l \in Seq(Calls) /\ ToSet(l) = Staged(a, "Last", w) /\ \A R : Fits(l, R)
  BY PrioritiesAre, StageIs
<1>2. Run(a, w) \in Calls
  BY CallsMade
<1>3. r \in Seq(Calls) /\ ToSet(r) = {Run(a, w)} /\ \A R : Behind(Run(a, w), R) => Fits(r, R)
  BY <1>2, OneCall, OneFits
<1>4. Do("environment", a) \in Calls /\ Do("environment", a).do = "environment"
      /\ Do("environment", a).on = a
  BY CallsMade, CallsAre
<1>5. e \in Seq(Calls) /\ ToSet(e) = IF w THEN {Do("environment", a)} ELSE {}
  BY <1>4, OneCall, NoCall DEF EnvironmentIf
<1>6. /\ s \in Seq(Calls) /\ ToSet(s) = CheckedCalls(a, w) \cup ToSet(e)
      /\ \A R : Fits(e, Staged(a, "PreRequirementsCheck", w) \cup {Do("requirements", a)} \cup R)
                    => Fits(s, R)
  BY <1>5, CheckedIs
<1>7. Completion(a, w) = s \o n \o l \o r
  BY DEF Completion
<1>8. ASSUME NEW R, w => a # Root
      PROVE  Fits(e, Staged(a, "PreRequirementsCheck", w) \cup {Do("requirements", a)}
                        \cup (Staged(a, "Normal", w) \cup (Staged(a, "Last", w) \cup R)))
  <2> DEFINE Q == Staged(a, "PreRequirementsCheck", w) \cup {Do("requirements", a)}
                        \cup (Staged(a, "Normal", w) \cup (Staged(a, "Last", w) \cup R))
  <2>1. CASE w
    <3>1. e = <<Do("environment", a)>>
      BY <2>1 DEF EnvironmentIf
    <3>2. Remains(a, Q)
      BY <2>1, PrioritiesAre DEF Remains, Staged
    <3> HIDE DEF Q, e
    <3>3. Behind(Do("environment", a), Q)
      BY <1>4, <1>8, <2>1, <3>2 DEF Behind, Final, SourceKinds
    <3>4. Fits(<<Do("environment", a)>>, Q)
      BY ONLY <1>4, <3>3, OneFits
    <3>5. Fits(e, Q)
      BY ONLY <3>1, <3>4
    <3> QED
      BY ONLY <3>5 DEF Q
  <2>2. CASE ~w
    <3>1. ToSet(e) = {}
      BY <1>5, <2>2
    <3> HIDE DEF Q, e
    <3>2. Fits(e, Q)
      BY <1>5, <3>1, AllLooseFit
    <3> QED
      BY ONLY <3>2 DEF Q
  <2> QED
    BY <2>1, <2>2
<1> HIDE DEF e, s, n, l, r
<1>9. s \o n \in Seq(Calls) /\ ToSet(s \o n) = ToSet(s) \cup ToSet(n)
  BY ONLY <1>1, <1>6, CallsJoined
<1>10. (s \o n) \o l \in Seq(Calls) /\ ToSet((s \o n) \o l) = ToSet(s \o n) \cup ToSet(l)
  BY ONLY <1>1, <1>9, CallsJoined
<1>11. /\ ((s \o n) \o l) \o r \in Seq(Calls)
       /\ ToSet(((s \o n) \o l) \o r) = ToSet((s \o n) \o l) \cup ToSet(r)
  BY ONLY <1>3, <1>10, CallsJoined
<1>12. ToSet(Completion(a, w)) = CompletionCalls(a, w)
  <2>1. ToSet(Completion(a, w)) =
            (Staged(a, "First", w) \cup Staged(a, "PreRequirementsCheck", w)
                \cup Staged(a, "Normal", w) \cup Staged(a, "Last", w))
            \cup {Do("requirements", a)} \cup ToSet(e) \cup {Run(a, w)}
    BY <1>1, <1>3, <1>6, <1>7, <1>9, <1>10, <1>11 DEF CheckedCalls
  <2>2. Staged(a, "First", w) \cup Staged(a, "PreRequirementsCheck", w)
            \cup Staged(a, "Normal", w) \cup Staged(a, "Last", w)
        = AllRounds(a) \cup (IF w THEN AllHelp(a) ELSE {})
    BY StagesAre
  <2> QED
    BY <1>5, <2>1, <2>2 DEF CompletionCalls
<1>13. ASSUME NEW R, Behind(Run(a, w), R), w => a # Root PROVE Fits(Completion(a, w), R)
  <2>1. Fits(r, R)
    BY <1>3, <1>13
  <2>2. Fits(l, ToSet(r) \cup R) /\ Fits(n, ToSet(l) \cup (ToSet(r) \cup R))
    BY <1>1
  <2>3. Fits(s, ToSet(n) \cup (ToSet(l) \cup (ToSet(r) \cup R)))
    BY <1>1, <1>6, <1>8, <1>13
  <2>4. Fits(s \o n, ToSet(l) \cup (ToSet(r) \cup R))
    BY ONLY <1>1, <1>6, <2>2, <2>3, JoinedFit
  <2>5. Fits((s \o n) \o l, ToSet(r) \cup R)
    BY ONLY <1>1, <1>9, <2>2, <2>4, JoinedFit
  <2>6. Fits(((s \o n) \o l) \o r, R)
    BY ONLY <1>3, <1>10, <2>1, <2>5, JoinedFit
  <2> QED
    BY ONLY <1>7, <2>6
<1> QED
  BY <1>7, <1>11, <1>12, <1>13

LEMMA EndingFits ==
    /\ Ending \in Seq(Calls)
    /\ ToSet(Ending) = {Do("extras", Root), Run(Root, FALSE), Do("return", Root)}
    /\ Fits(Ending, {})
<1> DEFINE x == Do("extras", Root)
           u == Run(Root, FALSE)
           t == Do("return", Root)
<1>1. x \in Calls /\ u \in Calls /\ t \in Calls
  BY CallsMade, TreeTypes
<1>2. x.do = "extras" /\ u.do = "run" /\ u.on = Root /\ t.do = "return"
  BY CallsAre
<1> HIDE DEF x, u, t
<1>3. Ending = <<x, u, t>>
  BY DEF Ending, x, u, t
<1>4. Behind(x, {u, t}) /\ Behind(u, {t}) /\ Behind(t, {})
  BY <1>2 DEF Behind, Final, SourceKinds
<1>5. \A i \in {1, 2, 3} : Behind(Ending[i], Rest(Ending, i) \cup {})
  <2>1. DOMAIN Ending = {1, 2, 3} /\ Ending[1] = x /\ Ending[2] = u /\ Ending[3] = t
    BY <1>3
  <2>2. Rest(Ending, 1) = {u, t} /\ Rest(Ending, 2) = {t} /\ Rest(Ending, 3) = {}
    BY <2>1 DEF Rest
  <2>3. {u, t} \cup {} = {u, t} /\ {t} \cup {} = {t} /\ {} \cup {} = {}
    OBVIOUS
  <2> QED
    BY <1>4, <2>1, <2>2, <2>3
<1>6. DOMAIN Ending = {1, 2, 3}
  BY <1>3
<1>7. Fits(Ending, {})
  BY <1>5, <1>6 DEF Fits
<1>8. Ending \in Seq(Calls)
  BY <1>1, <1>3
<1>9. ToSet(Ending) = {x, u, t}
  BY <1>3, <1>6 DEF ToSet
<1> QED
  BY <1>7, <1>8, <1>9 DEF x, u, t

\* The calls of _process, and of parse after it.
ProcessCalls ==
    AllRounds(Root) \cup AllHelp(Root)
    \cup {Do("sources", Root), Do("requirements", Root), Do("rethrow", Root),
          Do("extras", Root), Run(Root, FALSE), Do("return", Root)}

LEMMA ProcessIs ==
    Process \in Seq(Calls) /\ ToSet(Process) = ProcessCalls /\ Fits(Process, {})
<1> DEFINE s == Checked(Root, Sources, TRUE)
           n == Stage(Root, "Normal", TRUE)
           x == <<Do("rethrow", Root)>>
           l == Stage(Root, "Last", TRUE)
           E == ToSet(Ending)
           N == Staged(Root, "Normal", TRUE)
           L == Staged(Root, "Last", TRUE)
           P == Staged(Root, "PreRequirementsCheck", TRUE)
<1>0. Root \in Apps /\ TRUE \in BOOLEAN
  BY TreeTypes
<1>1. /\ n \in Seq(Calls) /\ ToSet(n) = N /\ \A R : Fits(n, R)
      /\ l \in Seq(Calls) /\ ToSet(l) = L /\ \A R : Fits(l, R)
      /\ \A c \in N \cup L \cup P : c.do \in {"callbacks", "help"} /\ c.on = Root
  <2>1. "Normal" \in DOMAIN PreHelp /\ "Last" \in DOMAIN PreHelp
        /\ "PreRequirementsCheck" \in DOMAIN PreHelp
    BY PrioritiesAre
  <2>2. n \in Seq(Calls) /\ ToSet(n) = N /\ \A R : Fits(n, R)
    BY <1>0, <2>1, StageIs
  <2>3. l \in Seq(Calls) /\ ToSet(l) = L /\ \A R : Fits(l, R)
    BY <1>0, <2>1, StageIs
  <2>4. \A q \in DOMAIN PreHelp : \A c \in Staged(Root, q, TRUE) :
            c.do \in {"callbacks", "help"} /\ c.on = Root
    BY CallsAre DEF Staged
  <2> HIDE DEF n, l
  <2> QED
    BY <2>1, <2>2, <2>3, <2>4
<1>2. /\ Do("rethrow", Root) \in Calls /\ Do("rethrow", Root).do = "rethrow"
      /\ Do("sources", Root) \in Calls /\ Do("sources", Root).do = "sources"
      /\ Do("requirements", Root).do = "requirements" /\ Do("requirements", Root).on = Root
  BY <1>0, CallsMade, CallsAre
<1>3. x \in Seq(Calls) /\ ToSet(x) = {Do("rethrow", Root)}
  BY <1>2, OneCall
<1>4. Sources \in Seq(Calls) /\ ToSet(Sources) = {Do("sources", Root)}
  BY <1>2, OneCall DEF Sources
<1>5. /\ s \in Seq(Calls) /\ ToSet(s) = CheckedCalls(Root, TRUE) \cup ToSet(Sources)
      /\ \A R : Fits(Sources, P \cup {Do("requirements", Root)} \cup R) => Fits(s, R)
  BY <1>0, <1>4, CheckedIs
<1>6. Process = s \o n \o x \o l \o Ending
  BY DEF Process
<1>7. \A c \in E : c.do \in {"extras", "run", "return"} /\ (c.do = "run" => c.on = Root)
  <2>1. E = {Do("extras", Root), Run(Root, FALSE), Do("return", Root)}
    BY EndingFits
  <2> HIDE DEF E
  <2>2. /\ Do("extras", Root).do = "extras" /\ Do("return", Root).do = "return"
        /\ Run(Root, FALSE).do = "run" /\ Run(Root, FALSE).on = Root
    BY CallsAre
  <2> QED
    BY ONLY <2>1, <2>2
<1>8. Fits(x, L \cup E)
  <2>1. \A c \in L : c.do \in {"callbacks", "help"}
                        /\ (c.do = "callbacks" => c.priority \in {"LastPreHelp", "Last"})
    BY PrioritiesAre, CallsAre DEF Staged
  <2> HIDE DEF L, E
  <2>2. Behind(Do("rethrow", Root), L \cup E)
    BY <1>2, <1>7, <2>1 DEF Behind, Final, SourceKinds
  <2> QED
    BY <1>2, <2>2, OneFits
<1>9. Fits(Sources, P \cup {Do("requirements", Root)}
                        \cup (N \cup ({Do("rethrow", Root)} \cup (L \cup E))))
  <2> DEFINE Q == P \cup {Do("requirements", Root)}
                        \cup (N \cup ({Do("rethrow", Root)} \cup (L \cup E)))
  <2>1. Remains(Root, Q)
    BY PrioritiesAre DEF Remains, Staged
  <2> HIDE DEF P, N, L, E
  <2>2. \A c \in Q : Later(c)
    BY <1>1, <1>2, <1>7 DEF Later
  <2> HIDE DEF Q
  <2>3. Behind(Do("sources", Root), Q)
    BY <1>2, <2>1, <2>2 DEF Behind, Final, SourceKinds
  <2>4. Fits(Sources, Q)
    BY <1>2, <2>3, OneFits DEF Sources
  <2> QED
    BY ONLY <2>4 DEF Q
<1> HIDE DEF s, n, x, l, E, N, L, P
<1>10. s \o n \in Seq(Calls) /\ ToSet(s \o n) = ToSet(s) \cup N
  BY ONLY <1>1, <1>5, CallsJoined
<1>11. (s \o n) \o x \in Seq(Calls) /\ ToSet((s \o n) \o x) = ToSet(s) \cup N \cup ToSet(x)
  BY ONLY <1>3, <1>10, CallsJoined
<1>12. /\ ((s \o n) \o x) \o l \in Seq(Calls)
       /\ ToSet(((s \o n) \o x) \o l) = ToSet(s) \cup N \cup ToSet(x) \cup L
  BY ONLY <1>1, <1>11, CallsJoined
<1>13. /\ (((s \o n) \o x) \o l) \o Ending \in Seq(Calls)
       /\ ToSet((((s \o n) \o x) \o l) \o Ending) = ToSet(s) \cup N \cup ToSet(x) \cup L \cup E
  BY ONLY <1>12, EndingFits, CallsJoined DEF E
<1>14. ToSet(Process) = ProcessCalls
  <2>1. ToSet(Process) =
            (Staged(Root, "First", TRUE) \cup P \cup N \cup L)
            \cup {Do("requirements", Root), Do("sources", Root), Do("rethrow", Root)} \cup E
    BY <1>3, <1>4, <1>5, <1>6, <1>13 DEF CheckedCalls, P
  <2>2. Staged(Root, "First", TRUE) \cup P \cup N \cup L = AllRounds(Root) \cup AllHelp(Root)
    BY <1>0, StagesAre DEF P, N, L
  <2>3. E = {Do("extras", Root), Run(Root, FALSE), Do("return", Root)}
    BY EndingFits DEF E
  <2> QED
    BY <2>1, <2>2, <2>3 DEF ProcessCalls
<1>15. Fits(Process, {})
  <2>0. ToSet(Ending) \cup {} = E
    BY DEF E
  <2>1. Fits(l, E) /\ Fits(n, ToSet(x) \cup (L \cup E))
    BY <1>1
  <2>2. Fits(s, N \cup (ToSet(x) \cup (L \cup E)))
    BY <1>3, <1>5, <1>9
  <2>3. Fits(s \o n, ToSet(x) \cup (L \cup E))
    BY ONLY <1>1, <1>5, <2>1, <2>2, JoinedFit
  <2>4. Fits((s \o n) \o x, L \cup E)
    BY ONLY <1>3, <1>8, <1>10, <2>3, JoinedFit
  <2>5. Fits(((s \o n) \o x) \o l, E)
    BY ONLY <1>1, <1>11, <2>1, <2>4, JoinedFit
  <2>6. Fits(((s \o n) \o x) \o l, ToSet(Ending) \cup {})
    BY ONLY <2>0, <2>5
  <2>7. Fits((((s \o n) \o x) \o l) \o Ending, {})
    BY ONLY <1>12, <2>6, EndingFits, JoinedFit
  <2> QED
    BY ONLY <1>6, <2>7
<1> QED
  BY <1>6, <1>13, <1>14, <1>15

\* The calls a file stands for.
LEMMA ItemsAre ==
    \A f \in Files :
        /\ [i \in DOMAIN f |-> CallOf(f[i])] \in Seq(Calls)
        /\ \A c \in ToSet([i \in DOMAIN f |-> CallOf(f[i])]) : c.do \in {"open", "close", "set"}
        /\ \A R : Remains(Root, R) /\ (\A d \in R : Later(d)) =>
                    Fits([i \in DOMAIN f |-> CallOf(f[i])], R)
<1> SUFFICES ASSUME NEW f \in Files
             PROVE  /\ [i \in DOMAIN f |-> CallOf(f[i])] \in Seq(Calls)
                    /\ \A c \in ToSet([i \in DOMAIN f |-> CallOf(f[i])]) :
                            c.do \in {"open", "close", "set"}
                    /\ \A R : Remains(Root, R) /\ (\A d \in R : Later(d)) =>
                                Fits([i \in DOMAIN f |-> CallOf(f[i])], R)
  OBVIOUS
<1>1. f \in Seq(Items)
  BY RuleTypes
<1>2. ASSUME NEW item \in Items
      PROVE  CallOf(item) \in Calls /\ CallOf(item).do \in {"open", "close", "set"}
  <2>1. \/ \E a \in Names : item = [open |-> a]
        \/ \E a \in Names : item = [close |-> a]
        \/ \E o \in Options : item = [set |-> o]
    BY DEF Items
  <2>2. CASE \E a \in Names : item = [open |-> a]
    <3>1. PICK a \in Names : item = [open |-> a]
      BY <2>2
    <3>2. DOMAIN item = {"open"} /\ item.open = a
      BY <3>1
    <3>3. CallOf(item) = Do("open", a)
      BY <3>2 DEF CallOf
    <3> QED
      BY <3>3, CallsMade, CallsAre
  <2>3. CASE \E a \in Names : item = [close |-> a]
    <3>1. PICK a \in Names : item = [close |-> a]
      BY <2>3
    <3>2. DOMAIN item = {"close"} /\ item.close = a
      BY <3>1
    <3>3. CallOf(item) = Do("close", a)
      BY <3>2 DEF CallOf
    <3> QED
      BY <3>3, CallsMade, CallsAre
  <2>4. CASE \E o \in Options : item = [set |-> o]
    <3>1. PICK o \in Options : item = [set |-> o]
      BY <2>4
    <3>2. DOMAIN item = {"set"} /\ item.set = o
      BY <3>1
    <3>3. CallOf(item) = Do("set", o)
      BY <3>2 DEF CallOf
    <3> QED
      BY <3>3, CallsMade, CallsAre
  <2> QED
    BY <2>1, <2>2, <2>3, <2>4
<1> DEFINE q == [i \in DOMAIN f |-> CallOf(f[i])]
<1>3. DOMAIN f = 1..Len(f) /\ Len(f) \in Nat /\ \A i \in DOMAIN f : f[i] \in Items
  BY <1>1
<1>4. /\ q \in Seq(Calls) /\ DOMAIN q = DOMAIN f
      /\ \A i \in DOMAIN q : q[i] \in Calls /\ q[i].do \in {"open", "close", "set"}
  <2>1. \A i \in 1..Len(f) : q[i] \in Calls /\ q[i].do \in {"open", "close", "set"}
    BY <1>2, <1>3
  <2> QED
    BY <1>3, <2>1
<1> HIDE DEF q
<1>5. \A c \in ToSet(q) : c \in Calls /\ c.do \in {"open", "close", "set"}
  BY <1>4 DEF ToSet
<1>6. ASSUME NEW R, Remains(Root, R), \A d \in R : Later(d), NEW i \in DOMAIN q
      PROVE  Behind(q[i], Rest(q, i) \cup R)
  <2>1. Rest(q, i) \subseteq ToSet(q)
    BY DEF Rest, ToSet
  <2>2. \A d \in Rest(q, i) \cup R : Later(d)
    BY <1>5, <1>6, <2>1 DEF Later, SourceKinds
  <2>3. Remains(Root, Rest(q, i) \cup R)
    BY <1>6 DEF Remains
  <2>4. q[i].do \in {"open", "close", "set"}
    BY <1>4
  <2>5. PICK Q : Q = Rest(q, i) \cup R
    OBVIOUS
  <2>6. Remains(Root, Q) /\ \A d \in Q : Later(d)
    BY ONLY <2>2, <2>3, <2>5
  <2>7. Behind(q[i], Q)
    BY <2>4, <2>6 DEF Behind, Final
  <2> QED
    BY ONLY <2>5, <2>7
<1>7. \A R : Remains(Root, R) /\ (\A d \in R : Later(d)) => Fits(q, R)
  BY <1>6 DEF Fits
<1> QED
  BY <1>4, <1>5, <1>7 DEF q

-----------------------------------------------------------------------------
(* The order of calls, in every state.                                     *)

\* Whom a call may concern.
Stands(c) ==
    /\ c.do = "deliver" => c.on \in given
    /\ c.do = "environment" => Ends(c.on)
    /\ c.do = "run" /\ c.on # Root => c = Run(c.on, TRUE) \/ EndsEarly(c.on)
    /\ line = <<>> => c.do # "leave" /\ (c.do = "environment" => c.on = Root)
    /\ line # <<>> =>
        /\ c.do \notin SourceKinds \cup {"rethrow", "extras", "return"}
        /\ c.do = "environment" => c.on = Top
        /\ c.do \in {"run", "completed"} /\ Ends(c.on) => c.on = Top /\ c.on # Root
        /\ c.do = "final" => Early(c.on)

\* The line begins at the root and goes from Apps to their subcommands.
Rooted(l) ==
    \A i \in DOMAIN l :
        \/ i = 1 /\ l[i] = Root
        \/ i > 1 /\ l[i] \in Names /\ \E j \in 1..(i - 1) : l[j] = FallthroughParent(l[i])

InOrder ==
    /\ TypeOK
    /\ Fits(agenda, {})
    /\ \A c \in ToSet(agenda) : Stands(c)
    /\ Rooted(line)
    /\ status # "parsing" => agenda = <<>>

LEMMA Emptied == \A s \in Seq(Calls) : ToSet(s) = {} => s = <<>>
<1> SUFFICES ASSUME NEW s \in Seq(Calls), ToSet(s) = {} PROVE s = <<>>
  OBVIOUS
<1>1. DOMAIN s = 1..Len(s) /\ Len(s) \in Nat
  OBVIOUS
<1>2. 1 \notin DOMAIN s
  BY DEF ToSet
<1> QED
  BY <1>1, <1>2

LEMMA LineIs ==
    \A l \in Seq(Apps) : l # <<>> /\ Rooted(l) =>
        /\ Last(l) \in Apps /\ Last(l) \in ToSet(l)
        /\ Last(l) # Root => Last(l) \in Names
        /\ Last(l) = Root => ToSet(l) = {Root}
        /\ Front(l) \in Seq(Apps) /\ Rooted(Front(l))
        /\ ToSet(l) = ToSet(Front(l)) \cup {Last(l)}
        /\ \A s \in Names : FallthroughParent(s) = Last(l) =>
                Append(l, s) \in Seq(Apps) /\ Rooted(Append(l, s))
<1> SUFFICES ASSUME NEW l \in Seq(Apps), l # <<>>, Rooted(l)
             PROVE  /\ Last(l) \in Apps /\ Last(l) \in ToSet(l)
                    /\ Last(l) # Root => Last(l) \in Names
                    /\ Last(l) = Root => ToSet(l) = {Root}
                    /\ Front(l) \in Seq(Apps) /\ Rooted(Front(l))
                    /\ ToSet(l) = ToSet(Front(l)) \cup {Last(l)}
                    /\ \A s \in Names : FallthroughParent(s) = Last(l) =>
                            Append(l, s) \in Seq(Apps) /\ Rooted(Append(l, s))
  OBVIOUS
<1>1. /\ DOMAIN l = 1..Len(l) /\ Len(l) \in Nat /\ Len(l) > 0
      /\ \A i \in 1..Len(l) : l[i] \in Apps
  OBVIOUS
<1>2. /\ Front(l) \in Seq(Apps) /\ Len(Front(l)) = Len(l) - 1
      /\ \A i \in 1..(Len(l) - 1) : Front(l)[i] = l[i]
  BY <1>1 DEF Front
<1>3. Last(l) = l[Len(l)]
  BY DEF Last
<1>4. DOMAIN Front(l) = 1..(Len(l) - 1)
  BY <1>1, <1>2
<1>5. Root \notin Names
  BY DEF Names
<1>6. Last(l) \in Apps /\ Last(l) \in ToSet(l) /\ (Last(l) # Root => Last(l) \in Names)
  <2>1. Len(l) \in DOMAIN l
    BY <1>1
  <2> QED
    BY <1>1, <1>3, <2>1 DEF Rooted, ToSet
<1>7. ToSet(l) = ToSet(Front(l)) \cup {Last(l)}
  <2>1. \A i \in DOMAIN l : i \in DOMAIN Front(l) \/ i = Len(l)
    BY <1>1, <1>4
  <2>2. \A i \in DOMAIN Front(l) : i \in DOMAIN l /\ Front(l)[i] = l[i]
    BY <1>1, <1>2, <1>4
  <2> QED
    BY <1>3, <1>6, <2>1, <2>2 DEF ToSet
<1>8. ASSUME Last(l) = Root PROVE ToSet(l) = {Root}
  <2>1. Len(l) \in DOMAIN l /\ l[Len(l)] = Root
    BY <1>1, <1>3, <1>8
  <2>2. Len(l) = 1
    BY <1>5, <2>1 DEF Rooted
  <2>3. DOMAIN l = {1}
    BY <1>1, <2>2
  <2> QED
    BY <2>1, <2>2, <2>3 DEF ToSet
<1>9. Rooted(Front(l))
  <2> SUFFICES ASSUME NEW i \in 1..(Len(l) - 1)
               PROVE  \/ i = 1 /\ Front(l)[i] = Root
                      \/ /\ i > 1 /\ Front(l)[i] \in Names
                         /\ \E j \in 1..(i - 1) : Front(l)[j] = FallthroughParent(Front(l)[i])
    BY <1>4 DEF Rooted
  <2>1. i \in DOMAIN l /\ Front(l)[i] = l[i] /\ \A j \in 1..(i - 1) : Front(l)[j] = l[j]
    BY <1>1, <1>2
  <2> QED
    BY <2>1 DEF Rooted
<1>10. ASSUME NEW s \in Names, FallthroughParent(s) = Last(l)
       PROVE  Append(l, s) \in Seq(Apps) /\ Rooted(Append(l, s))
  <2> DEFINE m == Append(l, s)
  <2>1. s \in Apps
    BY DEF Names
  <2>2. /\ m \in Seq(Apps) /\ DOMAIN m = 1..(Len(l) + 1)
        /\ m[Len(l) + 1] = s /\ \A i \in 1..Len(l) : m[i] = l[i]
    BY <2>1
  <2> HIDE DEF m
  <2>3. ASSUME NEW i \in 1..(Len(l) + 1)
        PROVE  \/ i = 1 /\ m[i] = Root
               \/ i > 1 /\ m[i] \in Names /\ \E j \in 1..(i - 1) : m[j] = FallthroughParent(m[i])
    <3>1. CASE i \in 1..Len(l)
      <4>1. i \in DOMAIN l /\ m[i] = l[i] /\ \A j \in 1..(i - 1) : m[j] = l[j]
        BY <1>1, <2>2, <3>1
      <4> QED
        BY <4>1 DEF Rooted
    <3>2. CASE i = Len(l) + 1
      <4>1. Len(l) \in 1..(i - 1) /\ m[Len(l)] = FallthroughParent(s) /\ m[i] = s /\ i > 1
        BY <1>1, <1>3, <1>10, <2>2, <3>2
      <4> QED
        BY <4>1
    <3> QED
      BY <1>1, <3>1, <3>2
  <2>4. Rooted(m)
    BY <2>2, <2>3 DEF Rooted
  <2> QED
    BY <2>2, <2>4 DEF m
<1> QED
  BY <1>2, <1>6, <1>7, <1>8, <1>9, <1>10

\* What can be found from an App is below it.
LEMMA FoundBelow == \A a \in Apps : \A s \in Reach(a) : ~IsGroup(a) => FallthroughParent(s) = a
<1> SUFFICES ASSUME NEW a \in Apps, NEW s \in Reach(a), ~IsGroup(a)
             PROVE  FallthroughParent(s) = a
  OBVIOUS
<1>1. s \in Names /\ Parent(s) \in Level(a)
  BY DEF Reach
<1>2. CASE Parent(s) = a
  <2>1. ~(Parent(s) # NoApp /\ IsGroup(Parent(s)))
    BY <1>2
  <2> QED
    BY <1>2, <2>1 DEF FallthroughParent
<1>3. CASE Parent(s) # a
  <2>1. PICK i \in Groups(a) : Parent(s) = AppOf[a].subs[i]
    BY <1>1, <1>3 DEF Level
  <2>2. IsGroup(Parent(s)) /\ Parent(s) \in Subs(a)
    BY <2>1 DEF Groups, Subs, ToSet
  <2>3. Parent(s) \in Apps /\ Parent(Parent(s)) = a /\ Parent(s) # NoApp
    BY <2>2, Parents, TreeTypes
  <2> QED
    BY <2>2, <2>3 DEF FallthroughParent
<1> QED
  BY <1>2, <1>3

\* Taking the first call off.
LEMMA Taken ==
    ASSUME InOrder, agenda # <<>>
    PROVE  /\ Head(agenda) \in Calls /\ Stands(Head(agenda))
           /\ Tail(agenda) \in Seq(Calls) /\ Fits(Tail(agenda), {})
           /\ ToSet(agenda) = {Head(agenda)} \cup ToSet(Tail(agenda))
           /\ Behind(Head(agenda), ToSet(Tail(agenda)))
           /\ \A c \in ToSet(Tail(agenda)) : c \in Calls /\ Stands(c)
<1>1. agenda \in Seq(Calls) /\ Fits(agenda, {}) /\ \A c \in ToSet(agenda) : Stands(c)
  BY DEF InOrder, TypeOK
<1>2. /\ Head(agenda) \in Calls /\ Tail(agenda) \in Seq(Calls)
      /\ ToSet(agenda) = {Head(agenda)} \cup ToSet(Tail(agenda))
      /\ Behind(Head(agenda), ToSet(Tail(agenda))) /\ Fits(Tail(agenda), {})
  BY <1>1, AgendaTaken
<1>3. \A s \in Seq(Calls) : \A c \in ToSet(s) : c \in Calls
  BY DEF ToSet
<1> QED
  BY <1>1, <1>2, <1>3

LEMMA StandsOn ==
    line' = line => \A c : Stands(c) /\ (c.do = "deliver" => c.on \in given') => Stands(c)'
  BY DEF Stands, Top

\* Whatever leaves the line and what is given alone and only takes the first
\* call off, or all of them, keeps the order.
LEMMA StepTaken ==
    ASSUME InOrder, agenda # <<>>, TypeOK', line' = line, given' = given,
           \/ agenda' = Tail(agenda) /\ (status' = "parsing" \/ Tail(agenda) = <<>>)
           \/ agenda' = <<>>
    PROVE  InOrder'
<1>1. /\ Fits(Tail(agenda), {}) /\ \A c \in ToSet(Tail(agenda)) : Stands(c)
      /\ ToSet(agenda) = {Head(agenda)} \cup ToSet(Tail(agenda))
      /\ \A c \in ToSet(agenda) : Stands(c)
  BY Taken DEF InOrder
<1>2. \A c \in ToSet(agenda) : c.do = "deliver" => c.on \in given'
  BY <1>1 DEF Stands
<1>3. \A c \in ToSet(agenda) : Stands(c)'
  BY <1>1, <1>2, StandsOn
<1>4. Fits(<<>>, {}) /\ ToSet(<<>>) = {}
  BY DEF Fits, ToSet
<1>5. Fits(agenda', {}) /\ \A c \in ToSet(agenda') : Stands(c)'
  <2>1. CASE agenda' = Tail(agenda)
    BY <1>1, <1>3, <2>1
  <2>2. CASE agenda' = <<>>
    BY <1>4, <2>2
  <2> QED
    BY <2>1, <2>2
<1>6. Rooted(line')
  BY DEF InOrder
<1>7. status' # "parsing" => agenda' = <<>>
  OBVIOUS
<1> QED
  BY ONLY TypeOK', <1>5, <1>6, <1>7 DEF InOrder

\* Whatever puts calls in front that fit.
LEMMA StepGrown ==
    ASSUME InOrder, agenda # <<>>, TypeOK', line' = line, status' = "parsing",
           \A c \in ToSet(Tail(agenda)) : c.do = "deliver" => c.on \in given',
           NEW push \in Seq(Calls), agenda' = push \o Tail(agenda),
           Fits(push, ToSet(Tail(agenda))), \A c \in ToSet(push) : Stands(c)'
    PROVE  InOrder'
<1>1. /\ Tail(agenda) \in Seq(Calls) /\ Fits(Tail(agenda), {})
      /\ \A c \in ToSet(Tail(agenda)) : Stands(c)
  BY Taken
<1>2. \A c \in ToSet(Tail(agenda)) : Stands(c)'
  BY <1>1, StandsOn
<1>3. /\ ToSet(push \o Tail(agenda)) = ToSet(push) \cup ToSet(Tail(agenda))
      /\ Fits(push \o Tail(agenda), {})
  BY <1>1, AgendaGrown
<1>4. Fits(agenda', {}) /\ \A c \in ToSet(agenda') : Stands(c)'
  BY <1>2, <1>3
<1>5. Rooted(line')
  BY DEF InOrder
<1> QED
  BY ONLY TypeOK', <1>4, <1>5, status' = "parsing" DEF InOrder

\* What a subcommand that begins leaves of what was given.
LEMMA Beginning ==
    ASSUME TypeOK, NEW a \in Names, NEW lists \in [Apps -> Seq(Names)], Begins(a, lists)
    PROVE  /\ parsed' \in [Apps -> Nat] /\ listed' \in [Apps -> Seq(Names)]
           /\ given' \subseteq given /\ delivered' \subseteq given'
           /\ given' \ delivered' \subseteq given \ delivered
<1> DEFINE S == IF AppOf[a].immediate /\ parsed[a] > 0 THEN Subtree[a] ELSE {}
<1>1. /\ given' = given \ OptionsOf(S) /\ delivered' = delivered \ OptionsOf(S)
      /\ parsed' = [x \in Apps |->
                IF x = a THEN parsed[x] + 1
                ELSE IF x \in S THEN 0
                ELSE IF x \in Counted[a] THEN parsed[x] + 1 ELSE parsed[x]]
      /\ listed' = [x \in Apps |-> IF x \in S THEN <<>> ELSE lists[x]]
  BY DEF Begins
<1> HIDE DEF S
<1>2. parsed \in [Apps -> Nat] /\ delivered \subseteq given
  BY DEF TypeOK
<1>3. parsed' \in [Apps -> Nat]
  BY <1>1, <1>2
<1>4. listed' \in [Apps -> Seq(Names)]
  <2>1. <<>> \in Seq(Names) /\ \A x \in Apps : lists[x] \in Seq(Names)
    OBVIOUS
  <2> QED
    BY <1>1, <2>1
<1> QED
  BY <1>1, <1>2, <1>3, <1>4

\* The final callbacks of one App, put in front of others.
LEMMA FinalsFit ==
    \A s \in Seq(Calls) : \A R :
        /\ \A c \in ToSet(s) : c.do = "final"
        /\ \/ \A c \in ToSet(s) : Early(c.on)
           \/ \A d \in R : d.do \in {"final", "return"}
        => Fits(s, R)
<1> SUFFICES ASSUME NEW s \in Seq(Calls), NEW R, \A c \in ToSet(s) : c.do = "final",
                    \/ \A c \in ToSet(s) : Early(c.on)
                    \/ \A d \in R : d.do \in {"final", "return"}
             PROVE  Fits(s, R)
  OBVIOUS
<1>1. CASE \A c \in ToSet(s) : Early(c.on)
  <2>1. \A c \in ToSet(s) : Loose(c)
    BY <1>1 DEF Loose
  <2> QED
    BY <2>1, AllLooseFit
<1>2. CASE \A d \in R : d.do \in {"final", "return"}
  <2> SUFFICES ASSUME NEW i \in DOMAIN s PROVE Behind(s[i], Rest(s, i) \cup R)
    BY DEF Fits
  <2>1. s[i].do = "final" /\ \A c \in Rest(s, i) : c.do = "final"
    BY DEF Rest, ToSet
  <2>2. PICK Q : Q = Rest(s, i) \cup R
    OBVIOUS
  <2>3. \A d \in Q : d.do \in {"final", "return"}
    BY <1>2, <2>1, <2>2
  <2>4. Behind(s[i], Q)
    BY <2>1, <2>3 DEF Behind, SourceKinds
  <2> QED
    BY <2>2, <2>4
<1> QED
  BY <1>1, <1>2

\* Handlers that take one call off or throw.
Simple ==
    \/ Deliver \/ LookForHelp \/ FileUnreadable \/ CheckRequirements \/ Rethrow
    \/ CheckExtras \/ Completed \/ FinalCallback \/ ParseReturns

LEMMA SimpleIs ==
    ASSUME InOrder, Simple
    PROVE  /\ agenda # <<>> /\ status = "parsing"
           /\ UNCHANGED <<line, given, parsed, listed>>
           /\ \/ agenda' = Tail(agenda) /\ (status' = "parsing" \/ Tail(agenda) = <<>>)
              \/ agenda' = <<>> /\ status' # "parsing"
           /\ status' \in {"parsing", "done"} \cup Errors
<1>1. CASE ParseReturns
  <2>1. agenda # <<>> /\ Head(agenda).do = "return" /\ status' = "done"
    BY <1>1 DEF ParseReturns, Next_
  <2>2. Tail(agenda) = <<>>
    BY <2>1, Taken, Emptied DEF Behind
  <2> QED
    BY <1>1, <2>1, <2>2 DEF ParseReturns, Next_, Return
<1>2. CASE Deliver
  BY <1>2 DEF Deliver, Next_, Return, Throw, Errors
<1>3. CASE LookForHelp
  BY <1>3 DEF LookForHelp, Next_, Return, Throw, Errors
<1>4. CASE FileUnreadable
  BY <1>4 DEF FileUnreadable, Next_, Return
<1>5. CASE CheckRequirements
  BY <1>5 DEF CheckRequirements, Next_, Return, Throw, Errors
<1>6. CASE Rethrow
  BY <1>6 DEF Rethrow, Next_, Return, Throw, Errors
<1>7. CASE CheckExtras
  BY <1>7 DEF CheckExtras, Next_, Return
<1>8. CASE Completed
  BY <1>8 DEF Completed, Next_, Return, Throw, Errors
<1>9. CASE FinalCallback
  BY <1>9 DEF FinalCallback, Next_, Return, Throw, Errors
<1> QED
  BY <1>1, <1>2, <1>3, <1>4, <1>5, <1>6, <1>7, <1>8, <1>9 DEF Simple

LEMMA SimpleInOrder == InOrder /\ Simple => InOrder'
<1> SUFFICES ASSUME InOrder, Simple PROVE InOrder'
  OBVIOUS
<1>1. TypeOK
  BY DEF InOrder
<1>2. /\ agenda # <<>> /\ status = "parsing"
      /\ UNCHANGED <<line, given, parsed, listed>>
      /\ \/ agenda' = Tail(agenda) /\ (status' = "parsing" \/ Tail(agenda) = <<>>)
         \/ agenda' = <<>>
      /\ status' \in {"parsing", "done"} \cup Errors
  BY SimpleIs
<1>3. agenda' \in Seq(Calls)
  <2>1. Tail(agenda) \in Seq(Calls) /\ <<>> \in Seq(Calls)
    BY <1>2, Taken, NoCall
  <2> QED
    BY <1>2, <2>1
<1>4. delivered' \subseteq given
  <2>1. CASE Deliver
    <3>1. Head(agenda).do = "deliver" => Head(agenda).on \in given
      BY <1>2, Taken DEF Stands
    <3> QED
      BY <1>1, <2>1, <3>1 DEF TypeOK, Deliver, Next_, On
  <2>2. CASE ~Deliver
    BY <1>1, <2>2 DEF TypeOK, Simple, LookForHelp, FileUnreadable, CheckRequirements, Rethrow,
                      CheckExtras, Completed, FinalCallback, ParseReturns
  <2> QED
    BY <2>1, <2>2
<1>5. finals' \in [Apps -> 0..2]
  <2>1. CASE FinalCallback
    <3>1. finals \in [Apps -> 0..2]
      BY <1>1 DEF TypeOK
    <3>2. \/ finals' = finals
          \/ finals' = [finals EXCEPT ![On] = IF @ = 2 THEN 2 ELSE @ + 1]
      BY <2>1 DEF FinalCallback
    <3>3. \A x \in Apps : finals[x] = 2 \/ finals[x] + 1 \in 0..2
      BY <3>1
    <3> QED
      BY <3>1, <3>2, <3>3
  <2>2. CASE ~FinalCallback
    BY <1>1, <2>2 DEF TypeOK, Simple, LookForHelp, FileUnreadable, CheckRequirements, Rethrow,
                      CheckExtras, Completed, Deliver, ParseReturns
  <2> QED
    BY <2>1, <2>2
<1>6. broken' \in BOOLEAN
  BY <1>1 DEF TypeOK, Simple, LookForHelp, FileUnreadable, CheckRequirements, Rethrow,
              CheckExtras, Completed, FinalCallback, Deliver, ParseReturns
<1>7. TypeOK'
  BY <1>1, <1>2, <1>3, <1>4, <1>5, <1>6 DEF TypeOK
<1> QED
  BY <1>2, <1>7, StepTaken

LEMMA FirstInOrder == Init => InOrder
<1> SUFFICES ASSUME Init PROVE InOrder
  OBVIOUS
<1>1. Root \in Apps /\ <<Root>> \in Seq(Apps)
  BY TreeTypes
<1>2. /\ line = <<Root>> /\ agenda = <<>> /\ status = "parsing"
      /\ parsed = [a \in Apps |-> IF a \in Counted[Root] THEN 1 ELSE 0]
      /\ listed = [a \in Apps |-> <<>>] /\ given = {} /\ delivered = {}
      /\ finals = [a \in Apps |-> 0] /\ broken = FALSE
  BY DEF Init
<1>3. TypeOK
  <2>1. agenda \in Seq(Calls)
    BY <1>2, NoCall
  <2>2. listed \in [Apps -> Seq(Names)]
    BY <1>2
  <2>3. parsed \in [Apps -> Nat] /\ finals \in [Apps -> 0..2]
    BY <1>2
  <2> QED
    BY <1>1, <1>2, <2>1, <2>2, <2>3 DEF TypeOK
<1>4. Rooted(<<Root>>)
  BY DEF Rooted
<1>5. Fits(<<>>, {}) /\ ToSet(<<>>) = {}
  BY DEF Fits, ToSet
<1> QED
  BY <1>2, <1>3, <1>4, <1>5 DEF InOrder

\* The command line.
LEMMA GiveOptionInOrder == ASSUME InOrder, NEW o \in Options, GiveOption(o) PROVE InOrder'
<1>1. /\ TypeOK /\ Rooted(line)
      /\ status = "parsing" /\ agenda = <<>> /\ line # <<>>
      /\ given' = given \cup {o} /\ delivered' = delivered \ {o}
      /\ UNCHANGED <<line, agenda, status, parsed, listed, finals, broken>>
  BY DEF InOrder, GiveOption, Reading, Gives
<1>2. TypeOK'
  BY <1>1 DEF TypeOK
<1>3. Fits(agenda', {}) /\ ToSet(agenda') = {}
  BY <1>1 DEF Fits, ToSet
<1> QED
  BY ONLY <1>1, <1>2, <1>3 DEF InOrder

LEMMA BeginSubcommandInOrder ==
    ASSUME InOrder, NEW s \in Names, BeginSubcommand(s) PROVE InOrder'
<1> DEFINE lists == IF parsed[s] > 0 \/ AppOf[s].silent THEN listed
                    ELSE [listed EXCEPT ![Top] = Append(@, s)]
<1>1. /\ TypeOK /\ Rooted(line)
      /\ status = "parsing" /\ agenda = <<>> /\ line # <<>>
      /\ s \in Reach(Top) /\ Begins(s, lists) /\ line' = Append(line, s)
      /\ UNCHANGED <<agenda, status, finals, broken>>
  BY DEF InOrder, BeginSubcommand, Reading
<1>2. lists \in [Apps -> Seq(Names)]
  <2>1. listed \in [Apps -> Seq(Names)]
    BY <1>1 DEF TypeOK
  <2>2. \A x \in Apps : Append(listed[x], s) \in Seq(Names)
    BY <2>1
  <2>3. [listed EXCEPT ![Top] = Append(@, s)] \in [Apps -> Seq(Names)]
    BY <2>1, <2>2
  <2> QED
    BY <2>1, <2>3
<1> HIDE DEF lists
<1>3. /\ parsed' \in [Apps -> Nat] /\ listed' \in [Apps -> Seq(Names)]
      /\ given' \subseteq given /\ delivered' \subseteq given'
  BY <1>1, <1>2, Beginning
<1>4. line \in Seq(Apps)
  BY <1>1 DEF TypeOK
<1>5. Top \in Apps /\ (Top # Root => Top \in Names)
  BY <1>1, <1>4, LineIs DEF Top
<1>6. ~IsGroup(Top)
  BY <1>5, Parents DEF Names, IsGroup
<1>7. FallthroughParent(s) = Last(line)
  BY <1>1, <1>5, <1>6, FoundBelow DEF Top
<1>8. line' \in Seq(Apps) /\ Rooted(line')
  BY <1>1, <1>4, <1>7, LineIs
<1>9. TypeOK'
  BY <1>1, <1>3, <1>8 DEF TypeOK
<1>10. Fits(agenda', {}) /\ ToSet(agenda') = {}
  BY <1>1 DEF Fits, ToSet
<1> QED
  BY ONLY <1>1, <1>8, <1>9, <1>10 DEF InOrder

LEMMA EndSubcommandInOrder == InOrder /\ EndSubcommand => InOrder'
<1> SUFFICES ASSUME InOrder, EndSubcommand PROVE InOrder'
  OBVIOUS
<1> DEFINE u == IF AppOf[Top].completes THEN Completion(Top, TRUE) ELSE <<>>
           v == <<Do("leave", Top)>>
<1>1. /\ TypeOK /\ Rooted(line) /\ status = "parsing" /\ line # <<>> /\ Top # Root
      /\ agenda' = u \o v
      /\ UNCHANGED <<line, status, parsed, listed, given, delivered, finals, broken>>
  BY DEF InOrder, EndSubcommand, Reading
<1>2. Top \in Names /\ Top \in Apps
  BY <1>1, LineIs DEF TypeOK, Top
<1>3. PICK a : a = Top
  OBVIOUS
<1>4. Do("leave", a) \in Calls /\ Do("leave", a).do = "leave"
  BY <1>2, <1>3, CallsMade, CallsAre
<1>5. v \in Seq(Calls) /\ ToSet(v) = {Do("leave", a)} /\ Fits(v, {})
  <2>1. Behind(Do("leave", a), {})
    BY <1>4 DEF Behind, SourceKinds, Final
  <2> QED
    BY <1>3, <1>4, <2>1, OneCall, OneFits
<1>6. u \in Seq(Calls) /\ Fits(u, ToSet(v))
      /\ \A c \in ToSet(u) : AppOf[a].completes /\ c \in CompletionCalls(a, TRUE)
  <2>1. CASE AppOf[a].completes
    <3>1. Behind(Run(a, TRUE), {Do("leave", a)})
      <4>1. Run(a, TRUE).do = "run" /\ Run(a, TRUE).on = a
        BY RunIs
      <4>2. a # Root
        BY <1>1, <1>3
      <4> QED
        BY <1>4, <4>1, <4>2 DEF Behind, SourceKinds, Final
    <3>2. u = Completion(a, TRUE)
      BY <1>3, <2>1
    <3> HIDE DEF u, v
    <3>3. Fits(Completion(a, TRUE), ToSet(v))
      BY <1>1, <1>2, <1>3, <1>5, <3>1, CompletionIs
    <3> QED
      BY <1>2, <1>3, <2>1, <3>2, <3>3, CompletionIs
  <2>2. CASE ~AppOf[a].completes
    <3>1. u = <<>>
      BY <1>3, <2>2
    <3> HIDE DEF u
    <3> QED
      BY <3>1, NoCall, AllLooseFit
  <2> QED
    BY <2>1, <2>2
<1> HIDE DEF u, v
<1>7. /\ u \o v \in Seq(Calls) /\ ToSet(u \o v) = ToSet(u) \cup ToSet(v) /\ Fits(u \o v, {})
  BY <1>5, <1>6, AgendaGrown
<1>8. ASSUME NEW c \in ToSet(u \o v) PROVE Stands(c)'
  <2>1. line' = line /\ Top' = Top /\ Top = a
    BY <1>1, <1>3 DEF Top
  <2>2. CASE c = Do("leave", a)
    BY <1>1, <1>4, <2>2 DEF Stands, SourceKinds
  <2>3. CASE AppOf[a].completes /\ c \in CompletionCalls(a, TRUE)
    <3>1. Ends(a)
      BY <1>2, <1>3, <2>3 DEF Ends, Completes, Names, IsGroup
    <3>2. CASE c = Run(a, TRUE)
      <4>1. c.do = "run" /\ c.on = a
        BY <3>2, CallsAre
      <4> QED
        BY <1>1, <1>3, <2>1, <3>2, <4>1 DEF Stands, SourceKinds
    <3>3. CASE c = Do("environment", a)
      <4>1. c.do = "environment" /\ c.on = a
        BY <3>3, CallsAre
      <4> QED
        BY <1>1, <2>1, <3>1, <4>1 DEF Stands, SourceKinds
    <3>4. CASE c # Run(a, TRUE) /\ c # Do("environment", a)
      <4>1. c.do \in {"callbacks", "help", "requirements"}
        <5>1. c \in AllRounds(a) \cup AllHelp(a) \/ c = Do("requirements", a)
          BY <2>3, <3>4 DEF CompletionCalls
        <5> QED
          BY <5>1, CallsAre DEF AllRounds, AllHelp
      <4> QED
        BY <1>1, <4>1 DEF Stands, SourceKinds
    <3> QED
      BY <3>2, <3>3, <3>4
  <2> QED
    BY <1>5, <1>6, <1>7, <2>2, <2>3
<1>9. TypeOK'
  BY <1>1, <1>7 DEF TypeOK
<1> QED
  BY ONLY <1>1, <1>7, <1>8, <1>9 DEF InOrder

LEMMA EndLineInOrder == InOrder /\ EndLine => InOrder'
<1> SUFFICES ASSUME InOrder, EndLine PROVE InOrder'
  OBVIOUS
<1>1. /\ TypeOK /\ status = "parsing" /\ agenda' = Process /\ line' = <<>>
      /\ UNCHANGED <<status, parsed, listed, given, delivered, finals, broken>>
  BY DEF InOrder, EndLine, Reading
<1>2. Process \in Seq(Calls) /\ ToSet(Process) = ProcessCalls /\ Fits(Process, {})
  BY ProcessIs
<1>3. ASSUME NEW c \in ProcessCalls PROVE Stands(c)'
  <2>1. /\ c.do \in {"callbacks", "help", "sources", "requirements", "rethrow", "extras",
                     "run", "return"}
        /\ c.do = "run" => c.on = Root
    <3>1. CASE c \in AllRounds(Root) \cup AllHelp(Root)
      BY <3>1, CallsAre DEF AllRounds, AllHelp
    <3>2. CASE c = Run(Root, FALSE)
      BY <3>2, RunIs
    <3>3. CASE c \in {Do("sources", Root), Do("requirements", Root), Do("rethrow", Root),
                      Do("extras", Root), Do("return", Root)}
      BY <3>3, CallsAre
    <3> QED
      BY <3>1, <3>2, <3>3 DEF ProcessCalls
  <2> QED
    BY <1>1, <2>1 DEF Stands
<1>4. Rooted(line') /\ line' \in Seq(Apps)
  BY <1>1 DEF Rooted
<1>5. TypeOK'
  BY <1>1, <1>2, <1>4 DEF TypeOK
<1> QED
  BY ONLY <1>1, <1>2, <1>3, <1>4, <1>5 DEF InOrder

LEMMA LeaveInOrder == InOrder /\ Leave => InOrder'
<1> SUFFICES ASSUME InOrder, Leave PROVE InOrder'
  OBVIOUS
<1>1. /\ TypeOK /\ Rooted(line) /\ agenda # <<>> /\ status = "parsing"
      /\ Head(agenda).do = "leave" /\ agenda' = Tail(agenda) /\ line' = Front(line)
      /\ \/ listed' = listed
         \/ listed' = [listed EXCEPT ![Parent(On)] = Append(@, On)]
      /\ UNCHANGED <<status, parsed, given, delivered, finals, broken>>
  BY DEF InOrder, Leave, Next_, Return
<1>2. line # <<>> /\ Tail(agenda) = <<>>
  BY <1>1, Taken, Emptied DEF Stands, Behind
<1>3. line' \in Seq(Apps) /\ Rooted(line')
  BY <1>1, <1>2, LineIs DEF TypeOK
<1>4. listed' \in [Apps -> Seq(Names)]
  <2>1. On \in Names
    BY <1>1, Taken, CallsAre DEF On
  <2>2. listed \in [Apps -> Seq(Names)]
    BY <1>1 DEF TypeOK
  <2>3. \A x \in Apps : Append(listed[x], On) \in Seq(Names)
    BY <2>1, <2>2
  <2> QED
    BY <1>1, <2>2, <2>3
<1>5. agenda' = <<>> /\ Fits(agenda', {}) /\ ToSet(agenda') = {} /\ agenda' \in Seq(Calls)
  <2>1. Fits(<<>>, {})
    BY DEF Fits
  <2> QED
    BY <1>1, <1>2, <2>1, NoCall
<1>6. TypeOK'
  BY <1>1, <1>3, <1>4, <1>5 DEF TypeOK
<1> QED
  BY ONLY <1>1, <1>3, <1>5, <1>6 DEF InOrder

\* The calls of a round may stand anywhere.
LEMMA SmallStands ==
    \A c \in Calls : Small(c) => Loose(c) /\ (c.do = "deliver" \/ Stands(c)')
<1> SUFFICES ASSUME NEW c \in Calls, Small(c), c.do # "deliver" PROVE Loose(c) /\ Stands(c)'
  BY DEF Loose
<1>1. c.do = "run" /\ IsGroup(c.on) /\ AppOf[c.on].completes /\ c.on \in Apps
  BY CallsAre DEF Small
<1>2. ~Ends(c.on) /\ EndsEarly(c.on)
  BY <1>1, Parents DEF Ends, Completes, EndsEarly
<1> QED
  BY <1>1, <1>2 DEF Loose, Stands, SourceKinds

LEMMA RunCallbacksInOrder == InOrder /\ RunCallbacks => InOrder'
<1> SUFFICES ASSUME InOrder, RunCallbacks PROVE InOrder'
  OBVIOUS
<1>1. /\ TypeOK /\ agenda # <<>> /\ status = "parsing" /\ Head(agenda).do = "callbacks"
      /\ agenda' = Callbacks(On, Head(agenda).priority) \o Tail(agenda)
      /\ UNCHANGED <<line, status, parsed, listed, given, delivered, finals, broken>>
  BY DEF InOrder, RunCallbacks, Next_, Becomes
<1>2. On \in Apps
  BY <1>1, Taken, CallsAre DEF On
<1>3. PICK push : push = Callbacks(On, Head(agenda).priority)
  OBVIOUS
<1>4. push \in Seq(Calls)
  BY <1>2, <1>3, CallbacksIs
<1>5. \A c \in ToSet(push) : c \in Calls /\ Small(c) /\ (c.do = "deliver" => c.on \in given)
  <2>1. \A c \in ToSet(push) : Small(c) /\ (c.do = "deliver" => c.on \in given)
    BY <1>2, <1>3, CallbacksAre DEF Due
  <2> QED
    BY <1>4, <2>1 DEF ToSet
<1>6. Fits(push, ToSet(Tail(agenda)))
  BY <1>4, <1>5, SmallStands, AllLooseFit
<1>7. ASSUME NEW c \in ToSet(push) PROVE Stands(c)'
  <2>1. CASE c.do = "deliver"
    BY <1>1, <1>5, <2>1 DEF Stands, SourceKinds
  <2>2. CASE c.do # "deliver"
    BY <1>5, <2>2, SmallStands
  <2> QED
    BY <2>1, <2>2
<1>8. Tail(agenda) \in Seq(Calls)
      /\ \A c \in ToSet(Tail(agenda)) : c.do = "deliver" => c.on \in given'
  BY <1>1, Taken DEF Stands
<1>9. agenda' = push \o Tail(agenda) /\ agenda' \in Seq(Calls)
  BY <1>1, <1>3, <1>4, <1>8, CallsJoined
<1>10. TypeOK'
  BY <1>1, <1>9 DEF TypeOK
<1> QED
  BY <1>1, <1>4, <1>6, <1>7, <1>8, <1>9, <1>10, StepGrown

\* Files and the environment: nothing is waiting to be delivered behind them.
LEMMA NothingWaits ==
    ASSUME InOrder, agenda # <<>>, Head(agenda).do \in SourceKinds
    PROVE  /\ line = <<>> /\ Remains(Root, ToSet(Tail(agenda)))
           /\ \A c \in ToSet(Tail(agenda)) : Later(c) /\ c.do # "deliver"
<1>1. Remains(Root, ToSet(Tail(agenda))) /\ \A c \in ToSet(Tail(agenda)) : Later(c)
  BY Taken DEF Behind
<1>2. line = <<>>
  BY Taken DEF Stands
<1>3. \A c : Later(c) => c.do # "deliver"
  BY DEF Later, SourceKinds
<1> QED
  BY <1>1, <1>2, <1>3

LEMMA ReadFileInOrder == InOrder /\ ReadFile => InOrder'
<1> SUFFICES ASSUME InOrder, ReadFile PROVE InOrder'
  OBVIOUS
<1>1. /\ TypeOK /\ agenda # <<>> /\ status = "parsing" /\ Head(agenda).do = "sources"
      /\ UNCHANGED <<line, status, parsed, listed, given, delivered, finals, broken>>
  BY DEF InOrder, ReadFile, Next_
<1>2. PICK f \in Files, last \in {"environment", "unreadable"} :
        agenda' = ([i \in DOMAIN f |-> CallOf(f[i])] \o <<Do(last, Root)>>) \o Tail(agenda)
  BY DEF ReadFile, Becomes
<1> DEFINE u == [i \in DOMAIN f |-> CallOf(f[i])]
           v == <<Do(last, Root)>>
           T == ToSet(Tail(agenda))
<1>3. line = <<>> /\ Remains(Root, T) /\ \A c \in T : Later(c) /\ c.do # "deliver"
  BY <1>1, NothingWaits DEF SourceKinds
<1>4. /\ Do(last, Root) \in Calls /\ Do(last, Root).do = last /\ Do(last, Root).on = Root
  BY TreeTypes, CallsMade, CallsAre
<1>5. Later(Do(last, Root))
  BY <1>4 DEF Later, SourceKinds
<1>6. v \in Seq(Calls) /\ ToSet(v) = {Do(last, Root)} /\ Fits(v, T)
  <2>1. Behind(Do(last, Root), T)
    <3> HIDE DEF T
    <3> QED
      BY <1>3, <1>4 DEF Behind, Final, SourceKinds
  <2> QED
    BY <1>4, <2>1, OneCall, OneFits
<1>7. u \in Seq(Calls) /\ (\A c \in ToSet(u) : c.do \in {"open", "close", "set"})
      /\ Fits(u, ToSet(v) \cup T)
  <2>1. Remains(Root, ToSet(v) \cup T) /\ \A c \in ToSet(v) \cup T : Later(c)
    BY <1>3, <1>5, <1>6 DEF Remains
  <2> HIDE DEF u, v, T
  <2>2. /\ u \in Seq(Calls) /\ (\A c \in ToSet(u) : c.do \in {"open", "close", "set"})
        /\ \A R : Remains(Root, R) /\ (\A d \in R : Later(d)) => Fits(u, R)
    BY ItemsAre DEF u
  <2> QED
    BY <2>1, <2>2
<1> HIDE DEF u, v
<1>8. PICK push : push = u \o v
  OBVIOUS
<1>9. push \in Seq(Calls) /\ ToSet(push) = ToSet(u) \cup ToSet(v) /\ Fits(push, T)
  BY <1>6, <1>7, <1>8, CallsJoined, JoinedFit
<1>10. agenda' = push \o Tail(agenda)
  BY <1>2, <1>8 DEF u, v
<1>11. ASSUME NEW c \in ToSet(push) PROVE Stands(c)'
  <2>1. line' = <<>>
    BY <1>1, <1>3
  <2>2. CASE c.do \in {"open", "close", "set"}
    BY <2>1, <2>2 DEF Stands
  <2>3. CASE c = Do(last, Root)
    BY <1>4, <2>1, <2>3 DEF Stands, Ends
  <2> QED
    BY <1>6, <1>7, <1>9, <2>2, <2>3
<1>12. Tail(agenda) \in Seq(Calls) /\ \A c \in T : c.do = "deliver" => c.on \in given'
  BY <1>1, <1>3, Taken
<1>13. TypeOK'
  <2>1. agenda' \in Seq(Calls)
    BY <1>9, <1>10, <1>12, CallsJoined
  <2> QED
    BY <1>1, <2>1 DEF TypeOK
<1> QED
  BY <1>1, <1>9, <1>10, <1>11, <1>12, <1>13, StepGrown

LEMMA SetOptionInOrder == InOrder /\ SetOption => InOrder'
<1> SUFFICES ASSUME InOrder, SetOption PROVE InOrder'
  OBVIOUS
<1>1. /\ TypeOK /\ agenda # <<>> /\ status = "parsing" /\ Head(agenda).do = "set"
      /\ UNCHANGED <<line, status, parsed, listed, finals, broken>>
  BY DEF InOrder, SetOption, Next_
<1>2. On \in Options /\ Tail(agenda) \in Seq(Calls)
  BY <1>1, Taken, CallsAre DEF On
<1>3. line = <<>> /\ \A c \in ToSet(Tail(agenda)) : c.do # "deliver"
  BY <1>1, NothingWaits DEF SourceKinds
<1>4. CASE On \in given
  <2>1. given' = given /\ delivered' = delivered /\ agenda' = Tail(agenda)
    BY <1>4 DEF SetOption, Return
  <2>2. TypeOK'
    BY <1>1, <1>2, <2>1 DEF TypeOK
  <2> QED
    BY <1>1, <2>1, <2>2, StepTaken
<1>5. CASE On \notin given
  <2>1. PICK push : push = IF IsFlag(On) THEN <<>> ELSE <<Do("deliver", On)>>
    OBVIOUS
  <2>2. /\ given' = given \cup {On} /\ delivered' = delivered \ {On}
        /\ agenda' = push \o Tail(agenda)
    BY <1>5, <2>1 DEF SetOption, Gives, Becomes
  <2>3. /\ Do("deliver", On) \in Calls /\ Do("deliver", On).do = "deliver"
        /\ Do("deliver", On).on = On
    BY <1>2, CallsMade, CallsAre
  <2>4. push \in Seq(Calls) /\ ToSet(push) \subseteq {Do("deliver", On)}
    BY <2>1, <2>3, OneCall, NoCall
  <2>5. \A c \in ToSet(push) : Loose(c) /\ Stands(c)'
    BY <1>1, <1>3, <2>2, <2>3, <2>4 DEF Loose, Stands, SourceKinds
  <2>6. Fits(push, ToSet(Tail(agenda)))
    BY <2>4, <2>5, AllLooseFit
  <2>7. TypeOK'
    <3>1. agenda' \in Seq(Calls)
      BY <1>2, <2>2, <2>4, CallsJoined
    <3> QED
      BY <1>1, <1>2, <2>2, <3>1 DEF TypeOK
  <2> QED
    BY <1>1, <1>3, <2>2, <2>4, <2>5, <2>6, <2>7, StepGrown
<1> QED
  BY <1>4, <1>5

LEMMA OpenSectionInOrder == InOrder /\ OpenSection => InOrder'
<1> SUFFICES ASSUME InOrder, OpenSection PROVE InOrder'
  OBVIOUS
<1>1. /\ TypeOK /\ agenda # <<>> /\ status = "parsing" /\ Head(agenda).do = "open"
      /\ agenda' = Tail(agenda)
      /\ UNCHANGED <<line, status, finals, broken>>
  BY DEF InOrder, OpenSection, Next_, Return
<1>2. On \in Names /\ Tail(agenda) \in Seq(Calls)
  BY <1>1, Taken, CallsAre DEF On
<1>3. line = <<>> /\ \A c \in ToSet(Tail(agenda)) : c.do # "deliver"
  BY <1>1, NothingWaits DEF SourceKinds
<1>4. /\ parsed' \in [Apps -> Nat] /\ listed' \in [Apps -> Seq(Names)]
      /\ given' \subseteq given /\ delivered' \subseteq given'
  <2>1. CASE RulesOf[On].configurable
    <3>1. PICK lists : lists = [listed EXCEPT ![Parent(On)] = Append(@, On)]
      OBVIOUS
    <3>2. listed \in [Apps -> Seq(Names)]
      BY <1>1 DEF TypeOK
    <3>3. \A x \in Apps : Append(listed[x], On) \in Seq(Names)
      BY <1>2, <3>2
    <3>4. lists \in [Apps -> Seq(Names)]
      BY <3>1, <3>2, <3>3
    <3>5. Begins(On, lists)
      BY <2>1, <3>1 DEF OpenSection
    <3> QED
      BY <1>1, <1>2, <3>4, <3>5, Beginning
  <2>2. CASE ~RulesOf[On].configurable
    BY <1>1, <2>2 DEF OpenSection, TypeOK
  <2> QED
    BY <2>1, <2>2
<1>5. TypeOK'
  BY <1>1, <1>2, <1>4 DEF TypeOK
<1>6. PICK push : push = <<>>
  OBVIOUS
<1>7. /\ push \in Seq(Calls) /\ ToSet(push) = {} /\ agenda' = push \o Tail(agenda)
  <2>1. \A s \in Seq(Calls) : <<>> \o s = s
    OBVIOUS
  <2> QED
    BY <1>1, <1>2, <1>6, <2>1, NoCall
<1>8. Fits(push, ToSet(Tail(agenda)))
  BY <1>7, AllLooseFit
<1> QED
  BY <1>1, <1>3, <1>5, <1>7, <1>8, StepGrown

LEMMA CloseSectionInOrder == InOrder /\ CloseSection => InOrder'
<1> SUFFICES ASSUME InOrder, CloseSection PROVE InOrder'
  OBVIOUS
<1>1. /\ TypeOK /\ agenda # <<>> /\ status = "parsing" /\ Head(agenda).do = "close"
      /\ UNCHANGED <<line, status, parsed, listed, given, delivered, finals, broken>>
  BY DEF InOrder, CloseSection, Next_
<1>2. On \in Names /\ On \in Apps /\ On # Root /\ Tail(agenda) \in Seq(Calls)
  BY <1>1, Taken, CallsAre DEF On, Names
<1>3. line = <<>> /\ \A c \in ToSet(Tail(agenda)) : Later(c) /\ c.do # "deliver"
  BY <1>1, NothingWaits DEF SourceKinds
<1>4. PICK a : a = On
  OBVIOUS
<1>5. PICK push : push = IF RulesOf[a].configurable /\ AppOf[a].completes
                         THEN Completion(a, FALSE) ELSE <<>>
  OBVIOUS
<1>6. agenda' = push \o Tail(agenda)
  BY <1>4, <1>5 DEF CloseSection, Becomes
<1>7. /\ push \in Seq(Calls) /\ Fits(push, ToSet(Tail(agenda)))
      /\ \A c \in ToSet(push) : Stands(c)'
  <2>1. CASE RulesOf[a].configurable /\ AppOf[a].completes
    <3>1. push = Completion(a, FALSE)
      BY <1>5, <2>1
    <3>2. Run(a, FALSE).do = "run" /\ Run(a, FALSE).on = a
      BY RunIs
    <3>3. \A c \in ToSet(Tail(agenda)) :
            c.do # "deliver" /\ (c.do \in {"callbacks", "requirements", "help"} => c.on = Root)
      BY <1>3 DEF Later, SourceKinds
    <3>4. Behind(Run(a, FALSE), ToSet(Tail(agenda)))
      BY <1>2, <1>4, <3>2, <3>3 DEF Behind, Final, SourceKinds
    <3>5. push \in Seq(Calls) /\ Fits(push, ToSet(Tail(agenda)))
      BY <1>2, <1>4, <3>1, <3>4, CompletionIs
    <3>6. ASSUME NEW c \in ToSet(push) PROVE Stands(c)'
      <4>1. c \in CompletionCalls(a, FALSE)
        BY <1>2, <1>4, <3>1, <3>6, CompletionIs
      <4>2. CASE c = Run(a, FALSE)
        <5>1. EndsEarly(a)
          BY <2>1 DEF EndsEarly
        <5> QED
          BY <1>1, <1>3, <3>2, <4>2, <5>1 DEF Stands
      <4>3. CASE c # Run(a, FALSE)
        <5>1. c \in AllRounds(a) \/ c = Do("requirements", a)
          BY <4>1, <4>3 DEF CompletionCalls
        <5>2. c.do \in {"callbacks", "requirements"}
          BY <5>1, CallsAre DEF AllRounds
        <5> QED
          BY <1>1, <1>3, <5>2 DEF Stands
      <4> QED
        BY <4>2, <4>3
    <3> QED
      BY <3>5, <3>6
  <2>2. CASE ~(RulesOf[a].configurable /\ AppOf[a].completes)
    <3>1. push = <<>>
      BY <1>5, <2>2
    <3> QED
      BY <3>1, NoCall, AllLooseFit
  <2> QED
    BY <2>1, <2>2
<1>8. TypeOK'
  <2>1. agenda' \in Seq(Calls)
    BY <1>2, <1>6, <1>7, CallsJoined
  <2> QED
    BY <1>1, <2>1 DEF TypeOK
<1> QED
  BY <1>1, <1>3, <1>6, <1>7, <1>8, StepGrown

LEMMA ReadEnvironmentInOrder == InOrder /\ ReadEnvironment => InOrder'
<1> SUFFICES ASSUME InOrder, ReadEnvironment PROVE InOrder'
  OBVIOUS
<1>1. /\ TypeOK /\ agenda # <<>> /\ status = "parsing" /\ Head(agenda).do = "environment"
      /\ agenda' = Tail(agenda)
      /\ UNCHANGED <<line, status, parsed, listed, finals, broken>>
  BY DEF InOrder, ReadEnvironment, Next_, Return
<1>2. On \in Apps /\ Tail(agenda) \in Seq(Calls)
  BY <1>1, Taken, CallsAre DEF On
<1>3. PICK S \in SUBSET EnvironmentOf(On) : given' = given \cup S /\ delivered' = delivered \ S
  BY DEF ReadEnvironment, Gives
<1>4. S \subseteq Options
  BY <1>2, EnvironmentIs
<1>5. TypeOK'
  BY <1>1, <1>2, <1>3, <1>4 DEF TypeOK
<1>6. PICK push : push = <<>>
  OBVIOUS
<1>7. /\ push \in Seq(Calls) /\ ToSet(push) = {} /\ agenda' = push \o Tail(agenda)
  <2>1. \A s \in Seq(Calls) : <<>> \o s = s
    OBVIOUS
  <2> QED
    BY <1>1, <1>2, <1>6, <2>1, NoCall
<1>8. Fits(push, ToSet(Tail(agenda)))
  BY <1>7, AllLooseFit
<1>9. \A c \in ToSet(Tail(agenda)) : c.do = "deliver" => c.on \in given'
  BY <1>1, <1>3, Taken DEF Stands
<1> QED
  BY <1>1, <1>5, <1>7, <1>8, <1>9, StepGrown

\* What run_callback puts in front: the end of the App, and final callbacks
\* that are early unless the App is the root.
LEMMA RunCallbackMakes ==
    ASSUME InOrder, RunCallback
    PROVE  \E u, v \in Seq(Calls) :
            /\ agenda' = (u \o v) \o Tail(agenda)
            /\ u = <<>> \/ u = <<Do("completed", On)>>
            /\ \A c \in ToSet(v) : c.do = "final" /\ c.on \in Apps
            /\ (\A c \in ToSet(v) : Early(c.on)) \/ On = Root
<1>1. /\ TypeOK /\ agenda # <<>> /\ Head(agenda).do = "run"
      /\ agenda' = ((IF AppOf[On].completes THEN <<Do("completed", On)>> ELSE <<>>)
                        \o (IF Head(agenda).quiet THEN <<>> ELSE Finals(On))) \o Tail(agenda)
  BY DEF InOrder, RunCallback, Next_, Becomes
<1>2. PICK u : u = IF AppOf[On].completes THEN <<Do("completed", On)>> ELSE <<>>
  OBVIOUS
<1>3. PICK v : v = IF Head(agenda).quiet THEN <<>> ELSE Finals(On)
  OBVIOUS
<1>4. /\ Head(agenda) \in Calls /\ Stands(Head(agenda)) /\ On \in Apps
  BY <1>1, Taken, CallsAre DEF On
<1>5. u \in Seq(Calls) /\ (u = <<>> \/ u = <<Do("completed", On)>>)
  BY <1>2, <1>4, CallsMade, OneCall, NoCall
<1>6. /\ v \in Seq(Calls)
      /\ \A c \in ToSet(v) : c.do = "final" /\ c.on \in Apps
      /\ (\A c \in ToSet(v) : Early(c.on)) \/ On = Root
  <2>1. CASE Head(agenda).quiet
    <3>1. v = <<>>
      BY <1>3, <2>1
    <3> QED
      BY <3>1, NoCall
  <2>2. CASE ~Head(agenda).quiet
    <3>1. v = Finals(On)
      BY <1>3, <2>2
    <3>2. \A x \in Apps : listed[x] \in Seq(Names)
      BY <1>1 DEF TypeOK
    <3>3. /\ v \in Seq(Calls)
          /\ \A c \in ToSet(v) : c.do = "final" /\ c.on \in Apps /\ Lineage[On] \subseteq Lineage[c.on]
      BY <1>4, <3>1, <3>2, FinalsAre
    <3>4. ASSUME On # Root PROVE \A c \in ToSet(v) : Early(c.on)
      <4>1. Head(agenda) # Run(On, TRUE)
        <5>1. Run(On, TRUE).quiet
          BY DEF Run
        <5> QED
          BY ONLY <2>2, <5>1
      <4>2. EndsEarly(On)
        BY <1>1, <1>4, <3>4, <4>1 DEF Stands, On
      <4>3. On \in Lineage[On]
        BY <1>4, <3>4, LineageIs
      <4> QED
        BY <3>3, <4>2, <4>3 DEF Early
    <3> QED
      BY <3>3, <3>4
  <2> QED
    BY <2>1, <2>2
<1>7. agenda' = (u \o v) \o Tail(agenda)
  BY ONLY <1>1, <1>2, <1>3
<1> QED
  BY <1>5, <1>6, <1>7

LEMMA RunCallbackInOrder == InOrder /\ RunCallback => InOrder'
<1> SUFFICES ASSUME InOrder, RunCallback PROVE InOrder'
  OBVIOUS
<1>1. /\ TypeOK /\ agenda # <<>> /\ status = "parsing" /\ Head(agenda).do = "run"
      /\ UNCHANGED <<line, status, parsed, listed, given, delivered, finals, broken>>
  BY DEF InOrder, RunCallback, Next_
<1> DEFINE T == ToSet(Tail(agenda))
<1>2. PICK u \in Seq(Calls), v \in Seq(Calls) :
            /\ agenda' = (u \o v) \o Tail(agenda)
            /\ u = <<>> \/ u = <<Do("completed", On)>>
            /\ \A c \in ToSet(v) : c.do = "final" /\ c.on \in Apps
            /\ (\A c \in ToSet(v) : Early(c.on)) \/ On = Root
  BY RunCallbackMakes
<1>3. /\ Head(agenda).do = "run" /\ Head(agenda).on = On /\ Stands(Head(agenda))
      /\ Behind(Head(agenda), T) /\ Tail(agenda) \in Seq(Calls)
      /\ \A c \in T : c.do = "deliver" => c.on \in given'
      /\ On \in Apps
  BY <1>1, Taken, CallsAre DEF Stands, On
<1>4. On = Root => \A d \in T : d.do \in {"final", "return"}
  <2> HIDE DEF T
  <2> QED
    BY <1>3 DEF Behind, Final
<1>5. Fits(v, T)
  BY <1>2, <1>4, FinalsFit
<1>6. Fits(u, ToSet(v) \cup T)
  <2>1. Do("completed", On).do = "completed" /\ Do("completed", On).on = On
    BY CallsAre
  <2>2. Ends(On) => \A d \in T : d.do # "deliver"
                                /\ (d.do \in {"callbacks", "requirements", "help"} => d.on # On)
    <3> HIDE DEF T
    <3> QED
      BY <1>3 DEF Behind
  <2>3. PICK Q : Q = ToSet(v) \cup T
    OBVIOUS
  <2>4. /\ On = Root => \A d \in Q : d.do \in {"final", "return"}
        /\ Ends(On) => \A d \in Q : d.do # "deliver"
                                /\ (d.do \in {"callbacks", "requirements", "help"} => d.on # On)
    BY ONLY <1>2, <1>4, <2>2, <2>3
  <2>5. Behind(Do("completed", On), Q)
    BY <2>1, <2>4 DEF Behind, Final, SourceKinds
  <2>6. CASE u = <<>>
    BY <2>6, NoCall, AllLooseFit
  <2>7. CASE u = <<Do("completed", On)>>
    <3>1. Do("completed", On) \in Calls
      BY <1>3, CallsMade
    <3>2. Fits(<<Do("completed", On)>>, Q)
      BY ONLY <2>5, <3>1, OneFits
    <3> QED
      BY ONLY <2>3, <2>7, <3>2
  <2> QED
    BY <1>2, <2>6, <2>7
<1>7. PICK push : push = u \o v
  OBVIOUS
<1>8. push \in Seq(Calls) /\ ToSet(push) = ToSet(u) \cup ToSet(v) /\ Fits(push, T)
  BY <1>5, <1>6, <1>7, CallsJoined, JoinedFit
<1>9. ASSUME NEW c \in ToSet(push) PROVE Stands(c)'
  <2>1. line' = line /\ Top' = Top
    BY <1>1 DEF Top
  <2>2. line # <<>> => On # Root /\ (Ends(On) => On = Top)
    BY <1>3 DEF Stands, Ends
  <2>3. CASE c \in ToSet(u)
    <3>1. c = Do("completed", On)
      <4>1. CASE u = <<>>
        BY <2>3, <4>1, NoCall
      <4>2. CASE u = <<Do("completed", On)>>
        <5>1. ToSet(<<Do("completed", On)>>) = {Do("completed", On)}
          BY <1>3, CallsMade, OneCall
        <5> QED
          BY <2>3, <4>2, <5>1
      <4> QED
        BY <1>2, <4>1, <4>2
    <3>2. c.do = "completed" /\ c.on = On
      BY <3>1, CallsAre
    <3> QED
      BY <2>1, <2>2, <3>2 DEF Stands, SourceKinds
  <2>4. CASE c \in ToSet(v)
    BY <1>2, <2>1, <2>2, <2>4 DEF Stands, SourceKinds
  <2> QED
    BY <1>8, <2>3, <2>4
<1>10. TypeOK'
  <2>1. agenda' \in Seq(Calls)
    BY <1>2, <1>3, <1>7, <1>8, CallsJoined
  <2> QED
    BY <1>1, <2>1 DEF TypeOK
<1>11. agenda' = push \o Tail(agenda)
  BY <1>2, <1>7
<1> QED
  BY <1>1, <1>3, <1>8, <1>9, <1>10, <1>11, StepGrown

LEMMA StepInOrder == InOrder /\ [Next]_vars => InOrder'
<1> SUFFICES ASSUME InOrder, [Next]_vars PROVE InOrder'
  OBVIOUS
<1>1. ASSUME NEW o \in Options, GiveOption(o) PROVE InOrder'
  BY <1>1, GiveOptionInOrder
<1>2. ASSUME NEW s \in Names, BeginSubcommand(s) PROVE InOrder'
  BY <1>2, BeginSubcommandInOrder
<1>3. CASE EndSubcommand
  BY <1>3, EndSubcommandInOrder
<1>4. CASE EndLine
  BY <1>4, EndLineInOrder
<1>5. CASE Leave
  BY <1>5, LeaveInOrder
<1>6. CASE RunCallbacks
  BY <1>6, RunCallbacksInOrder
<1>7. CASE Simple
  BY <1>7, SimpleInOrder
<1>8. CASE ReadFile
  BY <1>8, ReadFileInOrder
<1>9. CASE SetOption
  BY <1>9, SetOptionInOrder
<1>10. CASE OpenSection
  BY <1>10, OpenSectionInOrder
<1>11. CASE CloseSection
  BY <1>11, CloseSectionInOrder
<1>12. CASE ReadEnvironment
  BY <1>12, ReadEnvironmentInOrder
<1>13. CASE RunCallback
  BY <1>13, RunCallbackInOrder
<1>14. CASE UNCHANGED vars
  <2>1. UNCHANGED <<line, agenda, status, parsed, listed, given, delivered, finals, broken>>
    BY <1>14 DEF vars
  <2>2. Top' = Top
    BY <2>1 DEF Top
  <2>3. \A c : Stands(c)' <=> Stands(c)
    BY <2>1, <2>2 DEF Stands
  <2>4. TypeOK'
    BY <2>1 DEF InOrder, TypeOK
  <2> QED
    BY <2>1, <2>3, <2>4 DEF InOrder
<1> QED
  BY <1>1, <1>2, <1>3, <1>4, <1>5, <1>6, <1>7, <1>8, <1>9, <1>10, <1>11, <1>12, <1>13, <1>14
     DEF Next, Call, Simple

\* The agenda is always in order: no call stands where what it reads or ends is
\* still to come.
THEOREM CallsInOrder == Spec => []InOrder
<1>1. Init => InOrder
  BY FirstInOrder
<1>2. InOrder /\ [Next]_vars => InOrder'
  BY StepInOrder
<1> QED
  BY <1>1, <1>2, PTL DEF Spec

\* The variables keep the types the code gives them, for every tree of Apps and
\* every file: an option is only delivered while it has results, and what calls
\* put on the agenda are calls.
THEOREM ProcessingTyped == Spec => []TypeOK
<1>1. InOrder => TypeOK
  BY DEF InOrder
<1> QED
  BY <1>1, CallsInOrder, PTL

-----------------------------------------------------------------------------
(* Final callbacks.                                                        *)

\* Once a final callback has run that is not early, there are only others left.
FinalsHeld ==
    \A a \in Apps : finals[a] > 0 /\ ~Early(a) =>
        line = <<>> /\ \A c \in ToSet(agenda) : c.do \in {"final", "return"}

LEMMA OnlyFinalsLeft ==
    ASSUME InOrder, line = <<>>, \A c \in ToSet(agenda) : c.do \in {"final", "return"}, Next
    PROVE  FinalCallback \/ ParseReturns
<1>1. agenda # <<>> => Head(agenda).do \in {"final", "return"}
  BY Taken
<1>2. ASSUME NEW o \in Options, GiveOption(o) PROVE FALSE
  BY <1>2 DEF GiveOption, Reading
<1>3. ASSUME NEW s \in Names, BeginSubcommand(s) PROVE FALSE
  BY <1>3 DEF BeginSubcommand, Reading
<1>4. ~EndSubcommand /\ ~EndLine
  BY DEF EndSubcommand, EndLine, Reading
<1>5. Call
  BY <1>2, <1>3, <1>4 DEF Next
<1>6. /\ ~Leave /\ ~RunCallbacks /\ ~Deliver /\ ~LookForHelp /\ ~ReadFile /\ ~FileUnreadable
      /\ ~SetOption /\ ~OpenSection
  BY <1>1 DEF Leave, RunCallbacks, Deliver, LookForHelp, ReadFile, FileUnreadable, SetOption,
              OpenSection, Next_
<1>7. /\ ~CloseSection /\ ~ReadEnvironment /\ ~CheckRequirements /\ ~Rethrow
      /\ ~CheckExtras /\ ~RunCallback /\ ~Completed
  BY <1>1 DEF CloseSection, ReadEnvironment, CheckRequirements, Rethrow, CheckExtras,
              RunCallback, Completed, Next_
<1> QED
  BY <1>5, <1>6, <1>7 DEF Call

\* Only final callbacks change finals.
LEMMA FinalsChange == Next => FinalCallback \/ finals' = finals
<1> SUFFICES ASSUME Next, ~FinalCallback PROVE finals' = finals
  OBVIOUS
<1>1. ASSUME NEW o \in Options, GiveOption(o) PROVE finals' = finals
  BY <1>1 DEF GiveOption
<1>2. ASSUME NEW s \in Names, BeginSubcommand(s) PROVE finals' = finals
  BY <1>2 DEF BeginSubcommand
<1>3. EndSubcommand \/ EndLine => finals' = finals
  BY DEF EndSubcommand, EndLine
<1>4. Leave \/ RunCallbacks \/ Deliver \/ LookForHelp \/ ReadFile \/ FileUnreadable \/ SetOption
      \/ OpenSection => finals' = finals
  BY DEF Leave, RunCallbacks, Deliver, LookForHelp, ReadFile, FileUnreadable, SetOption,
         OpenSection
<1>5. CloseSection \/ ReadEnvironment \/ CheckRequirements \/ Rethrow \/ CheckExtras
      \/ RunCallback \/ Completed \/ ParseReturns => finals' = finals
  BY DEF CloseSection, ReadEnvironment, CheckRequirements, Rethrow, CheckExtras,
         RunCallback, Completed, ParseReturns
<1> QED
  BY <1>1, <1>2, <1>3, <1>4, <1>5 DEF Next, Call

LEMMA StepFinalsHeld == InOrder /\ FinalsHeld /\ [Next]_vars => FinalsHeld'
<1> SUFFICES ASSUME InOrder, FinalsHeld, [Next]_vars, NEW a \in Apps, finals'[a] > 0, ~Early(a)
             PROVE  line' = <<>> /\ \A c \in ToSet(agenda') : c.do \in {"final", "return"}
  BY DEF FinalsHeld, Early, EndsEarly
<1>1. CASE UNCHANGED vars
  BY <1>1 DEF FinalsHeld, vars
<1>2. CASE Next
  <2>1. line = <<>> /\ \A c \in ToSet(agenda) : c.do \in {"final", "return"}
    <3>1. CASE finals[a] > 0
      BY <3>1 DEF FinalsHeld
    <3>2. CASE ~(finals[a] > 0)
      <4>1. FinalCallback
        BY <1>2, <3>2, FinalsChange
      <4>2. agenda # <<>> /\ Head(agenda).do = "final"
        BY <4>1 DEF FinalCallback, Next_
      <4>3. /\ Head(agenda) \in Calls /\ Stands(Head(agenda))
            /\ ToSet(agenda) = {Head(agenda)} \cup ToSet(Tail(agenda))
            /\ Behind(Head(agenda), ToSet(Tail(agenda)))
        BY <4>2, Taken
      <4>4. Head(agenda).on = a
        <5>1. finals \in [Apps -> 0..2]
          BY DEF InOrder, TypeOK
        <5>2. \/ finals' = finals
              \/ finals' = [finals EXCEPT ![On] = IF @ = 2 THEN 2 ELSE @ + 1]
          BY <4>1 DEF FinalCallback
        <5> QED
          BY <3>2, <5>1, <5>2 DEF On
      <4>5. Final(Head(agenda))
        BY <4>2, <4>4 DEF Final
      <4>6. \A d \in ToSet(Tail(agenda)) : d.do \in {"final", "return"}
        BY <4>3, <4>5 DEF Behind
      <4>7. line = <<>>
        BY <4>2, <4>3, <4>4 DEF Stands
      <4> QED
        BY <4>2, <4>3, <4>6, <4>7
    <3> QED
      BY <3>1, <3>2
  <2>2. Simple
    BY <1>2, <2>1, OnlyFinalsLeft DEF Simple
  <2>3. /\ agenda # <<>> /\ line' = line
        /\ agenda' = Tail(agenda) \/ agenda' = <<>>
    BY <2>2, SimpleIs
  <2>4. ToSet(Tail(agenda)) \subseteq ToSet(agenda) /\ ToSet(<<>>) = {}
    BY <2>3, Taken, NoCall
  <2> QED
    BY <2>1, <2>3, <2>4
<1> QED
  BY <1>1, <1>2

LEMMA FinalsAlwaysHeld == Spec => []FinalsHeld
<1>1. Init => FinalsHeld
  BY DEF Init, FinalsHeld
<1> QED
  BY <1>1, StepFinalsHeld, CallsInOrder, PTL DEF Spec

\* The callbacks of options all come before those that end Apps: once a final
\* callback has run, of an App whose final callback the code does not run twice,
\* no option is delivered any more.  Later deliveries would have to stand
\* behind a final callback on the agenda, and nothing but final callbacks does.
THEOREM DeliveriesPrecedeFinals == Spec => FinalsLast
<1>1. InOrder /\ FinalsHeld /\ [Next]_vars =>
        [(\E a \in Apps : finals[a] > 0 /\ ~FinalTwice(a)) => delivered' = delivered]_vars
  <2> SUFFICES ASSUME InOrder, FinalsHeld, Next, NEW a \in Apps, finals[a] > 0, ~FinalTwice(a)
               PROVE  delivered' = delivered
    OBVIOUS
  <2>1. ~Early(a)
    BY DEF FinalTwice, Early, EndsEarly
  <2>2. FinalCallback \/ ParseReturns
    BY <2>1, OnlyFinalsLeft DEF FinalsHeld
  <2> QED
    BY <2>2 DEF FinalCallback, ParseReturns
<1> QED
  BY <1>1, CallsInOrder, FinalsAlwaysHeld, PTL DEF Spec, FinalsLast

-----------------------------------------------------------------------------
(* Deliveries.                                                             *)

\* The callback of o is due, in a round that is to come, or its station is
\* still on the line and has not begun to end.
ToCome(o) ==
    \/ Do("deliver", o) \in ToSet(agenda)
    \/ Round(Station[Owner(o)], OptionRules[o].priority) \in ToSet(agenda)
    \/ Station[Owner(o)] \in ToSet(line) /\ (agenda = <<>> \/ Station[Owner(o)] # Top)

NoneMissed == status = "parsing" => \A o \in given \ delivered : Missable(o) \/ ToCome(o)

\* From an App on the line, its station and the Apps of its chain are on the line.
LEMMA LineReaches ==
    \A l \in Seq(Apps) : Rooted(l) =>
        \A a \in ToSet(l) : /\ a = Root \/ a \in Names
                            /\ Station[a] \in ToSet(l) /\ ToSet(Chain[a]) \subseteq ToSet(l)
<1> SUFFICES ASSUME NEW l \in Seq(Apps), Rooted(l)
             PROVE  \A a \in ToSet(l) : /\ a = Root \/ a \in Names
                                        /\ Station[a] \in ToSet(l)
                                        /\ ToSet(Chain[a]) \subseteq ToSet(l)
  OBVIOUS
<1>1. ASSUME NEW a \in ToSet(l)
      PROVE  a \in Apps /\ (a # Root => a \in Names /\ FallthroughParent(a) \in ToSet(l))
  <2>1. PICK i \in DOMAIN l : l[i] = a
    BY DEF ToSet
  <2>2. DOMAIN l = 1..Len(l) /\ Len(l) \in Nat /\ a \in Apps
    BY <2>1
  <2>3. CASE a # Root
    <3>1. i > 1 /\ a \in Names /\ \E j \in 1..(i - 1) : l[j] = FallthroughParent(a)
      BY <2>1, <2>3 DEF Rooted
    <3>2. PICK j \in 1..(i - 1) : l[j] = FallthroughParent(a)
      BY <3>1
    <3>3. j \in DOMAIN l
      BY <2>1, <2>2, <3>2
    <3> QED
      BY <2>2, <3>1, <3>2, <3>3 DEF ToSet
  <2> QED
    BY <2>2, <2>3
<1> DEFINE Good == { a \in Apps : a \in ToSet(l) => Station[a] \in ToSet(l)
                                                    /\ ToSet(Chain[a]) \subseteq ToSet(l) }
<1>2. Good \in SUBSET Apps /\ \A a \in Apps : Above[a] \subseteq Good => a \in Good
  <2> SUFFICES ASSUME NEW a \in Apps, Above[a] \subseteq Good, a \in ToSet(l)
               PROVE  Station[a] \in ToSet(l) /\ ToSet(Chain[a]) \subseteq ToSet(l)
    OBVIOUS
  <2>1. ToSet(<<a>>) = {a} /\ <<a>> \in Seq(Apps)
    BY DEF ToSet
  <2>2. CASE a = Root
    <3>1. Chain[a] = <<a>>
      BY <2>2, ChainIs, Parents
    <3>2. Station[a] = a
      BY <2>2, StationIs
    <3> QED
      BY <2>1, <3>1, <3>2
  <2>3. CASE a # Root
    <3> DEFINE b == FallthroughParent(a)
    <3>1. b \in ToSet(l) /\ a \in Names /\ b \in Apps
      BY <1>1, <2>3
    <3>2. b \in Above[a]
      BY <2>3, <3>1, Parents DEF FallthroughParent, Above
    <3>3. Station[b] \in ToSet(l) /\ ToSet(Chain[b]) \subseteq ToSet(l)
      BY <3>1, <3>2
    <3>4. Station[a] \in {a, Station[b]}
      <4>1. CASE Completes(a)
        BY <4>1, StationIs
      <4>2. CASE ~Completes(a)
        <5>1. Station[a] = Station[Parent(a)] /\ Parent(a) \in Apps
          BY <2>3, <4>2, StationIs, Parents
        <5>2. CASE IsGroup(Parent(a))
          <6>1. b = Parent(Parent(a))
            BY <5>1, <5>2, TreeTypes DEF FallthroughParent
          <6> QED
            BY <5>1, <5>2, <6>1, StationOfGroups
        <5>3. CASE ~IsGroup(Parent(a))
          BY <5>1, <5>3 DEF FallthroughParent
        <5> QED
          BY <5>2, <5>3
      <4> QED
        BY <4>1, <4>2
    <3>5. ToSet(Chain[a]) \subseteq {a} \cup ToSet(Chain[b])
      <4> HIDE DEF b
      <4>1. Chain[a] = <<a>> \o Chain[b] \/ Chain[a] = <<a>>
        BY ChainIs DEF b
      <4>2. Chain[b] \in Seq(Apps)
        BY <3>1, ChainIs
      <4>3. ToSet(<<a>> \o Chain[b]) = ToSet(<<a>>) \cup ToSet(Chain[b])
        <5>1. \A u, v \in Seq(Apps) : ToSet(u \o v) = ToSet(u) \cup ToSet(v)
          BY ToSetJoined
        <5> QED
          BY ONLY <2>1, <4>2, <5>1
      <4> QED
        BY <2>1, <4>1, <4>3
    <3> QED
      BY <3>3, <3>4, <3>5
  <2> QED
    BY <2>2, <2>3
<1> HIDE DEF Good
<1>3. Good = Apps
  BY <1>2, UpInduction
<1> QED
  BY <1>1, <1>3 DEF Good

\* What the command line may give belongs to a station on the line.
LEMMA GivenOnLine ==
    ASSUME InOrder, line # <<>>, NEW o \in Options,
           \E x \in ToSet(Chain[Top]) : o \in OptionsOf(Level(x))
    PROVE  Station[Owner(o)] \in ToSet(line)
<1>1. line \in Seq(Apps) /\ Rooted(line)
  BY DEF InOrder, TypeOK
<1>2. Top \in ToSet(line)
  BY <1>1, LineIs DEF Top
<1>3. PICK x \in ToSet(Chain[Top]) : o \in OptionsOf(Level(x))
  OBVIOUS
<1>4. x \in ToSet(line) /\ Station[x] \in ToSet(line)
  BY <1>1, <1>2, LineReaches
<1>5. x \in Apps
  BY <1>1, <1>4 DEF ToSet
<1>6. PICK b \in Level(x) : o \in Own(b)
  BY <1>3 DEF OptionsOf, Own
<1>7. CASE b = x
  BY <1>4, <1>5, <1>6, <1>7, Owners
<1>8. CASE b # x
  <2>1. PICK i \in Groups(x) : b = AppOf[x].subs[i]
    BY <1>6, <1>8 DEF Level
  <2>2. IsGroup(b) /\ b \in Subs(x)
    BY <2>1 DEF Groups, Subs, ToSet
  <2>3. b \in Apps /\ Parent(b) = x
    BY <1>5, <2>2, Parents
  <2>4. Station[b] = Station[x]
    BY <2>2, <2>3, StationOfGroups
  <2> QED
    BY <1>4, <1>6, <2>3, <2>4, Owners
<1> QED
  BY <1>7, <1>8

\* What is to come stays so while the calls behind the first are kept.
LEMMA ComesOn ==
    ASSUME InOrder, agenda # <<>>, line' = line, ToSet(Tail(agenda)) \subseteq ToSet(agenda'),
           NEW o, ToCome(o), Head(agenda) # Do("deliver", o),
           Head(agenda) # Round(Station[Owner(o)], OptionRules[o].priority)
    PROVE  ToCome(o)'
<1>1. ToSet(agenda) = {Head(agenda)} \cup ToSet(Tail(agenda))
  BY Taken
<1>2. Top' = Top
  BY DEF Top
<1> QED
  BY <1>1, <1>2 DEF ToCome

\* Steps that give nothing new and put the calls behind the first at most
\* further back: only the first call is no longer to come.
LEMMA NoneMissedMeanwhile ==
    ASSUME InOrder, NoneMissed, agenda # <<>>, status = "parsing", line' = line,
           ToSet(Tail(agenda)) \subseteq ToSet(agenda'),
           given' \ delivered' \subseteq given \ delivered,
           Head(agenda).do # "callbacks",
           Head(agenda).do = "deliver" => Head(agenda).on \in delivered'
    PROVE  NoneMissed'
<1> SUFFICES ASSUME NEW o \in given' \ delivered', ~Missable(o) PROVE ToCome(o)'
  BY DEF NoneMissed, Missable, Completes, IsFlag
<1>1. ToCome(o)
  BY DEF NoneMissed
<1>2. Head(agenda) # Do("deliver", o)
  BY CallsAre
<1>3. Head(agenda) # Round(Station[Owner(o)], OptionRules[o].priority)
  BY CallsAre
<1> QED
  BY <1>1, <1>2, <1>3, ComesOn

LEMMA SimpleNoneMissed == InOrder /\ NoneMissed /\ Simple => NoneMissed'
<1> SUFFICES ASSUME InOrder, NoneMissed, Simple PROVE NoneMissed'
  OBVIOUS
<1>1. CASE status' # "parsing"
  BY <1>1 DEF NoneMissed
<1>2. CASE status' = "parsing"
  <2>1. /\ agenda # <<>> /\ status = "parsing" /\ line' = line /\ given' = given
        /\ agenda' = Tail(agenda)
    BY <1>2, SimpleIs
  <2>2. CASE Deliver
    <3>1. Head(agenda).do = "deliver" /\ delivered' = delivered \cup {Head(agenda).on}
      BY <1>2, <2>2 DEF Deliver, Next_, On, Throw
    <3> QED
      BY <2>1, <3>1, NoneMissedMeanwhile
  <2>3. CASE ~Deliver
    <3>1. /\ delivered' = delivered
          /\ Head(agenda).do \in {"help", "unreadable", "requirements", "rethrow", "extras",
                                  "completed", "final", "return"}
      BY <2>3 DEF Simple, LookForHelp, FileUnreadable, CheckRequirements, Rethrow, CheckExtras,
                  Completed, FinalCallback, ParseReturns, Next_
    <3> QED
      BY <2>1, <3>1, NoneMissedMeanwhile
  <2> QED
    BY <2>2, <2>3
<1> QED
  BY <1>1, <1>2

LEMMA PushKeeps ==
    ASSUME InOrder, agenda # <<>>, NEW push \in Seq(Calls), agenda' = push \o Tail(agenda)
    PROVE  ToSet(agenda') = ToSet(push) \cup ToSet(Tail(agenda))
  BY Taken, CallsJoined

LEMMA PushesNoneMissed ==
    ASSUME InOrder, NoneMissed, ReadFile \/ CloseSection \/ RunCallback
    PROVE  NoneMissed'
<1>1. /\ agenda # <<>> /\ status = "parsing" /\ line' = line
      /\ given' = given /\ delivered' = delivered
      /\ Head(agenda).do \in {"sources", "close", "run"}
  BY DEF ReadFile, CloseSection, RunCallback, Next_
<1>2. \E push \in Seq(Calls) : agenda' = push \o Tail(agenda)
  <2>1. CASE ReadFile
    <3>1. PICK f \in Files, last \in {"environment", "unreadable"} :
            agenda' = ([i \in DOMAIN f |-> CallOf(f[i])] \o <<Do(last, Root)>>) \o Tail(agenda)
      BY <2>1 DEF ReadFile, Becomes
    <3>2. PICK u, v : u = [i \in DOMAIN f |-> CallOf(f[i])] /\ v = <<Do(last, Root)>>
      OBVIOUS
    <3>3. Do(last, Root) \in Calls
      BY TreeTypes, CallsMade
    <3>4. u \in Seq(Calls) /\ v \in Seq(Calls)
      BY <3>2, <3>3, OneCall, ItemsAre
    <3>5. u \o v \in Seq(Calls) /\ agenda' = (u \o v) \o Tail(agenda)
      BY ONLY <3>1, <3>2, <3>4, CallsJoined
    <3> QED
      BY ONLY <3>5
  <2>2. CASE CloseSection
    <3>1. On \in Apps
      BY <1>1, Taken, CallsAre DEF On, Names
    <3>2. PICK push : push = IF RulesOf[On].configurable /\ AppOf[On].completes
                             THEN Completion(On, FALSE) ELSE <<>>
      OBVIOUS
    <3>3. push \in Seq(Calls)
      BY <3>1, <3>2, CompletionIs, NoCall
    <3>4. agenda' = push \o Tail(agenda)
      BY <2>2, <3>2 DEF CloseSection, Becomes
    <3> QED
      BY <3>3, <3>4
  <2>3. CASE RunCallback
    <3>1. PICK u \in Seq(Calls), v \in Seq(Calls) : agenda' = (u \o v) \o Tail(agenda)
      BY <2>3, RunCallbackMakes
    <3>2. u \o v \in Seq(Calls)
      BY CallsJoined
    <3> QED
      BY <3>1, <3>2
  <2> QED
    BY <2>1, <2>2, <2>3
<1>3. ToSet(Tail(agenda)) \subseteq ToSet(agenda')
  BY <1>1, <1>2, PushKeeps
<1> QED
  BY <1>1, <1>3, NoneMissedMeanwhile

LEMMA OpenSectionNoneMissed == InOrder /\ NoneMissed /\ OpenSection => NoneMissed'
<1> SUFFICES ASSUME InOrder, NoneMissed, OpenSection PROVE NoneMissed'
  OBVIOUS
<1>1. /\ TypeOK /\ agenda # <<>> /\ status = "parsing" /\ Head(agenda).do = "open"
      /\ agenda' = Tail(agenda) /\ line' = line
  BY DEF InOrder, OpenSection, Next_, Return
<1>2. given' \ delivered' \subseteq given \ delivered
  <2>1. CASE RulesOf[On].configurable
    <3>1. On \in Names
      BY <1>1, Taken, CallsAre DEF On
    <3>2. PICK lists : lists = [listed EXCEPT ![Parent(On)] = Append(@, On)]
      OBVIOUS
    <3>3. listed \in [Apps -> Seq(Names)]
      BY <1>1 DEF TypeOK
    <3>4. \A x \in Apps : Append(listed[x], On) \in Seq(Names)
      BY <3>1, <3>3
    <3>5. lists \in [Apps -> Seq(Names)]
      BY <3>2, <3>3, <3>4
    <3>6. Begins(On, lists)
      BY <2>1, <3>2 DEF OpenSection
    <3> QED
      BY <1>1, <3>1, <3>5, <3>6, Beginning
  <2>2. CASE ~RulesOf[On].configurable
    BY <2>2 DEF OpenSection
  <2> QED
    BY <2>1, <2>2
<1> QED
  BY <1>1, <1>2, NoneMissedMeanwhile

LEMMA RunCallbacksNoneMissed == InOrder /\ NoneMissed /\ RunCallbacks => NoneMissed'
<1> SUFFICES ASSUME InOrder, NoneMissed, RunCallbacks,
                    NEW o \in given \ delivered, ~Missable(o)
             PROVE  ToCome(o)'
  BY DEF NoneMissed, Missable, Completes, IsFlag, RunCallbacks
<1>1. /\ agenda # <<>> /\ status = "parsing" /\ Head(agenda).do = "callbacks"
      /\ agenda' = Callbacks(On, Head(agenda).priority) \o Tail(agenda) /\ line' = line
  BY DEF RunCallbacks, Next_, Becomes
<1>2. On \in Apps /\ o \in Options
  BY <1>1, Taken, CallsAre DEF On, InOrder, TypeOK
<1>3. PICK push : push = Callbacks(On, Head(agenda).priority)
  OBVIOUS
<1>4. push \in Seq(Calls)
  BY <1>2, <1>3, CallbacksIs
<1>5. ToSet(agenda') = ToSet(push) \cup ToSet(Tail(agenda))
  BY <1>1, <1>3, <1>4, PushKeeps
<1>6. ToCome(o)
  BY <1>1 DEF NoneMissed
<1>7. Head(agenda) # Do("deliver", o)
  BY <1>1, CallsAre
<1>8. CASE Head(agenda) = Round(Station[Owner(o)], OptionRules[o].priority)
  <2>1. On = Station[Owner(o)] /\ Head(agenda).priority = OptionRules[o].priority
    BY <1>8, CallsAre DEF On
  <2>2. o \in Due(OptionRules[o].priority)
    BY DEF Due
  <2>3. Do("deliver", o) \in ToSet(push)
    BY <1>2, <1>3, <2>1, <2>2, RoundDelivers
  <2> QED
    BY <1>5, <2>3 DEF ToCome
<1>9. CASE Head(agenda) # Round(Station[Owner(o)], OptionRules[o].priority)
  BY <1>1, <1>5, <1>6, <1>7, <1>9, ComesOn
<1> QED
  BY <1>8, <1>9

\* An option that does not miss its round is one a later round is for.
LEMMA NotMissed ==
    ASSUME NEW o \in Options, ~Missable(o)
    PROVE  /\ OptionRules[o].priority \in Priorities
           /\ OptionRules[o].env \/ IsFlag(o) =>
                OptionRules[o].priority \in Priorities \ {"FirstPreHelp", "First"}
           /\ IsFlag(o) => Station[Owner(o)] = Root
<1>1. OptionRules[o].priority \in Priorities /\ Owner(o) \in Apps
  BY RuleTypes, Owners
<1>2. \/ Station[Owner(o)] = Root
      \/ Completes(Station[Owner(o)]) /\ Station[Owner(o)] \in Lineage[Owner(o)]
  BY <1>1, StationIs
<1> QED
  BY <1>1, <1>2 DEF Missable

LEMMA SetOptionNoneMissed == InOrder /\ NoneMissed /\ SetOption => NoneMissed'
<1> SUFFICES ASSUME InOrder, NoneMissed, SetOption PROVE NoneMissed'
  OBVIOUS
<1>1. /\ TypeOK /\ agenda # <<>> /\ status = "parsing" /\ Head(agenda).do = "set" /\ line' = line
  BY DEF InOrder, SetOption, Next_
<1>2. On \in Options /\ Tail(agenda) \in Seq(Calls)
  BY <1>1, Taken, CallsAre DEF On
<1>3. CASE On \in given
  <2>1. given' = given /\ delivered' = delivered /\ agenda' = Tail(agenda)
    BY <1>3 DEF SetOption, Return
  <2> QED
    BY <1>1, <2>1, NoneMissedMeanwhile
<1>4. CASE On \notin given
  <2>1. PICK push : push = IF IsFlag(On) THEN <<>> ELSE <<Do("deliver", On)>>
    OBVIOUS
  <2>2. /\ given' = given \cup {On} /\ delivered' = delivered \ {On}
        /\ agenda' = push \o Tail(agenda)
    BY <1>4, <2>1 DEF SetOption, Gives, Becomes
  <2>3. Do("deliver", On) \in Calls
    BY <1>2, CallsMade
  <2>4. push \in Seq(Calls) /\ (~IsFlag(On) => ToSet(push) = {Do("deliver", On)})
    BY <2>1, <2>3, OneCall, NoCall
  <2>5. ToSet(agenda') = ToSet(push) \cup ToSet(Tail(agenda))
    BY <1>1, <2>2, <2>4, PushKeeps
  <2> SUFFICES ASSUME NEW o \in given' \ delivered', ~Missable(o) PROVE ToCome(o)'
    BY DEF NoneMissed, Missable, Completes, IsFlag
  <2>6. CASE o = On
    <3>1. CASE IsFlag(On)
      <4>1. /\ Station[Owner(o)] = Root
            /\ OptionRules[o].priority \in Priorities \ {"FirstPreHelp", "First"}
        BY <1>2, <2>6, <3>1, NotMissed
      <4>2. Remains(Root, ToSet(Tail(agenda)))
        BY <1>1, NothingWaits DEF SourceKinds
      <4>3. Round(Station[Owner(o)], OptionRules[o].priority) \in ToSet(Tail(agenda))
        BY <4>1, <4>2 DEF Remains
      <4> QED
        BY <2>5, <4>3 DEF ToCome
    <3>2. CASE ~IsFlag(On)
      BY <2>4, <2>5, <2>6, <3>2 DEF ToCome
    <3> QED
      BY <3>1, <3>2
  <2>7. CASE o # On
    <3>1. o \in given \ delivered
      BY <2>2, <2>7
    <3>2. ToCome(o)
      BY <1>1, <3>1 DEF NoneMissed
    <3>3. /\ Head(agenda) # Do("deliver", o)
          /\ Head(agenda) # Round(Station[Owner(o)], OptionRules[o].priority)
      BY <1>1, CallsAre
    <3> QED
      BY <1>1, <2>5, <3>2, <3>3, ComesOn
  <2> QED
    BY <2>6, <2>7
<1> QED
  BY <1>3, <1>4

LEMMA ReadEnvironmentNoneMissed == InOrder /\ NoneMissed /\ ReadEnvironment => NoneMissed'
<1> SUFFICES ASSUME InOrder, NoneMissed, ReadEnvironment PROVE NoneMissed'
  OBVIOUS
<1>1. /\ TypeOK /\ agenda # <<>> /\ status = "parsing" /\ Head(agenda).do = "environment"
      /\ agenda' = Tail(agenda) /\ line' = line
  BY DEF InOrder, ReadEnvironment, Next_, Return
<1>2. /\ On \in Apps /\ Ends(On) /\ Remains(On, ToSet(Tail(agenda)))
  BY <1>1, Taken, CallsAre DEF On, Stands, Behind
<1>3. PICK S \in SUBSET EnvironmentOf(On) : given' = given \cup S /\ delivered' = delivered \ S
  BY DEF ReadEnvironment, Gives
<1> SUFFICES ASSUME NEW o \in given' \ delivered', ~Missable(o) PROVE ToCome(o)'
  BY DEF NoneMissed, Missable, Completes, IsFlag
<1>4. CASE o \in S
  <2>1. o \in Options /\ OptionRules[o].env /\ Station[Owner(o)] = Station[On]
    BY <1>2, <1>4, EnvironmentIs
  <2>2. Station[On] = On
    BY <1>2, StationIs DEF Ends
  <2>3. OptionRules[o].priority \in Priorities \ {"FirstPreHelp", "First"}
    BY <2>1, NotMissed
  <2>4. Round(Station[Owner(o)], OptionRules[o].priority) \in ToSet(Tail(agenda))
    BY <1>2, <2>1, <2>2, <2>3 DEF Remains
  <2> QED
    BY <1>1, <2>4 DEF ToCome
<1>5. CASE o \notin S
  <2>1. o \in given \ delivered
    BY <1>3, <1>5
  <2>2. ToCome(o)
    BY <1>1, <2>1 DEF NoneMissed
  <2>3. /\ Head(agenda) # Do("deliver", o)
        /\ Head(agenda) # Round(Station[Owner(o)], OptionRules[o].priority)
    BY <1>1, CallsAre
  <2> QED
    BY <1>1, <2>2, <2>3, ComesOn
<1> QED
  BY <1>4, <1>5

LEMMA NothingToCome ==
    ASSUME agenda = <<>> PROVE \A o : ToCome(o) <=> Station[Owner(o)] \in ToSet(line)
<1>1. ToSet(agenda) = {}
  BY NoCall
<1> QED
  BY <1>1 DEF ToCome

LEMMA LineNoneMissed ==
    ASSUME InOrder, NoneMissed,
           \/ \E o \in Options : GiveOption(o)
           \/ \E s \in Names : BeginSubcommand(s)
    PROVE  NoneMissed'
<1>1. /\ TypeOK /\ Rooted(line)
      /\ agenda = <<>> /\ status = "parsing" /\ agenda' = <<>> /\ line # <<>>
  BY DEF InOrder, GiveOption, BeginSubcommand, Reading
<1> SUFFICES ASSUME NEW o \in given' \ delivered', ~Missable(o)
             PROVE  Station[Owner(o)] \in ToSet(line')
  <2>1. \A o : ToCome(o)' <=> Station[Owner(o)] \in ToSet(line')
    <3>1. ToSet(agenda') = {}
      BY <1>1, NoCall
    <3> QED
      BY <1>1, <3>1 DEF ToCome
  <2> QED
    BY <2>1 DEF NoneMissed, Missable, Completes, IsFlag
<1>2. ASSUME o \in given \ delivered PROVE Station[Owner(o)] \in ToSet(line)
  BY <1>1, <1>2, NothingToCome DEF NoneMissed
<1>3. CASE \E x \in Options : GiveOption(x)
  <2>1. PICK x \in Options : GiveOption(x)
    BY <1>3
  <2>2. given' = given \cup {x} /\ delivered' = delivered \ {x} /\ line' = line
    BY <2>1 DEF GiveOption, Gives
  <2>3. CASE o = x
    BY <1>1, <2>1, <2>2, <2>3, GivenOnLine DEF GiveOption
  <2>4. CASE o # x
    BY <1>2, <2>2, <2>4
  <2> QED
    BY <2>3, <2>4
<1>4. CASE \E s \in Names : BeginSubcommand(s)
  <2>1. PICK s \in Names : BeginSubcommand(s)
    BY <1>4
  <2>2. PICK lists : lists = IF parsed[s] > 0 \/ AppOf[s].silent THEN listed
                             ELSE [listed EXCEPT ![Top] = Append(@, s)]
    OBVIOUS
  <2>3. Begins(s, lists) /\ line' = Append(line, s)
    BY <2>1, <2>2 DEF BeginSubcommand
  <2>4. lists \in [Apps -> Seq(Names)]
    <3>1. listed \in [Apps -> Seq(Names)]
      BY <1>1 DEF TypeOK
    <3>2. \A x \in Apps : Append(listed[x], s) \in Seq(Names)
      BY <3>1
    <3>3. [listed EXCEPT ![Top] = Append(@, s)] \in [Apps -> Seq(Names)]
      BY <3>1, <3>2
    <3> QED
      BY <2>2, <3>1, <3>3
  <2>5. o \in given \ delivered
    BY <1>1, <2>3, <2>4, Beginning
  <2>6. ToSet(line) \subseteq ToSet(Append(line, s))
    <3>1. line \in Seq(Apps) /\ s \in Apps
      BY <1>1 DEF TypeOK, Names
    <3>2. \A i \in DOMAIN line : i \in DOMAIN Append(line, s) /\ Append(line, s)[i] = line[i]
      BY <3>1
    <3> QED
      BY <3>2 DEF ToSet
  <2> QED
    BY <1>2, <2>3, <2>5, <2>6
<1> QED
  BY <1>3, <1>4

LEMMA EndsNoneMissed ==
    ASSUME InOrder, NoneMissed, EndSubcommand \/ EndLine
    PROVE  NoneMissed'
<1>1. /\ TypeOK /\ Rooted(line)
      /\ agenda = <<>> /\ status = "parsing" /\ line # <<>>
      /\ given' = given /\ delivered' = delivered
  BY DEF InOrder, EndSubcommand, EndLine, Reading
<1>2. line \in Seq(Apps)
  BY <1>1 DEF TypeOK
<1> SUFFICES ASSUME NEW o \in given \ delivered, ~Missable(o) PROVE ToCome(o)'
  BY <1>1 DEF NoneMissed, Missable, Completes, IsFlag
<1>3. Station[Owner(o)] \in ToSet(line)
  BY <1>1, NothingToCome DEF NoneMissed
<1>4. o \in Options /\ OptionRules[o].priority \in Priorities
  BY <1>1, RuleTypes DEF TypeOK
<1>5. CASE EndSubcommand
  <2>1. /\ Top # Root /\ line' = line
        /\ agenda' = (IF AppOf[Top].completes THEN Completion(Top, TRUE) ELSE <<>>)
                        \o <<Do("leave", Top)>>
    BY <1>5 DEF EndSubcommand
  <2>2. Top \in Names /\ Top \in Apps /\ Top' = Top
    BY <1>1, <1>2, <2>1, LineIs DEF Top
  <2>3. CASE Station[Owner(o)] # Top
    BY <1>3, <2>1, <2>2, <2>3 DEF ToCome
  <2>4. CASE Station[Owner(o)] = Top
    <3>1. AppOf[Top].completes
      BY <1>4, <2>1, <2>4, StationIs, Owners DEF Completes
    <3>2. Completion(Top, TRUE) \in Seq(Calls) /\ ToSet(Completion(Top, TRUE)) = CompletionCalls(Top, TRUE)
      BY <2>2, CompletionIs
    <3>3. Do("leave", Top) \in Calls
      BY <2>2, CallsMade
    <3>4. <<Do("leave", Top)>> \in Seq(Calls)
      BY <3>3, OneCall
    <3>5. agenda' = Completion(Top, TRUE) \o <<Do("leave", Top)>>
      BY <2>1, <3>1
    <3>6. ToSet(Completion(Top, TRUE)) \subseteq ToSet(agenda')
      BY ONLY <3>2, <3>4, <3>5, CallsJoined
    <3>7. Round(Top, OptionRules[o].priority) \in CompletionCalls(Top, TRUE)
      BY <1>4 DEF CompletionCalls, AllRounds
    <3> QED
      BY <2>4, <3>2, <3>6, <3>7 DEF ToCome
  <2> QED
    BY <2>3, <2>4
<1>6. CASE EndLine
  <2>1. Top = Root /\ agenda' = Process
    BY <1>6 DEF EndLine
  <2>2. Station[Owner(o)] = Root
    BY <1>1, <1>2, <1>3, <2>1, LineIs DEF Top
  <2>3. Round(Root, OptionRules[o].priority) \in ProcessCalls
    BY <1>4 DEF ProcessCalls, AllRounds
  <2> QED
    BY <2>1, <2>2, <2>3, ProcessIs DEF ToCome
<1> QED
  BY <1>5, <1>6

LEMMA LeaveNoneMissed == InOrder /\ NoneMissed /\ Leave => NoneMissed'
<1> SUFFICES ASSUME InOrder, NoneMissed, Leave,
                    NEW o \in given \ delivered, ~Missable(o)
             PROVE  ToCome(o)'
  BY DEF NoneMissed, Missable, Completes, IsFlag, Leave
<1>1. /\ TypeOK /\ Rooted(line) /\ agenda # <<>> /\ status = "parsing"
      /\ Head(agenda).do = "leave" /\ agenda' = Tail(agenda) /\ line' = Front(line)
  BY DEF InOrder, Leave, Next_, Return
<1>2. line # <<>> /\ Tail(agenda) = <<>> /\ ToSet(agenda) = {Head(agenda)}
  BY <1>1, Taken, Emptied, NoCall DEF Stands, Behind
<1>3. ToCome(o)
  BY <1>1 DEF NoneMissed
<1>4. /\ Do("deliver", o) \notin ToSet(agenda)
      /\ Round(Station[Owner(o)], OptionRules[o].priority) \notin ToSet(agenda)
  BY <1>1, <1>2, CallsAre
<1>5. Station[Owner(o)] \in ToSet(line) /\ Station[Owner(o)] # Top
  BY <1>1, <1>3, <1>4 DEF ToCome
<1>6. Station[Owner(o)] \in ToSet(Front(line))
  BY <1>1, <1>2, <1>5, LineIs DEF Top, TypeOK
<1> QED
  BY <1>1, <1>2, <1>6 DEF ToCome

LEMMA StepNoneMissed == InOrder /\ NoneMissed /\ [Next]_vars => NoneMissed'
<1> SUFFICES ASSUME InOrder, NoneMissed, [Next]_vars PROVE NoneMissed'
  OBVIOUS
<1>1. CASE \/ \E o \in Options : GiveOption(o)
           \/ \E s \in Names : BeginSubcommand(s)
  BY <1>1, LineNoneMissed
<1>2. CASE EndSubcommand \/ EndLine
  BY <1>2, EndsNoneMissed
<1>3. CASE Leave
  BY <1>3, LeaveNoneMissed
<1>4. CASE RunCallbacks
  BY <1>4, RunCallbacksNoneMissed
<1>5. CASE Simple
  BY <1>5, SimpleNoneMissed
<1>6. CASE ReadFile \/ CloseSection \/ RunCallback
  BY <1>6, PushesNoneMissed
<1>7. CASE SetOption
  BY <1>7, SetOptionNoneMissed
<1>8. CASE OpenSection
  BY <1>8, OpenSectionNoneMissed
<1>9. CASE ReadEnvironment
  BY <1>9, ReadEnvironmentNoneMissed
<1>10. CASE UNCHANGED vars
  <2>1. UNCHANGED <<line, agenda, status, given, delivered>>
    BY <1>10 DEF vars
  <2> SUFFICES ASSUME status = "parsing", NEW o \in given \ delivered, ~Missable(o)
               PROVE  ToCome(o)'
    BY <2>1 DEF NoneMissed, Missable, Completes, IsFlag
  <2>2. ToCome(o)
    BY DEF NoneMissed
  <2> QED
    BY <2>1, <2>2 DEF ToCome, Top
<1> QED
  BY <1>1, <1>2, <1>3, <1>4, <1>5, <1>6, <1>7, <1>8, <1>9, <1>10 DEF Next, Call, Simple

LEMMA NoneEverMissed == Spec => []NoneMissed
<1>1. Init => NoneMissed
  BY DEF Init, NoneMissed
<1> QED
  BY <1>1, StepNoneMissed, CallsInOrder, PTL DEF Spec

-----------------------------------------------------------------------------
(* Requirements.                                                           *)

LEMMA SameUsed ==
    given' = given /\ parsed' = parsed => \A a : Used(a)' = Used(a)
  BY DEF Used

LEMMA SameSatisfied ==
    given' = given /\ parsed' = parsed /\ listed' = listed => \A a : Satisfied(a)' = Satisfied(a)
  BY DEF Satisfied, Barred, Present, Used, Own, OptionSatisfied, EnoughOptions, UsedOptions, MayPass

\* The calls before which a's requirements are checked.
Awaits(c, a) ==
    \/ c.do \in {"run", "completed"} /\ c.on = a /\ Completes(a)
    \/ c.do = "rethrow" /\ a = Root

RequirementsMet ==
    \A c \in ToSet(agenda), a \in Apps : Awaits(c, a) =>
        Do("requirements", a) \in ToSet(agenda) \/ Satisfied(a)

LEMMA MetMeanwhile ==
    ASSUME InOrder, RequirementsMet, agenda # <<>>,
           given' = given, parsed' = parsed, listed' = listed,
           NEW push \in Seq(Calls), agenda' = push \o Tail(agenda),
           Head(agenda).do = "requirements" => Satisfied(Head(agenda).on),
           \A c \in ToSet(push), a \in Apps : Awaits(c, a) =>
                Do("requirements", a) \in ToSet(push) \/ Awaits(Head(agenda), a)
    PROVE  RequirementsMet'
<1> SUFFICES ASSUME NEW c \in ToSet(agenda'), NEW a \in Apps, Awaits(c, a)
             PROVE  Do("requirements", a) \in ToSet(agenda') \/ Satisfied(a)'
  BY DEF RequirementsMet, Awaits, Completes
<1>1. ToSet(agenda') = ToSet(push) \cup ToSet(Tail(agenda))
  BY PushKeeps
<1>2. ToSet(agenda) = {Head(agenda)} \cup ToSet(Tail(agenda)) /\ Head(agenda) \in Calls
  BY Taken
<1>3. Satisfied(a)' = Satisfied(a)
  BY SameSatisfied
<1>4. ASSUME NEW d \in ToSet(agenda), Awaits(d, a)
      PROVE  Do("requirements", a) \in ToSet(Tail(agenda)) \/ Satisfied(a)
  <2>1. Do("requirements", a) \in ToSet(agenda) \/ Satisfied(a)
    BY <1>4 DEF RequirementsMet
  <2>2. CASE Do("requirements", a) = Head(agenda)
    <3>1. Head(agenda).do = "requirements" /\ Head(agenda).on = a
      BY <2>2, CallsAre
    <3> QED
      BY <3>1
  <2> QED
    BY <1>2, <2>1, <2>2
<1>5. CASE c \in ToSet(Tail(agenda))
  BY <1>1, <1>2, <1>3, <1>4, <1>5
<1>6. CASE c \in ToSet(push)
  BY <1>1, <1>2, <1>3, <1>4, <1>6
<1> QED
  BY <1>1, <1>5, <1>6

LEMMA NoneLeft == agenda' = <<>> => RequirementsMet'
<1> SUFFICES ASSUME agenda' = <<>> PROVE RequirementsMet'
  OBVIOUS
<1>1. ToSet(agenda') = {}
  BY NoCall
<1> QED
  BY <1>1 DEF RequirementsMet

LEMMA SimpleMet == InOrder /\ RequirementsMet /\ Simple => RequirementsMet'
<1> SUFFICES ASSUME InOrder, RequirementsMet, Simple PROVE RequirementsMet'
  OBVIOUS
<1>1. /\ agenda # <<>> /\ UNCHANGED <<given, parsed, listed>>
      /\ \/ agenda' = Tail(agenda) /\ (status' = "parsing" \/ Tail(agenda) = <<>>)
         \/ agenda' = <<>>
  BY SimpleIs
<1>2. CASE agenda' = <<>>
  BY <1>2, NoneLeft
<1>3. CASE agenda' = Tail(agenda) /\ agenda' # <<>>
  <2>1. status' = "parsing"
    BY <1>1, <1>3
  <2>2. Head(agenda).do = "requirements" => Satisfied(Head(agenda).on)
    <3>1. CASE CheckRequirements
      BY <2>1, <3>1 DEF CheckRequirements, On, Throw
    <3>2. CASE ~CheckRequirements
      <4>1. Head(agenda).do \in {"deliver", "help", "unreadable", "rethrow", "extras",
                                 "completed", "final", "return"}
        BY <3>2 DEF Simple, Deliver, LookForHelp, FileUnreadable, Rethrow, CheckExtras,
                    Completed, FinalCallback, ParseReturns, Next_
      <4> QED
        BY <4>1
    <3> QED
      BY <3>1, <3>2
  <2>3. PICK push : push = <<>>
    OBVIOUS
  <2>4. push \in Seq(Calls) /\ ToSet(push) = {} /\ agenda' = push \o Tail(agenda)
    <3>1. \A s \in Seq(Calls) : <<>> \o s = s
      OBVIOUS
    <3> QED
      BY <1>1, <1>3, <2>3, <3>1, NoCall, Taken
  <2> QED
    BY <1>1, <2>2, <2>4, MetMeanwhile
<1> QED
  BY <1>1, <1>2, <1>3

\* A subcommand that completes has its requirements on the agenda before its end.
LEMMA CompletionAwaits ==
    \A a \in Apps, w \in BOOLEAN : \A c \in CompletionCalls(a, w), x \in Apps :
        Awaits(c, x) => Do("requirements", x) \in CompletionCalls(a, w)
<1> SUFFICES ASSUME NEW a \in Apps, NEW w \in BOOLEAN, NEW c \in CompletionCalls(a, w),
                    NEW x \in Apps, Awaits(c, x)
             PROVE  Do("requirements", x) \in CompletionCalls(a, w)
  OBVIOUS
<1>1. c.do \in {"run", "completed", "rethrow"} /\ (c.do # "rethrow" => c.on = x)
  BY DEF Awaits
<1>2. c = Run(a, w)
  <2>1. \/ \E p : c = Round(a, p) \/ c = Help(a, p)
        \/ c = Do("environment", a) \/ c = Do("requirements", a) \/ c = Run(a, w)
    BY DEF CompletionCalls, AllRounds, AllHelp
  <2> QED
    BY <1>1, <2>1, CallsAre
<1>3. x = a
  <2>1. Run(a, w).do = "run" /\ Run(a, w).on = a
    BY RunIs
  <2> QED
    BY <1>1, <1>2, <2>1
<1> QED
  BY <1>3 DEF CompletionCalls

LEMMA LineMet ==
    ASSUME InOrder,
           \/ \E o \in Options : GiveOption(o)
           \/ \E s \in Names : BeginSubcommand(s)
           \/ EndSubcommand \/ EndLine \/ Leave
    PROVE  RequirementsMet'
<1>1. TypeOK /\ Rooted(line)
  BY DEF InOrder
<1>2. CASE (\E o \in Options : GiveOption(o)) \/ \E s \in Names : BeginSubcommand(s)
  <2>1. agenda' = <<>>
    BY <1>2 DEF GiveOption, BeginSubcommand, Reading
  <2> QED
    BY <2>1, NoneLeft
<1>3. CASE Leave
  <2>1. agenda # <<>> /\ Head(agenda).do = "leave" /\ agenda' = Tail(agenda)
    BY <1>3 DEF Leave, Next_, Return
  <2>2. Tail(agenda) = <<>>
    BY <2>1, Taken, Emptied DEF Behind
  <2> QED
    BY <2>1, <2>2, NoneLeft
<1>4. CASE EndLine
  <2>1. ToSet(agenda') = ProcessCalls
    BY <1>4, ProcessIs DEF EndLine
  <2> SUFFICES ASSUME NEW c \in ProcessCalls, NEW a \in Apps, Awaits(c, a)
               PROVE  Do("requirements", a) \in ProcessCalls
    BY <2>1 DEF RequirementsMet, Awaits, Completes
  <2>2. c.on = Root
    <3>1. Run(Root, FALSE).on = Root
      BY RunIs
    <3>2. \/ \E p : c = Round(Root, p) \/ c = Help(Root, p)
          \/ \E what : c = Do(what, Root)
          \/ c = Run(Root, FALSE)
      BY DEF ProcessCalls, AllRounds, AllHelp
    <3>3. CASE \E p : c = Round(Root, p) \/ c = Help(Root, p)
      BY <3>3, CallsAre
    <3>4. CASE \E what : c = Do(what, Root)
      BY <3>4, CallsAre
    <3>5. CASE c = Run(Root, FALSE)
      BY ONLY <3>1, <3>5
    <3> QED
      BY ONLY <3>2, <3>3, <3>4, <3>5
  <2>3. a = Root
    BY <2>2 DEF Awaits
  <2> QED
    BY <2>3 DEF ProcessCalls
<1>5. CASE EndSubcommand
  <2>1. /\ Top # Root /\ line # <<>>
        /\ agenda' = (IF AppOf[Top].completes THEN Completion(Top, TRUE) ELSE <<>>)
                        \o <<Do("leave", Top)>>
    BY <1>5 DEF EndSubcommand, Reading
  <2>2. Top \in Names /\ Top \in Apps
    BY <1>1, <2>1, LineIs DEF Top, TypeOK
  <2>3. PICK s : s = IF AppOf[Top].completes THEN Completion(Top, TRUE) ELSE <<>>
    OBVIOUS
  <2>4. s \in Seq(Calls) /\ (ToSet(s) = CompletionCalls(Top, TRUE) \/ ToSet(s) = {})
    BY <2>2, <2>3, CompletionIs, NoCall
  <2>5. Do("leave", Top) \in Calls /\ Do("leave", Top).do = "leave"
    BY <2>2, CallsMade, CallsAre
  <2>6. <<Do("leave", Top)>> \in Seq(Calls) /\ ToSet(<<Do("leave", Top)>>) = {Do("leave", Top)}
    BY <2>5, OneCall
  <2>7. agenda' = s \o <<Do("leave", Top)>>
    BY ONLY <2>1, <2>3
  <2>8. ToSet(agenda') = ToSet(s) \cup {Do("leave", Top)}
    BY ONLY <2>4, <2>6, <2>7, CallsJoined
  <2> SUFFICES ASSUME NEW c \in ToSet(agenda'), NEW a \in Apps, Awaits(c, a)
               PROVE  Do("requirements", a) \in ToSet(agenda')
    BY DEF RequirementsMet, Awaits, Completes
  <2>9. c \in ToSet(s)
    BY <2>5, <2>8 DEF Awaits
  <2>10. Do("requirements", a) \in ToSet(s)
    BY <2>2, <2>4, <2>9, CompletionAwaits
  <2> QED
    BY <2>8, <2>10
<1> QED
  BY <1>2, <1>3, <1>4, <1>5

LEMMA PushesMet ==
    ASSUME InOrder, RequirementsMet, ReadFile \/ CloseSection \/ RunCallback \/ RunCallbacks
    PROVE  RequirementsMet'
<1>1. /\ agenda # <<>> /\ given' = given /\ parsed' = parsed /\ listed' = listed
      /\ Head(agenda).do \in {"sources", "close", "run", "callbacks"}
  BY DEF ReadFile, CloseSection, RunCallback, RunCallbacks, Next_
<1>2. \E push \in Seq(Calls) :
        /\ agenda' = push \o Tail(agenda)
        /\ \A c \in ToSet(push), a \in Apps : Awaits(c, a) =>
                Do("requirements", a) \in ToSet(push) \/ Awaits(Head(agenda), a)
  <2>1. CASE ReadFile
    <3>1. PICK f \in Files, last \in {"environment", "unreadable"} :
            agenda' = ([i \in DOMAIN f |-> CallOf(f[i])] \o <<Do(last, Root)>>) \o Tail(agenda)
      BY <2>1 DEF ReadFile, Becomes
    <3>2. PICK u, v : u = [i \in DOMAIN f |-> CallOf(f[i])] /\ v = <<Do(last, Root)>>
      OBVIOUS
    <3>3. Do(last, Root) \in Calls /\ Do(last, Root).do = last
      BY TreeTypes, CallsMade, CallsAre
    <3>4. /\ u \in Seq(Calls) /\ v \in Seq(Calls)
          /\ \A c \in ToSet(u) : c.do \in {"open", "close", "set"}
          /\ ToSet(v) = {Do(last, Root)}
      BY <3>2, <3>3, OneCall, ItemsAre
    <3>5. /\ u \o v \in Seq(Calls) /\ agenda' = (u \o v) \o Tail(agenda)
          /\ ToSet(u \o v) = ToSet(u) \cup ToSet(v)
      BY ONLY <3>1, <3>2, <3>4, CallsJoined
    <3>6. \A c \in ToSet(u \o v), a \in Apps : ~Awaits(c, a)
      BY <3>3, <3>4, <3>5 DEF Awaits
    <3> QED
      BY <3>5, <3>6
  <2>2. CASE CloseSection
    <3>1. On \in Apps
      BY <1>1, <2>2, Taken, CallsAre DEF On, Names, CloseSection, Next_
    <3>2. PICK push : push = IF RulesOf[On].configurable /\ AppOf[On].completes
                             THEN Completion(On, FALSE) ELSE <<>>
      OBVIOUS
    <3>3. push \in Seq(Calls) /\ (ToSet(push) = CompletionCalls(On, FALSE) \/ ToSet(push) = {})
      BY <3>1, <3>2, CompletionIs, NoCall
    <3>4. agenda' = push \o Tail(agenda)
      BY <2>2, <3>2 DEF CloseSection, Becomes
    <3>5. \A c \in ToSet(push), a \in Apps : Awaits(c, a) => Do("requirements", a) \in ToSet(push)
      BY <3>1, <3>3, CompletionAwaits
    <3> QED
      BY <3>3, <3>4, <3>5
  <2>3. CASE RunCallback
    <3>1. PICK u \in Seq(Calls), v \in Seq(Calls) :
            /\ agenda' = (u \o v) \o Tail(agenda)
            /\ u = <<>> \/ u = <<Do("completed", On)>>
            /\ \A c \in ToSet(v) : c.do = "final"
      BY <2>3, RunCallbackMakes
    <3>2. u \o v \in Seq(Calls) /\ ToSet(u \o v) = ToSet(u) \cup ToSet(v)
      BY CallsJoined
    <3>3. Head(agenda).do = "run" /\ Head(agenda).on = On /\ On \in Apps
      BY <1>1, <2>3, Taken, CallsAre DEF On, RunCallback, Next_
    <3>4. Do("completed", On) \in Calls /\ Do("completed", On).do = "completed"
          /\ Do("completed", On).on = On
      BY <3>3, CallsMade, CallsAre
    <3>5. ToSet(u) \subseteq {Do("completed", On)}
      BY <3>1, <3>4, OneCall, NoCall
    <3>6. \A c \in ToSet(u \o v), a \in Apps : Awaits(c, a) => Awaits(Head(agenda), a)
      BY <3>1, <3>2, <3>3, <3>4, <3>5 DEF Awaits
    <3> QED
      BY <3>1, <3>2, <3>6
  <2>4. CASE RunCallbacks
    <3>1. On \in Apps
      BY <1>1, <2>4, Taken, CallsAre DEF On, RunCallbacks, Next_
    <3>2. PICK push : push = Callbacks(On, Head(agenda).priority)
      OBVIOUS
    <3>3. push \in Seq(Calls) /\ \A c \in ToSet(push) : Small(c)
      BY <3>1, <3>2, CallbacksIs, CallbacksAre
    <3>4. agenda' = push \o Tail(agenda)
      BY <2>4, <3>2 DEF RunCallbacks, Becomes
    <3>5. \A c \in ToSet(push), a \in Apps : ~Awaits(c, a)
      BY <3>3 DEF Small, Awaits, Completes
    <3> QED
      BY <3>3, <3>4, <3>5
  <2> QED
    BY <2>1, <2>2, <2>3, <2>4
<1>3. Head(agenda).do # "requirements"
  BY <1>1
<1> QED
  BY <1>1, <1>2, <1>3, MetMeanwhile

\* While files are read only the root's requirements are to be checked, and
\* they are yet to come.
LEMMA SourcesMet ==
    ASSUME InOrder, SetOption \/ OpenSection
    PROVE  RequirementsMet'
<1>1. agenda # <<>> /\ Head(agenda).do \in {"set", "open"}
  BY DEF SetOption, OpenSection, Next_
<1>2. /\ Remains(Root, ToSet(Tail(agenda)))
      /\ \A c \in ToSet(Tail(agenda)) : Later(c)
  BY <1>1, NothingWaits DEF SourceKinds
<1>3. ToSet(Tail(agenda)) \subseteq ToSet(agenda')
      /\ \A c \in ToSet(agenda') : c \in ToSet(Tail(agenda)) \/ c.do = "deliver"
  <2>1. CASE agenda' = Tail(agenda)
    BY <2>1
  <2>2. CASE agenda' # Tail(agenda)
    <3>1. SetOption
      BY <2>2 DEF OpenSection, Return
    <3>2. PICK push : push = IF IsFlag(On) THEN <<>> ELSE <<Do("deliver", On)>>
      OBVIOUS
    <3>3. agenda' = push \o Tail(agenda)
      BY <2>2, <3>1, <3>2 DEF SetOption, Return, Becomes
    <3>4. On \in Options
      BY <1>1, <3>1, Taken, CallsAre DEF On, SetOption, Next_
    <3>5. Do("deliver", On) \in Calls /\ Do("deliver", On).do = "deliver"
      BY <3>4, CallsMade, CallsAre
    <3>6. push \in Seq(Calls) /\ ToSet(push) \subseteq {Do("deliver", On)}
      BY <3>2, <3>5, OneCall, NoCall
    <3> QED
      BY <1>1, <3>3, <3>5, <3>6, PushKeeps
  <2> QED
    BY <2>1, <2>2
<1> SUFFICES ASSUME NEW c \in ToSet(agenda'), NEW a \in Apps, Awaits(c, a)
             PROVE  Do("requirements", a) \in ToSet(agenda')
  BY DEF RequirementsMet, Awaits, Completes
<1>4. Later(c)
  BY <1>2, <1>3 DEF Awaits
<1>5. a = Root
  BY <1>4 DEF Later, Awaits, SourceKinds
<1> QED
  BY <1>2, <1>3, <1>5 DEF Remains

LEMMA EnvironmentMet == InOrder /\ RequirementsMet /\ ReadEnvironment => RequirementsMet'
<1> SUFFICES ASSUME InOrder, RequirementsMet, ReadEnvironment,
                    NEW c \in ToSet(agenda'), NEW a \in Apps, Awaits(c, a)
             PROVE  Do("requirements", a) \in ToSet(agenda')
  BY DEF RequirementsMet, Awaits, Completes
<1>1. /\ agenda # <<>> /\ Head(agenda).do = "environment" /\ Head(agenda).on = On
      /\ agenda' = Tail(agenda)
  BY DEF ReadEnvironment, Next_, Return, On
<1>2. PICK T : T = ToSet(Tail(agenda))
  OBVIOUS
<1>3. /\ Behind(Head(agenda), T) /\ Stands(Head(agenda)) /\ Stands(c) /\ c \in T
  BY <1>1, <1>2, Taken
<1>4. Remains(On, T) /\ (On = Root => \A d \in T : Later(d))
  BY <1>1, <1>3 DEF Behind
<1>5. a = On
  <2>1. CASE On = Root
    <3>1. Later(c)
      BY <1>3, <1>4, <2>1
    <3> QED
      BY <2>1, <3>1 DEF Later, Awaits, SourceKinds
  <2>2. CASE On # Root
    <3>1. line # <<>> /\ On = Top
      BY <1>1, <1>3, <2>2 DEF Stands
    <3>2. c.do \in {"run", "completed"} /\ c.on = a /\ Completes(a)
      BY <1>3, <3>1 DEF Stands, Awaits
    <3>3. c.on = Top
      BY <1>3, <3>1, <3>2 DEF Stands, Ends
    <3> QED
      BY <3>1, <3>2, <3>3
  <2> QED
    BY <2>1, <2>2
<1> QED
  BY <1>1, <1>2, <1>4, <1>5 DEF Remains

LEMMA StepMet == InOrder /\ RequirementsMet /\ [Next]_vars => RequirementsMet'
<1> SUFFICES ASSUME InOrder, RequirementsMet, [Next]_vars PROVE RequirementsMet'
  OBVIOUS
<1>1. CASE \/ \E o \in Options : GiveOption(o)
           \/ \E s \in Names : BeginSubcommand(s)
           \/ EndSubcommand \/ EndLine \/ Leave
  BY <1>1, LineMet
<1>2. CASE ReadFile \/ CloseSection \/ RunCallback \/ RunCallbacks
  BY <1>2, PushesMet
<1>3. CASE Simple
  BY <1>3, SimpleMet
<1>4. CASE SetOption \/ OpenSection
  BY <1>4, SourcesMet
<1>5. CASE ReadEnvironment
  BY <1>5, EnvironmentMet
<1>6. CASE UNCHANGED vars
  <2>1. agenda' = agenda /\ given' = given /\ parsed' = parsed /\ listed' = listed
    BY <1>6 DEF vars
  <2> SUFFICES ASSUME NEW c \in ToSet(agenda), NEW a \in Apps, Awaits(c, a)
               PROVE  Do("requirements", a) \in ToSet(agenda) \/ Satisfied(a)'
    BY <2>1 DEF RequirementsMet, Awaits, Completes
  <2>2. Satisfied(a)' = Satisfied(a)
    BY <2>1, SameSatisfied
  <2> QED
    BY <2>2 DEF RequirementsMet
<1> QED
  BY <1>1, <1>2, <1>3, <1>4, <1>5, <1>6 DEF Next, Call, Simple

LEMMA RequirementsAlwaysMet == Spec => []RequirementsMet
<1>1. Init => RequirementsMet
  BY NoCall DEF Init, RequirementsMet
<1> QED
  BY <1>1, StepMet, CallsInOrder, PTL DEF Spec

-----------------------------------------------------------------------------
(* Who asks for help is heard before a subcommand of the line completes.   *)

LEMMA SameWanted ==
    ASSUME NEW p, Asking(p)' = Asking(p), listed' = listed
    PROVE  \A a : HelpWanted(a, p)' = HelpWanted(a, p)
  BY DEF HelpWanted

LEMMA SameAsking == given' = given => \A p : Asking(p)' = Asking(p)
  BY DEF Asking

\* The calls before which a's help flags are looked at.
Concludes(c, a) == c.do \in {"run", "completed"} /\ c.on = a /\ Completes(a)

\* Help of priority p was looked for in vain, or is looked for later.
Heard(a, p) ==
    Help(a, p) \in ToSet(agenda) \/ ~HelpWanted(a, p) \/ HelpMayBeLate(p)

HelpHeard ==
    line # <<>> =>
        \A c \in ToSet(agenda), a \in Apps : Concludes(c, a) => \A p \in DOMAIN PreHelp : Heard(a, p)

LEMMA HeardMeanwhile ==
    ASSUME InOrder, HelpHeard, agenda # <<>>,
           given' = given, listed' = listed, line' = line,
           NEW push \in Seq(Calls), agenda' = push \o Tail(agenda),
           Head(agenda).do = "help" => ~HelpWanted(Head(agenda).on, Head(agenda).priority),
           line # <<>> => \A c \in ToSet(push), a \in Apps : Concludes(c, a) => Concludes(Head(agenda), a)
    PROVE  HelpHeard'
<1> SUFFICES ASSUME line # <<>>, NEW c \in ToSet(agenda'), NEW a \in Apps, Concludes(c, a),
                    NEW p \in DOMAIN PreHelp, ~HelpMayBeLate(p)
             PROVE  Help(a, p) \in ToSet(agenda') \/ ~HelpWanted(a, p)'
  BY DEF HelpHeard, Heard, Concludes, Completes, HelpMayBeLate
<1>1. ToSet(agenda') = ToSet(push) \cup ToSet(Tail(agenda))
  BY PushKeeps
<1>2. ToSet(agenda) = {Head(agenda)} \cup ToSet(Tail(agenda)) /\ Head(agenda) \in Calls
  BY Taken
<1>3. HelpWanted(a, p)' = HelpWanted(a, p)
  BY SameWanted, SameAsking
<1>4. PICK d \in ToSet(agenda) : Concludes(d, a)
  <2>1. CASE c \in ToSet(push)
    BY <1>2, <2>1
  <2>2. CASE c \in ToSet(Tail(agenda))
    BY <1>2, <2>2
  <2> QED
    BY <1>1, <2>1, <2>2
<1>5. Help(a, p) \in ToSet(agenda) \/ ~HelpWanted(a, p)
  BY <1>4 DEF HelpHeard, Heard
<1>6. CASE Help(a, p) = Head(agenda)
  <2>1. Head(agenda).do = "help" /\ Head(agenda).on = a /\ Head(agenda).priority = p
    BY <1>6, CallsAre
  <2> QED
    BY <1>3, <2>1
<1> QED
  BY <1>1, <1>2, <1>3, <1>5, <1>6

LEMMA NothingHeard == agenda' = <<>> => HelpHeard'
<1> SUFFICES ASSUME agenda' = <<>> PROVE HelpHeard'
  OBVIOUS
<1>1. ToSet(agenda') = {}
  BY NoCall
<1> QED
  BY <1>1 DEF HelpHeard

LEMMA SimpleHeard == InOrder /\ HelpHeard /\ Simple => HelpHeard'
<1> SUFFICES ASSUME InOrder, HelpHeard, Simple PROVE HelpHeard'
  OBVIOUS
<1>1. /\ agenda # <<>> /\ UNCHANGED <<line, given, listed>>
      /\ \/ agenda' = Tail(agenda) /\ (status' = "parsing" \/ Tail(agenda) = <<>>)
         \/ agenda' = <<>>
  BY SimpleIs
<1>2. CASE agenda' = <<>>
  BY <1>2, NothingHeard
<1>3. CASE agenda' = Tail(agenda) /\ agenda' # <<>>
  <2>1. status' = "parsing"
    BY <1>1, <1>3
  <2>2. Head(agenda).do = "help" => ~HelpWanted(Head(agenda).on, Head(agenda).priority)
    <3>1. CASE LookForHelp
      BY <2>1, <3>1 DEF LookForHelp, On, Throw
    <3>2. CASE ~LookForHelp
      <4>1. Head(agenda).do \in {"deliver", "requirements", "unreadable", "rethrow", "extras",
                                 "completed", "final", "return"}
        BY <3>2 DEF Simple, Deliver, CheckRequirements, FileUnreadable, Rethrow, CheckExtras,
                    Completed, FinalCallback, ParseReturns, Next_
      <4> QED
        BY <4>1
    <3> QED
      BY <3>1, <3>2
  <2>3. PICK push : push = <<>>
    OBVIOUS
  <2>4. push \in Seq(Calls) /\ ToSet(push) = {} /\ agenda' = push \o Tail(agenda)
    <3>1. \A s \in Seq(Calls) : <<>> \o s = s
      OBVIOUS
    <3> QED
      BY <1>1, <1>3, <2>3, <3>1, NoCall, Taken
  <2> QED
    BY <1>1, <2>2, <2>4, HeardMeanwhile
<1> QED
  BY <1>1, <1>2, <1>3

LEMMA LineHeard ==
    ASSUME InOrder,
           \/ \E o \in Options : GiveOption(o)
           \/ \E s \in Names : BeginSubcommand(s)
           \/ EndSubcommand \/ EndLine \/ Leave
    PROVE  HelpHeard'
<1>1. TypeOK /\ Rooted(line)
  BY DEF InOrder
<1>2. CASE (\E o \in Options : GiveOption(o)) \/ \E s \in Names : BeginSubcommand(s)
  <2>1. agenda' = <<>>
    BY <1>2 DEF GiveOption, BeginSubcommand, Reading
  <2> QED
    BY <2>1, NothingHeard
<1>3. CASE Leave
  <2>1. agenda # <<>> /\ Head(agenda).do = "leave" /\ agenda' = Tail(agenda)
    BY <1>3 DEF Leave, Next_, Return
  <2>2. Tail(agenda) = <<>>
    BY <2>1, Taken, Emptied DEF Behind
  <2> QED
    BY <2>1, <2>2, NothingHeard
<1>4. CASE EndLine
  <2>1. line' = <<>>
    BY <1>4 DEF EndLine
  <2> QED
    BY <2>1 DEF HelpHeard
<1>5. CASE EndSubcommand
  <2>1. /\ Top # Root /\ line # <<>>
        /\ agenda' = (IF AppOf[Top].completes THEN Completion(Top, TRUE) ELSE <<>>)
                        \o <<Do("leave", Top)>>
    BY <1>5 DEF EndSubcommand, Reading
  <2>2. Top \in Names /\ Top \in Apps
    BY <1>1, <2>1, LineIs DEF Top, TypeOK
  <2>3. PICK s : s = IF AppOf[Top].completes THEN Completion(Top, TRUE) ELSE <<>>
    OBVIOUS
  <2>4. s \in Seq(Calls) /\ (ToSet(s) = CompletionCalls(Top, TRUE) \/ ToSet(s) = {})
    BY <2>2, <2>3, CompletionIs, NoCall
  <2>5. Do("leave", Top) \in Calls /\ Do("leave", Top).do = "leave"
    BY <2>2, CallsMade, CallsAre
  <2>6. <<Do("leave", Top)>> \in Seq(Calls) /\ ToSet(<<Do("leave", Top)>>) = {Do("leave", Top)}
    BY <2>5, OneCall
  <2>7. agenda' = s \o <<Do("leave", Top)>>
    BY ONLY <2>1, <2>3
  <2>8. ToSet(agenda') = ToSet(s) \cup {Do("leave", Top)}
    BY ONLY <2>4, <2>6, <2>7, CallsJoined
  <2> SUFFICES ASSUME NEW c \in ToSet(agenda'), NEW a \in Apps, Concludes(c, a),
                      NEW p \in DOMAIN PreHelp
               PROVE  Help(a, p) \in ToSet(agenda')
    BY DEF HelpHeard, Heard, Concludes, Completes
  <2>9. c \in CompletionCalls(Top, TRUE) /\ ToSet(s) = CompletionCalls(Top, TRUE)
    BY <2>4, <2>5, <2>8 DEF Concludes
  <2>10. c = Run(Top, TRUE)
    <3>1. \/ \E q : c = Round(Top, q) \/ c = Help(Top, q)
          \/ c = Do("environment", Top) \/ c = Do("requirements", Top) \/ c = Run(Top, TRUE)
      BY <2>9 DEF CompletionCalls, AllRounds, AllHelp
    <3>2. c.do \in {"run", "completed"}
      BY DEF Concludes
    <3>3. CASE \E q : c = Round(Top, q) \/ c = Help(Top, q)
      BY <3>2, <3>3, CallsAre
    <3>4. CASE c = Do("environment", Top) \/ c = Do("requirements", Top)
      BY <3>2, <3>4, CallsAre
    <3> QED
      BY ONLY <3>1, <3>3, <3>4
  <2>11. a = Top
    <3>1. Run(Top, TRUE).on = Top
      BY RunIs
    <3>2. c.on = a
      BY DEF Concludes
    <3> QED
      BY ONLY <2>10, <3>1, <3>2
  <2>12. Help(Top, p) \in CompletionCalls(Top, TRUE)
    BY DEF CompletionCalls, AllHelp
  <2> QED
    BY <2>8, <2>9, <2>11, <2>12
<1> QED
  BY <1>2, <1>3, <1>4, <1>5

\* Files are read when the line has ended.
LEMMA SourcesHeard ==
    ASSUME InOrder, ReadFile \/ CloseSection \/ SetOption \/ OpenSection
    PROVE  HelpHeard'
<1>1. /\ agenda # <<>> /\ line' = line
      /\ Head(agenda).do \in {"sources", "close", "set", "open"}
  BY DEF ReadFile, CloseSection, SetOption, OpenSection, Next_
<1>2. line = <<>>
  BY <1>1, NothingWaits DEF SourceKinds
<1> QED
  BY <1>1, <1>2 DEF HelpHeard

LEMMA PushesHeard ==
    ASSUME InOrder, HelpHeard, RunCallback \/ RunCallbacks
    PROVE  HelpHeard'
<1>1. /\ agenda # <<>> /\ given' = given /\ line' = line /\ listed' = listed
      /\ Head(agenda).do \in {"run", "callbacks"}
  BY DEF RunCallback, RunCallbacks, Next_
<1>2. \E push \in Seq(Calls) :
        /\ agenda' = push \o Tail(agenda)
        /\ \A c \in ToSet(push), a \in Apps : Concludes(c, a) => Concludes(Head(agenda), a)
  <2>1. CASE RunCallback
    <3>1. PICK u \in Seq(Calls), v \in Seq(Calls) :
            /\ agenda' = (u \o v) \o Tail(agenda)
            /\ u = <<>> \/ u = <<Do("completed", On)>>
            /\ \A c \in ToSet(v) : c.do = "final"
      BY <2>1, RunCallbackMakes
    <3>2. u \o v \in Seq(Calls) /\ ToSet(u \o v) = ToSet(u) \cup ToSet(v)
      BY CallsJoined
    <3>3. Head(agenda).do = "run" /\ Head(agenda).on = On /\ On \in Apps
      BY <1>1, <2>1, Taken, CallsAre DEF On, RunCallback, Next_
    <3>4. Do("completed", On) \in Calls /\ Do("completed", On).do = "completed"
          /\ Do("completed", On).on = On
      BY <3>3, CallsMade, CallsAre
    <3>5. ToSet(u) \subseteq {Do("completed", On)}
      BY <3>1, <3>4, OneCall, NoCall
    <3>6. \A c \in ToSet(u \o v), a \in Apps : Concludes(c, a) => Concludes(Head(agenda), a)
      BY <3>1, <3>2, <3>3, <3>4, <3>5 DEF Concludes
    <3> QED
      BY <3>1, <3>2, <3>6
  <2>2. CASE RunCallbacks
    <3>1. On \in Apps
      BY <1>1, <2>2, Taken, CallsAre DEF On, RunCallbacks, Next_
    <3>2. PICK push : push = Callbacks(On, Head(agenda).priority)
      OBVIOUS
    <3>3. push \in Seq(Calls) /\ \A c \in ToSet(push) : Small(c)
      BY <3>1, <3>2, CallbacksIs, CallbacksAre
    <3>4. agenda' = push \o Tail(agenda)
      BY <2>2, <3>2 DEF RunCallbacks, Becomes
    <3>5. \A c \in ToSet(push), a \in Apps : ~Concludes(c, a)
      BY <3>3 DEF Small, Concludes, Completes
    <3> QED
      BY <3>3, <3>4, <3>5
  <2> QED
    BY <2>1, <2>2
<1>3. Head(agenda).do # "help"
  BY <1>1
<1> QED
  BY <1>1, <1>2, <1>3, HeardMeanwhile

\* The environment comes before every look for help but the first.
LEMMA EnvironmentHeard == InOrder /\ HelpHeard /\ ReadEnvironment => HelpHeard'
<1> SUFFICES ASSUME InOrder, HelpHeard, ReadEnvironment, line' # <<>>,
                    NEW c \in ToSet(agenda'), NEW a \in Apps, Concludes(c, a),
                    NEW p \in DOMAIN PreHelp, ~HelpMayBeLate(p)
             PROVE  Help(a, p) \in ToSet(agenda') \/ ~HelpWanted(a, p)'
  BY DEF HelpHeard, Heard, Concludes, Completes, HelpMayBeLate
<1>1. /\ agenda # <<>> /\ Head(agenda).do = "environment" /\ Head(agenda).on = On
      /\ agenda' = Tail(agenda) /\ line' = line /\ listed' = listed
  BY DEF ReadEnvironment, Next_, Return, On
<1>2. PICK T : T = ToSet(Tail(agenda))
  OBVIOUS
<1>3. /\ Behind(Head(agenda), T) /\ Stands(Head(agenda)) /\ Stands(c) /\ c \in T
      /\ ToSet(agenda) = {Head(agenda)} \cup T /\ Head(agenda) \in Calls
  BY <1>1, <1>2, Taken
<1>4. Remains(On, T) /\ On \in Apps
  BY <1>1, <1>3, CallsAre DEF Behind
<1>5. a = On
  <2>1. On = Top
    BY <1>1, <1>3 DEF Stands
  <2>2. c.do \in {"run", "completed"} /\ c.on = a /\ Completes(a)
    BY DEF Concludes
  <2>3. c.on = Top
    BY <1>1, <1>3, <2>2 DEF Stands, Ends
  <2> QED
    BY <2>1, <2>2, <2>3
<1>6. CASE p # "First"
  BY <1>1, <1>2, <1>4, <1>5, <1>6 DEF Remains
<1>7. CASE p = "First"
  <2>1. Help(a, p) \in ToSet(agenda) \/ ~HelpWanted(a, p)
    BY <1>1, <1>3 DEF HelpHeard, Heard
  <2>2. Help(a, p) # Head(agenda)
    BY <1>1, CallsAre
  <2>3. PICK S \in SUBSET EnvironmentOf(On) : given' = given \cup S
    BY DEF ReadEnvironment, Gives
  <2>4. ASSUME NEW x \in Apps, RulesOf[x].help \in S, OptionRules[RulesOf[x].help].priority = p
        PROVE  FALSE
    <3>1. RulesOf[x].help \in Options /\ OptionRules[RulesOf[x].help].env
      BY <1>4, <2>4, EnvironmentIs
    <3> QED
      BY <1>7, <2>4, <3>1 DEF HelpMayBeLate
  <2>5. Asking(p)' = Asking(p)
    BY <2>3, <2>4 DEF Asking
  <2>6. HelpWanted(a, p)' = HelpWanted(a, p)
    BY <1>1, <2>5, SameWanted
  <2> QED
    BY <1>1, <1>2, <1>3, <2>1, <2>2, <2>6
<1> QED
  BY <1>6, <1>7

LEMMA StepHeard == InOrder /\ HelpHeard /\ [Next]_vars => HelpHeard'
<1> SUFFICES ASSUME InOrder, HelpHeard, [Next]_vars PROVE HelpHeard'
  OBVIOUS
<1>1. CASE \/ \E o \in Options : GiveOption(o)
           \/ \E s \in Names : BeginSubcommand(s)
           \/ EndSubcommand \/ EndLine \/ Leave
  BY <1>1, LineHeard
<1>2. CASE ReadFile \/ CloseSection \/ SetOption \/ OpenSection
  BY <1>2, SourcesHeard
<1>3. CASE Simple
  BY <1>3, SimpleHeard
<1>4. CASE RunCallback \/ RunCallbacks
  BY <1>4, PushesHeard
<1>5. CASE ReadEnvironment
  BY <1>5, EnvironmentHeard
<1>6. CASE UNCHANGED vars
  <2>1. agenda' = agenda /\ given' = given /\ line' = line /\ listed' = listed
    BY <1>6 DEF vars
  <2>2. \A p, a : HelpWanted(a, p)' = HelpWanted(a, p)
    BY <2>1, SameWanted, SameAsking
  <2> QED
    BY <2>1, <2>2 DEF HelpHeard, Heard, Concludes, Completes, HelpMayBeLate
<1> QED
  BY <1>1, <1>2, <1>3, <1>4, <1>5, <1>6 DEF Next, Call, Simple

LEMMA HelpAlwaysHeard == Spec => []HelpHeard
<1>1. Init => HelpHeard
  BY NoCall DEF Init, HelpHeard
<1> QED
  BY <1>1, StepHeard, CallsInOrder, PTL DEF Spec

-----------------------------------------------------------------------------
(* How parse ends, and what the program sees of it.                        *)

LEMMA NothingAfterwards == status # "parsing" /\ [Next]_vars => UNCHANGED vars
<1>1. Call => status = "parsing"
  BY DEF Call, Leave, RunCallbacks, Deliver, LookForHelp, ReadFile, FileUnreadable, SetOption,
         OpenSection, CloseSection, ReadEnvironment, CheckRequirements, Rethrow, CheckExtras,
         RunCallback, Completed, FinalCallback, ParseReturns, Next_
<1>2. Next => Call \/ status = "parsing"
  BY DEF Next, GiveOption, BeginSubcommand, EndSubcommand, EndLine, Reading
<1> QED
  BY <1>1, <1>2

LEMMA LastCall ==
    /\ Next /\ status' = "done" => ParseReturns
    /\ Next /\ status' = "FileError" => Rethrow
<1>1. Next => \/ status = "parsing" /\ status' = "parsing"
              \/ Deliver \/ LookForHelp \/ CheckRequirements \/ Rethrow \/ Completed
              \/ FinalCallback \/ ParseReturns
  <2>1. \A o \in Options : GiveOption(o) => status = "parsing" /\ status' = "parsing"
    BY DEF GiveOption, Reading
  <2>2. \A s \in Names : BeginSubcommand(s) => status = "parsing" /\ status' = "parsing"
    BY DEF BeginSubcommand, Reading
  <2>3. EndSubcommand \/ EndLine => status = "parsing" /\ status' = "parsing"
    BY DEF EndSubcommand, EndLine, Reading
  <2>4. \/ Leave \/ RunCallbacks \/ ReadFile \/ FileUnreadable \/ SetOption \/ OpenSection
        \/ CloseSection \/ ReadEnvironment \/ CheckExtras \/ RunCallback
        => status = "parsing" /\ status' = "parsing"
    BY DEF Leave, RunCallbacks, ReadFile, FileUnreadable, SetOption, OpenSection,
           CloseSection, ReadEnvironment, CheckExtras, RunCallback, Next_
  <2> QED
    BY <2>1, <2>2, <2>3, <2>4 DEF Next, Call
<1>2. \/ Deliver \/ LookForHelp \/ CheckRequirements \/ Completed \/ FinalCallback
      => status' \in {"parsing", "CallbackError", "CallForHelp", "RequirementError"}
  BY DEF Deliver, LookForHelp, CheckRequirements, Completed, FinalCallback, Next_, Throw
<1>3. Rethrow => status' \in {"parsing", "FileError"}
  BY DEF Rethrow, Next_, Throw
<1>4. ParseReturns => status' = "done"
  BY DEF ParseReturns
<1> QED
  BY <1>1, <1>2, <1>3, <1>4

\* What is still to come when parse returns, or throws an error it has kept.
LEMMA LittleLeft ==
    ASSUME InOrder, agenda # <<>>, Head(agenda).do \in {"return", "rethrow"},
           NEW o \in Options, ToCome(o)
    PROVE  Head(agenda).do = "rethrow" /\ OptionRules[o].priority \in {"LastPreHelp", "Last"}
<1>1. /\ Stands(Head(agenda)) /\ Behind(Head(agenda), ToSet(Tail(agenda)))
      /\ ToSet(agenda) = {Head(agenda)} \cup ToSet(Tail(agenda))
  BY Taken
<1>2. line = <<>>
  BY <1>1 DEF Stands
<1>3. Station[Owner(o)] \notin ToSet(line)
  BY <1>2, NoCall
<1>4. PICK c \in ToSet(agenda) :
        c = Do("deliver", o) \/ c = Round(Station[Owner(o)], OptionRules[o].priority)
  BY <1>3 DEF ToCome
<1>5. \/ c.do = "deliver"
      \/ c.do = "callbacks" /\ c.priority = OptionRules[o].priority
  BY <1>4, CallsAre
<1>6. c \in ToSet(Tail(agenda))
  BY <1>1, <1>4, <1>5
<1>7. Head(agenda).do = "rethrow"
  BY <1>1, <1>6 DEF Behind
<1> QED
  BY <1>1, <1>5, <1>6, <1>7 DEF Behind

\* When parse returns, every option that got a value, from the command line, a
\* file or the environment, in whatever App, has had its callback run on it,
\* but for those that Missable names.  Until then each of them is due on the
\* agenda, or in a round that is to come, or its station has not ended yet.
THEOREM OptionsAllDelivered == Spec => []EveryOptionDelivered
<1>1. Init => EveryOptionDelivered
  BY DEF Init, EveryOptionDelivered, IsDone
<1>2. InOrder /\ NoneMissed /\ EveryOptionDelivered /\ [Next]_vars => EveryOptionDelivered'
  <2> SUFFICES ASSUME InOrder, NoneMissed, EveryOptionDelivered, [Next]_vars, status' = "done",
                      NEW o \in given', o \notin delivered', ~Missable(o)
               PROVE  FALSE
    BY DEF EveryOptionDelivered, IsDone, Missable, Completes, IsFlag
  <2>1. CASE UNCHANGED vars
    BY <2>1 DEF EveryOptionDelivered, IsDone, vars
  <2>2. CASE Next
    <3>1. ParseReturns
      BY <2>2, LastCall
    <3>2. /\ agenda # <<>> /\ Head(agenda).do = "return" /\ status = "parsing"
          /\ o \in given \ delivered
      BY <3>1 DEF ParseReturns, Next_
    <3>3. o \in Options
      BY <3>2 DEF InOrder, TypeOK
    <3>4. ToCome(o)
      BY <3>2 DEF NoneMissed
    <3> QED
      BY <3>2, <3>3, <3>4, LittleLeft
  <2> QED
    BY <2>1, <2>2
<1> QED
  BY <1>1, <1>2, CallsInOrder, NoneEverMissed, PTL DEF Spec

\* The parse_complete_callback of a subcommand sees its options and those of
\* its groups delivered, its requirements met and, on the command line, nobody
\* asking for help: its rounds, the check of its requirements and the looks for
\* help stand before its end on the agenda, and none behind it.
THEOREM CompletionsSeeOptions == Spec => []CompletionSeesOptions
<1>1. InOrder /\ NoneMissed /\ RequirementsMet /\ HelpHeard => CompletionSeesOptions
  <2> SUFFICES ASSUME InOrder, NoneMissed, RequirementsMet, HelpHeard, agenda # <<>>,
                      Head(agenda).do = "completed", Completes(On)
               PROVE  /\ \A o \in given : o \in OptionsOf(Counted[On]) =>
                                    o \in delivered \/ Missable(o)
                      /\ Satisfied(On)
                      /\ line # <<>> => \A p \in DOMAIN PreHelp :
                                    HelpWanted(On, p) => HelpMayBeLate(p)
    BY DEF CompletionSeesOptions
  <2>1. /\ Head(agenda) \in Calls /\ Stands(Head(agenda)) /\ Head(agenda).on = On
        /\ Behind(Head(agenda), ToSet(Tail(agenda)))
        /\ ToSet(agenda) = {Head(agenda)} \cup ToSet(Tail(agenda))
    BY Taken DEF On
  <2>2. On \in Apps /\ Ends(On)
    BY <2>1, CallsAre DEF Ends
  <2>3. \A d \in ToSet(agenda) :
            d.do # "deliver" /\ (d.do \in {"callbacks", "requirements", "help"} => d.on # On)
    BY <2>1, <2>2 DEF Behind
  <2>4. status = "parsing"
    BY DEF InOrder
  <2>5. Satisfied(On)
    <3>1. Awaits(Head(agenda), On)
      BY <2>1 DEF Awaits
    <3>2. Do("requirements", On) \notin ToSet(agenda)
      BY <2>3, CallsAre
    <3> QED
      BY <2>1, <2>2, <3>1, <3>2 DEF RequirementsMet
  <2>6. ASSUME NEW o \in given, o \in OptionsOf(Counted[On]), o \notin delivered, ~Missable(o)
        PROVE  FALSE
    <3>1. PICK x \in Counted[On] : o \in Own(x)
      BY <2>6 DEF OptionsOf, Own
    <3>2. x \in Apps
      BY <2>2, <3>1, CountedIs
    <3>3. Owner(o) = x
      BY <3>1, <3>2, Owners
    <3>4. Station[Owner(o)] = On
      BY <2>2, <3>1, <3>2, <3>3, StationOfGroups, StationIs
    <3>5. ToCome(o)
      BY <2>4, <2>6 DEF NoneMissed
    <3>6. /\ Do("deliver", o) \notin ToSet(agenda)
          /\ Round(On, OptionRules[o].priority) \notin ToSet(agenda)
      BY <2>3, CallsAre
    <3>7. On \in ToSet(line) /\ On # Top
      BY <3>4, <3>5, <3>6 DEF ToCome
    <3>8. line # <<>>
      BY <3>7, NoCall
    <3> QED
      BY <2>1, <2>2, <3>7, <3>8 DEF Stands
  <2>7. ASSUME line # <<>>, NEW p \in DOMAIN PreHelp, HelpWanted(On, p)
        PROVE  HelpMayBeLate(p)
    <3>1. Concludes(Head(agenda), On) /\ Head(agenda) \in ToSet(agenda)
      BY <2>1 DEF Concludes
    <3>2. Help(On, p) \notin ToSet(agenda)
      BY <2>3, CallsAre
    <3> QED
      BY <2>2, <2>7, <3>1, <3>2 DEF HelpHeard, Heard
  <2> QED
    BY <2>5, <2>6, <2>7
<1> QED
  BY <1>1, CallsInOrder, NoneEverMissed, RequirementsAlwaysMet, HelpAlwaysHeard, PTL

\* An unreadable file is the last of errors to be reported: when it is thrown,
\* the root's requirements have been found met and every option has been
\* delivered whose priority is not the last.
THEOREM FileErrorsComeLast == Spec => []FileErrorComesLast
<1>1. Init => FileErrorComesLast
  BY DEF Init, FileErrorComesLast
<1>2. InOrder /\ NoneMissed /\ RequirementsMet /\ FileErrorComesLast /\ [Next]_vars
        => FileErrorComesLast'
  <2> SUFFICES ASSUME InOrder, NoneMissed, RequirementsMet, FileErrorComesLast, [Next]_vars,
                      status' = "FileError"
               PROVE  /\ Satisfied(Root)'
                      /\ \A o \in given' :
                            \/ o \in delivered' \/ Missable(o)
                            \/ OptionRules[o].priority \in {"LastPreHelp", "Last"}
    BY DEF FileErrorComesLast, Missable, Completes, IsFlag
  <2>1. CASE UNCHANGED vars
    <3>1. /\ status = "FileError" /\ given' = given /\ delivered' = delivered
          /\ parsed' = parsed /\ listed' = listed
      BY <2>1 DEF vars
    <3>2. Satisfied(Root)' = Satisfied(Root)
      BY <3>1, SameSatisfied
    <3> QED
      BY <3>1, <3>2 DEF FileErrorComesLast
  <2>2. CASE Next
    <3>1. Rethrow
      BY <2>2, LastCall
    <3>2. /\ agenda # <<>> /\ Head(agenda).do = "rethrow" /\ status = "parsing"
          /\ given' = given /\ delivered' = delivered /\ parsed' = parsed /\ listed' = listed
      BY <3>1 DEF Rethrow, Next_
    <3>3. /\ ToSet(agenda) = {Head(agenda)} \cup ToSet(Tail(agenda))
          /\ \A d \in ToSet(Tail(agenda)) : d.do # "requirements"
      BY <3>2, Taken DEF Behind
    <3>4. Do("requirements", Root) \notin ToSet(agenda)
      BY <3>2, <3>3, CallsAre
    <3>5. Satisfied(Root)
      <4>1. Awaits(Head(agenda), Root)
        BY <3>2 DEF Awaits
      <4> QED
        BY <3>3, <3>4, <4>1, TreeTypes DEF RequirementsMet
    <3>6. Satisfied(Root)' = Satisfied(Root)
      BY <3>2, SameSatisfied
    <3>7. ASSUME NEW o \in given, o \notin delivered, ~Missable(o)
          PROVE  OptionRules[o].priority \in {"LastPreHelp", "Last"}
      <4>1. o \in Options
        BY DEF InOrder, TypeOK
      <4>2. ToCome(o)
        BY <3>2, <3>7 DEF NoneMissed
      <4> QED
        BY <3>2, <4>1, <4>2, LittleLeft
    <3> QED
      BY <3>2, <3>5, <3>6, <3>7
  <2> QED
    BY <2>1, <2>2
<1> QED
  BY <1>1, <1>2, CallsInOrder, NoneEverMissed, RequirementsAlwaysMet, PTL DEF Spec

-----------------------------------------------------------------------------
(* Each final callback runs once.                                         *)

\* What one element of s calls once, and no other calls.
LEMMA EachHeldOnce ==
    ASSUME NEW S, NEW s \in Seq(S), NEW T, NEW C, NEW calls, NEW c, NEW x \in T,
           \A y \in S \cap T : calls[y] \in Seq(C),
           HeldOnce(s, x), HeldOnce(calls[x], c),
           \A y \in ToSet(s) \cap T : y # x => c \notin ToSet(calls[y])
    PROVE  HeldOnce(Each(s, T, calls), c)
<1> DEFINE q == [i \in DOMAIN s |-> IF s[i] \in T THEN calls[s[i]] ELSE <<>>]
<1>1. DOMAIN s = 1..Len(s) /\ Len(s) \in Nat /\ \A i \in DOMAIN s : s[i] \in S
  OBVIOUS
<1>2. q \in Seq(Seq(C)) /\ DOMAIN q = DOMAIN s
  <2>1. \A i \in 1..Len(s) : q[i] \in Seq(C)
    BY <1>1
  <2> QED
    BY <1>1, <2>1
<1>3. PICK k \in DOMAIN s : s[k] = x /\ \A j \in DOMAIN s : s[j] = x => j = k
  BY DEF HeldOnce
<1>4. k \in DOMAIN q /\ q[k] = calls[x]
  BY <1>3
<1>5. ASSUME NEW j \in DOMAIN q, j # k PROVE c \notin ToSet(q[j])
  <2>1. s[j] # x /\ s[j] \in ToSet(s)
    BY <1>3, <1>5 DEF ToSet
  <2>2. CASE s[j] \in T
    BY <2>1, <2>2
  <2>3. CASE s[j] \notin T
    <3>1. q[j] = <<>>
      BY <2>3
    <3> HIDE DEF q
    <3> QED
      BY <3>1 DEF ToSet
  <2> QED
    BY <2>2, <2>3
<1> HIDE DEF q
<1>6. HeldOnce(FlattenSeq(q), c)
  BY <1>2, <1>4, <1>5, FlattenHeldOnce
<1>7. Each(s, T, calls) = FlattenSeq(q)
  BY DEF Each, q
<1> QED
  BY <1>6, <1>7

\* The Apps above one, and their order.
LEMMA Ancestors ==
    \A a \in Apps : \A x \in Lineage[a] :
        /\ x \in Apps /\ x # Root /\ x \in Lineage[x]
        /\ Lineage[x] \subseteq Lineage[a] /\ x \notin Lineage[Parent(x)]
<1> DEFINE Good == { a \in Apps : \A x \in Lineage[a] : x # Root /\ Lineage[x] \subseteq Lineage[a] }
<1>1. Good \in SUBSET Apps /\ \A a \in Apps : Above[a] \subseteq Good => a \in Good
  <2> SUFFICES ASSUME NEW a \in Apps, Above[a] \subseteq Good, NEW x \in Lineage[a]
               PROVE  x # Root /\ Lineage[x] \subseteq Lineage[a]
    OBVIOUS
  <2>1. a # Root
    BY LineageIs
  <2>2. Parent(a) \in Good
    BY <2>1, Parents DEF Above
  <2>3. Lineage[a] = {a} \cup Lineage[Parent(a)]
    BY <2>1, LineageIs
  <2> QED
    BY <2>1, <2>2, <2>3
<1> HIDE DEF Good
<1>2. Good = Apps
  BY <1>1, UpInduction
<1>3. \A a \in Apps : \A x \in Lineage[a] : x \in Apps /\ x # Root /\ Lineage[x] \subseteq Lineage[a]
  BY <1>2, LineageIs DEF Good
<1> DEFINE Fine == { a \in Apps : a # Root => a \notin Lineage[Parent(a)] }
<1>4. Fine \in SUBSET Apps /\ \A a \in Apps : Above[a] \subseteq Fine => a \in Fine
  <2> SUFFICES ASSUME NEW a \in Apps, Above[a] \subseteq Fine, a # Root, a \in Lineage[Parent(a)]
               PROVE  FALSE
    OBVIOUS
  <2>1. Parent(a) \in Apps /\ Parent(a) # Root /\ Parent(a) \in Fine
    BY Parents, LineageIs DEF Above
  <2>2. Parent(a) \notin Lineage[Parent(Parent(a))]
    BY <2>1
  <2>3. Lineage[a] \subseteq Lineage[Parent(a)] /\ Parent(a) \in Lineage[a]
    BY <1>3, <2>1, LineageIs
  <2>4. CASE a = Parent(a)
    <3>1. \A T \in SUBSET Apps : T # {} => \E b \in T : AppOf[b].parent \notin T
      BY TreeAssumption
    <3>2. {a} \in SUBSET Apps /\ {a} # {}
      OBVIOUS
    <3>3. \E b \in {a} : AppOf[b].parent \notin {a}
      BY ONLY <3>1, <3>2
    <3> QED
      BY <2>4, <3>3 DEF Parent
  <2>5. CASE a # Parent(a)
    <3>1. a \in Lineage[Parent(Parent(a))]
      BY <2>1, <2>5, LineageIs
    <3>2. Parent(Parent(a)) \in Apps
      BY <2>1, Parents
    <3>3. Parent(a) \in Lineage[Parent(Parent(a))]
      BY <1>3, <2>3, <3>1, <3>2
    <3> QED
      BY <2>2, <3>3
  <2> QED
    BY <2>4, <2>5
<1> HIDE DEF Fine
<1>5. Fine = Apps
  BY <1>4, UpInduction
<1> QED
  BY <1>3, <1>5, LineageIs DEF Fine

\* One subcommand of each App above a leads to it.
LEMMA OneWayDown ==
    \A a \in Apps :
        /\ \A s \in Lineage[a], t \in Lineage[a] : Parent(s) = Parent(t) => s = t
        /\ \A x \in Lineage[a] \cup {Root} : x # a =>
                x \in Apps /\ \E s \in Subs(x) : s \in Lineage[a]
        /\ \A s \in Subs(a) : s \notin Lineage[a]
<1> DEFINE Good == { a \in Apps :
                \A s \in Lineage[a], t \in Lineage[a] : Parent(s) = Parent(t) => s = t }
<1>1. Good \in SUBSET Apps /\ \A a \in Apps : Above[a] \subseteq Good => a \in Good
  <2> SUFFICES ASSUME NEW a \in Apps, Above[a] \subseteq Good, NEW s \in Lineage[a],
                      NEW t \in Lineage[a], Parent(s) = Parent(t)
               PROVE  s = t
    OBVIOUS
  <2>1. a # Root /\ Lineage[a] = {a} \cup Lineage[Parent(a)]
    BY LineageIs
  <2>2. Parent(a) \in Good /\ Parent(a) \in Apps
    BY <2>1, Parents DEF Above
  <2>3. ASSUME NEW u \in Lineage[Parent(a)], Parent(u) = Parent(a) PROVE FALSE
    <3>1. u \in Apps /\ u # Root /\ u \notin Lineage[Parent(u)]
      BY <2>2, Ancestors
    <3> QED
      BY <2>3, <3>1
  <2> QED
    BY <2>1, <2>2, <2>3
<1> HIDE DEF Good
<1>2. Good = Apps
  BY <1>1, UpInduction
<1> DEFINE Fine == { a \in Apps : \A x \in Lineage[a] \cup {Root} : x # a =>
                \E s \in Subs(x) : s \in Lineage[a] }
<1>3. Fine \in SUBSET Apps /\ \A a \in Apps : Above[a] \subseteq Fine => a \in Fine
  <2> SUFFICES ASSUME NEW a \in Apps, Above[a] \subseteq Fine,
                      NEW x \in Lineage[a] \cup {Root}, x # a
               PROVE  \E s \in Subs(x) : s \in Lineage[a]
    OBVIOUS
  <2>1. a # Root /\ Lineage[a] = {a} \cup Lineage[Parent(a)]
    BY LineageIs
  <2>2. Parent(a) \in Fine /\ Parent(a) \in Apps /\ a \in Subs(Parent(a))
    BY <2>1, Parents DEF Above
  <2>3. x = Parent(a) \/ x \in Lineage[Parent(a)] \cup {Root}
    BY <2>1
  <2> QED
    BY <2>1, <2>2, <2>3
<1> HIDE DEF Fine
<1>4. Fine = Apps
  BY <1>3, UpInduction
<1>5. ASSUME NEW a \in Apps, NEW s \in Subs(a), s \in Lineage[a] PROVE FALSE
  <2>1. s \in Apps /\ Parent(s) = a /\ s # Root
    BY Parents
  <2>2. s \notin Lineage[a]
    BY <1>5, <2>1, Ancestors
  <2> QED
    BY <1>5, <2>2
<1> QED
  BY <1>2, <1>4, <1>5, LineageIs, TreeTypes DEF Good, Fine

\* Whoever is above someone used is used.
LEMMA UsedAlong == \A a \in Apps : Used(a) => \A b \in Lineage[a] : Used(b)
<1> DEFINE Good == { a \in Apps : Used(a) => \A b \in Lineage[a] : Used(b) }
<1>1. Good \in SUBSET Apps /\ \A a \in Apps : Above[a] \subseteq Good => a \in Good
  <2> SUFFICES ASSUME NEW a \in Apps, Above[a] \subseteq Good, Used(a), NEW b \in Lineage[a]
               PROVE  Used(b)
    OBVIOUS
  <2>1. a # Root /\ Lineage[a] = {a} \cup Lineage[Parent(a)]
    BY LineageIs
  <2>2. Parent(a) \in Good /\ Used(Parent(a))
    BY <2>1, Parents, UsedUpward DEF Above
  <2> QED
    BY <2>1, <2>2
<1> HIDE DEF Good
<1>2. Good = Apps
  BY <1>1, UpInduction
<1> QED
  BY <1>2 DEF Good

\* What run_callback asks of an App, and of the way to it.
Wanted(a) == RulesOf[a].final /\ parsed[a] > 0 /\ (IsGroup(a) => Used(a))
ListedAlong(S) == \A b \in S : ~IsGroup(b) => b \in ToSet(listed[Parent(b)])
Expected(a) == Wanted(a) /\ ListedAlong(Lineage[a])

\* The final callbacks of one on the way to a.
LEMMA FinalsBelow ==
    ASSUME TypeOK, NEW a \in Apps, \A b \in Lineage[a] : ~ListedTwice(b),
           NEW x \in Lineage[a] \cup {Root}
    PROVE  IF Wanted(a) /\ ListedAlong(Lineage[a] \ Lineage[x])
           THEN HeldOnce(Finals(x), Do("final", a))
           ELSE Do("final", a) \notin ToSet(Finals(x))
<1> DEFINE f == Do("final", a)
           Comes(y) == Wanted(a) /\ ListedAlong(Lineage[a] \ Lineage[y])
           Right(y) == IF Comes(y) THEN HeldOnce(Finals(y), f) ELSE f \notin ToSet(Finals(y))
           Good == { y \in Apps : y \in Lineage[a] \cup {Root} => Right(y) }
<1>1. /\ \A y \in Apps : listed[y] \in Seq(Names)
      /\ f \in Calls /\ f.on = a
  BY CallsMade, CallsAre DEF TypeOK
<1>2. PICK g : g = [y \in Apps |-> Finals(y)]
  OBVIOUS
<1>3. \A y \in Apps : g[y] = Finals(y) /\ g[y] \in Seq(Calls) /\ Finals(y) = FinalsFrom(g, y)
  BY <1>1, <1>2, FinalsUnfold, FinalsAre
<1>4. ASSUME NEW s \in Apps, s # Root, s \notin Lineage[a] PROVE f \notin ToSet(g[s])
  <2>1. \A k \in ToSet(Finals(s)) : Lineage[s] \subseteq Lineage[k.on]
    BY <1>1, FinalsAre
  <2>2. s \in Lineage[s]
    BY <1>4, LineageIs
  <2> QED
    BY <1>1, <1>3, <1>4, <2>1, <2>2
<1>5. Wanted(a) => \A b \in Lineage[a] : Used(b)
  <2>1. Wanted(a) => Used(a)
    BY UsedIs DEF Wanted
  <2> QED
    BY <2>1, UsedAlong
<1> HIDE DEF f
<1>6. ASSUME NEW y \in Apps, Below[y] \subseteq Good, y \in Lineage[a] \cup {Root} PROVE Right(y)
  <2> DEFINE A == Each(listed[y], Subs(y), g)
             B == Each(AppOf[y].subs, UsedGroups(y), g)
  <2>1. \A s \in Subs(y) : s \in Apps /\ Parent(s) = y /\ s # Root /\ g[s] \in Seq(Calls)
    BY <1>3, Parents
  <2>2. /\ A \in Seq(Calls) /\ B \in Seq(Calls)
        /\ ToSet(A) = UNION { ToSet(g[s]) : s \in ToSet(listed[y]) \cap Subs(y) }
        /\ ToSet(B) = UNION { ToSet(g[s]) : s \in UsedGroups(y) }
        /\ ToSet(FinalsFrom(g, y)) = ToSet(A) \cup ToSet(B) \cup ToSet(LastFinal(y))
    BY <1>1, <2>1, FinalsFromAre
  <2>3. Finals(y) = (A \o B) \o LastFinal(y) /\ LastFinal(y) \in Seq(Calls)
    BY <1>3, LastFinalIs DEF FinalsFrom
  <2>4. A \o B \in Seq(Calls) /\ ToSet(A \o B) = ToSet(A) \cup ToSet(B)
    BY <2>2, CallsJoined
  <2>5. ToSet(Finals(y)) = ToSet(A) \cup ToSet(B) \cup ToSet(LastFinal(y))
    BY <1>3, <2>2
  <2> HIDE DEF A, B
  <2>6. CASE y = a
    <3>1. \A s \in Subs(y) : f \notin ToSet(g[s])
      BY <1>4, <2>1, <2>6, OneWayDown
    <3>2. f \notin ToSet(A) /\ f \notin ToSet(B)
      BY <2>2, <3>1 DEF UsedGroups
    <3>3. Comes(y) <=> Wanted(a)
      BY <2>6 DEF ListedAlong
    <3>4. CASE Wanted(a)
      <4>1. LastFinal(y) = <<f>>
        BY <2>6, <3>4 DEF LastFinal, Wanted, f
      <4>2. HeldOnce(<<f>>, f)
        BY DEF HeldOnce
      <4>3. HeldOnce((A \o B) \o LastFinal(y), f)
        BY <2>3, <2>4, <3>2, <4>1, <4>2, HeldOnceJoined
      <4> QED
        BY <2>3, <3>3, <3>4, <4>3
    <3>5. CASE ~Wanted(a)
      <4>1. LastFinal(y) = <<>>
        BY <2>6, <3>5 DEF LastFinal, Wanted
      <4> QED
        BY <2>5, <3>2, <3>3, <3>5, <4>1, NoCall
    <3> QED
      BY <3>4, <3>5
  <2>7. CASE y # a
    <3>1. f \notin ToSet(LastFinal(y))
      <4>1. Do("final", y).on = y
        BY CallsAre
      <4> QED
        BY <1>1, <2>7, <4>1, LastFinalIs DEF f
    <3>2. PICK s \in Subs(y) : s \in Lineage[a]
      BY <1>6, <2>7, OneWayDown
    <3>3. /\ s \in Apps /\ Parent(s) = y /\ s \in Good
          /\ s \notin Lineage[y] /\ Lineage[s] = {s} \cup Lineage[y]
      BY <1>6, <2>1, <3>2, Ancestors, LineageIs DEF Below
    <3>4. Right(s)
      BY <3>2, <3>3
    <3>5. \A t \in Subs(y) : t # s => f \notin ToSet(g[t])
      BY <1>4, <2>1, <3>2, OneWayDown
    <3>6. Comes(y) <=> Comes(s) /\ (~IsGroup(s) => s \in ToSet(listed[y]))
      <4>1. Lineage[a] \ Lineage[y] = (Lineage[a] \ Lineage[s]) \cup {s}
        BY <3>2, <3>3
      <4> QED
        BY <3>3, <4>1 DEF ListedAlong
    <3> HIDE DEF Good, Right
    <3>7. IF Comes(s) THEN HeldOnce(g[s], f) ELSE f \notin ToSet(g[s])
      BY <1>3, <3>3, <3>4 DEF Right
    <3> HIDE DEF Comes
    <3>8. CASE IsGroup(s)
      <4>1. s \notin ToSet(listed[y])
        <5>1. \A l \in Seq(Names) : \A n \in ToSet(l) : n \in Names
          BY DEF ToSet
        <5>2. \A n \in ToSet(listed[y]) : n \in Names
          BY <1>1, <1>6, <5>1
        <5> QED
          BY <3>8, <5>2 DEF Names, IsGroup
      <4>2. f \notin ToSet(A)
        BY <2>2, <3>5, <4>1
      <4>3. CASE Comes(s)
        <5>1. s \in UsedGroups(y)
          BY <1>5, <3>2, <3>8, <4>3 DEF UsedGroups, Comes
        <5>2. AppOf[y].subs \in Seq(Apps)
          BY <1>6, TreeTypes
        <5>3. HeldOnce(AppOf[y].subs, s)
          <6>1. IsInjective(AppOf[y].subs)
            BY TreeAssumption
          <6>2. PICK i \in DOMAIN AppOf[y].subs : AppOf[y].subs[i] = s
            BY <3>2 DEF Subs, ToSet
          <6> QED
            BY <6>1, <6>2 DEF HeldOnce, IsInjective
        <5>4. \A t \in ToSet(AppOf[y].subs) \cap UsedGroups(y) : t # s => f \notin ToSet(g[t])
          BY <3>5 DEF UsedGroups
        <5>5. \A t \in Apps \cap UsedGroups(y) : g[t] \in Seq(Calls)
          BY <1>3
        <5>6. HeldOnce(B, f)
          BY <3>7, <4>3, <5>1, <5>2, <5>3, <5>4, <5>5, EachHeldOnce DEF B
        <5>7. HeldOnce((A \o B) \o LastFinal(y), f)
          <6>1. HeldOnce(A \o B, f)
            BY <2>2, <4>2, <5>6, HeldOnceJoined
          <6> QED
            BY <2>3, <2>4, <3>1, <6>1, HeldOnceJoined
        <5> QED
          BY <2>3, <3>6, <3>8, <4>3, <5>7 DEF Right
      <4>4. CASE ~Comes(s)
        <5>1. f \notin ToSet(B)
          BY <2>2, <3>5, <3>7, <4>4 DEF UsedGroups
        <5> QED
          BY <2>5, <3>1, <3>6, <4>2, <4>4, <5>1 DEF Right
      <4> QED
        BY <4>3, <4>4
    <3>9. CASE ~IsGroup(s)
      <4>1. f \notin ToSet(B)
        BY <2>2, <3>5, <3>9 DEF UsedGroups
      <4>2. CASE Comes(s) /\ s \in ToSet(listed[y])
        <5>1. HeldOnce(listed[y], s)
          <6>1. ~ListedTwice(s)
            BY <3>2
          <6>2. PICK i \in DOMAIN listed[y] : listed[y][i] = s
            BY <4>2 DEF ToSet
          <6> QED
            BY <3>3, <6>1, <6>2 DEF HeldOnce, ListedTwice
        <5>2. \A t \in ToSet(listed[y]) \cap Subs(y) : t # s => f \notin ToSet(g[t])
          BY <3>5
        <5>3. \A t \in Names \cap Subs(y) : g[t] \in Seq(Calls)
          BY <2>1
        <5>4. HeldOnce(A, f)
          BY <1>1, <3>2, <3>7, <4>2, <5>1, <5>2, <5>3, EachHeldOnce DEF A
        <5>5. HeldOnce((A \o B) \o LastFinal(y), f)
          <6>1. HeldOnce(A \o B, f)
            BY <2>2, <4>1, <5>4, HeldOnceJoined
          <6> QED
            BY <2>3, <2>4, <3>1, <6>1, HeldOnceJoined
        <5> QED
          BY <2>3, <3>6, <4>2, <5>5 DEF Right
      <4>3. CASE ~(Comes(s) /\ s \in ToSet(listed[y]))
        <5>1. f \notin ToSet(A)
          BY <2>2, <3>5, <3>7, <4>3
        <5> QED
          BY <2>5, <3>1, <3>6, <3>9, <4>1, <4>3, <5>1 DEF Right
      <4> QED
        BY <4>2, <4>3
    <3> QED
      BY <3>8, <3>9 DEF Right
  <2> QED
    BY <2>6, <2>7
<1> HIDE DEF Right
<1>7. Good \in SUBSET Apps /\ \A y \in Apps : Below[y] \subseteq Good => y \in Good
  BY <1>6
<1> HIDE DEF Good
<1>8. Good = Apps
  BY <1>7, DownInduction
<1>9. x \in Apps
  BY LineageIs, TreeTypes
<1> QED
  BY <1>8, <1>9 DEF Good, Right, f

\* run_callback of the root comes once to whomever it should, and to no other.
LEMMA FinalsOnce ==
    ASSUME TypeOK, NEW a \in Apps, \A b \in Lineage[a] : ~ListedTwice(b)
    PROVE  IF Expected(a) THEN HeldOnce(Finals(Root), Do("final", a))
           ELSE Do("final", a) \notin ToSet(Finals(Root))
<1>1. Lineage[Root] = {} /\ Lineage[a] \ Lineage[Root] = Lineage[a]
  BY LineageIs, TreeTypes
<1> QED
  BY <1>1, FinalsBelow DEF Expected

\* a's final callback is yet to be reached: run_callback of the root is to come,
\* once the line has ended.
Unreached(a) ==
    /\ status = "parsing" /\ finals[a] = 0 /\ Do("final", a) \notin ToSet(agenda)
    /\ line = <<>> /\ agenda # <<>> => Run(Root, FALSE) \in ToSet(agenda)

\* run_callback of the root has put it on the agenda, if it is to run at all.
Reached(a) ==
    /\ line = <<>>
    /\ \A c \in ToSet(agenda) : c.do \in {"completed", "final", "return"}
    /\ (\A b \in Lineage[a] : ~ListedTwice(b)) =>
        \/ Expected(a) /\ finals[a] = 0 /\ HeldOnce(agenda, Do("final", a))
        \/ /\ finals[a] = IF Expected(a) THEN 1 ELSE 0
           /\ Do("final", a) \notin ToSet(agenda)

FinalsCounted ==
    status \in {"parsing", "done"} => \A a \in Apps : ~Early(a) => Unreached(a) \/ Reached(a)

LEMMA SameExpected ==
    given' = given /\ parsed' = parsed /\ listed' = listed =>
        /\ \A a : Expected(a)' <=> Expected(a)
        /\ \A b : ListedTwice(b)' <=> ListedTwice(b)
  BY SameUsed DEF Expected, Wanted, ListedAlong, ListedTwice

\* Whoever is not reached stays so while other calls are put in front.
LEMMA StillUnreached ==
    ASSUME InOrder, agenda # <<>>, NEW a \in Apps, Unreached(a), finals'[a] = finals[a],
           line' = line, status' = "parsing",
           NEW push \in Seq(Calls), agenda' = push \o Tail(agenda),
           \A c \in ToSet(push) : c.do = "final" => Early(c.on), ~Early(a),
           Head(agenda).do # "run" \/ Head(agenda).on # Root
    PROVE  Unreached(a)'
<1>1. /\ ToSet(agenda') = ToSet(push) \cup ToSet(Tail(agenda))
      /\ ToSet(agenda) = {Head(agenda)} \cup ToSet(Tail(agenda))
  BY PushKeeps, Taken
<1>2. Do("final", a).do = "final" /\ Do("final", a).on = a
  BY CallsAre
<1>3. Run(Root, FALSE).do = "run" /\ Run(Root, FALSE).on = Root
  BY RunIs
<1>4. Do("final", a) \notin ToSet(agenda')
  BY <1>1, <1>2 DEF Unreached
<1>5. line' = <<>> => Run(Root, FALSE) \in ToSet(agenda')
  <2>1. line = <<>> => Run(Root, FALSE) \in ToSet(agenda)
    BY DEF Unreached
  <2>2. Run(Root, FALSE) # Head(agenda)
    BY ONLY <1>3, Head(agenda).do # "run" \/ Head(agenda).on # Root
  <2> QED
    BY ONLY <1>1, <2>1, <2>2, line' = line
<1>6. status' = "parsing" /\ finals'[a] = 0
  BY DEF Unreached
<1> QED
  BY ONLY <1>4, <1>5, <1>6 DEF Unreached

LEMMA CompletionNotFinal ==
    \A b \in Apps, w \in BOOLEAN : \A c \in CompletionCalls(b, w) : c.do # "final"
<1> SUFFICES ASSUME NEW b \in Apps, NEW w \in BOOLEAN, NEW c \in CompletionCalls(b, w)
             PROVE  c.do # "final"
  OBVIOUS
<1>1. \/ \E p : c = Round(b, p) \/ c = Help(b, p)
      \/ c = Do("environment", b) \/ c = Do("requirements", b) \/ c = Run(b, w)
  BY DEF CompletionCalls, AllRounds, AllHelp
<1> QED
  BY <1>1, CallsAre

\* While the line is read nobody is reached.
LEMMA LineUnreached ==
    ASSUME InOrder, FinalsCounted, NEW a \in Apps, ~Early(a),
           \/ \E o \in Options : GiveOption(o)
           \/ \E s \in Names : BeginSubcommand(s)
           \/ EndSubcommand \/ EndLine \/ Leave
    PROVE  Unreached(a)'
<1>1. TypeOK /\ Rooted(line)
  BY DEF InOrder
<1>2. line # <<>> /\ status = "parsing" /\ status' = "parsing" /\ finals' = finals
  <2>1. \A o \in Options : GiveOption(o) =>
            line # <<>> /\ status = "parsing" /\ status' = status /\ finals' = finals
    BY DEF GiveOption, Reading
  <2>2. \A s \in Names : BeginSubcommand(s) =>
            line # <<>> /\ status = "parsing" /\ status' = status /\ finals' = finals
    BY DEF BeginSubcommand, Reading
  <2>3. EndSubcommand \/ EndLine =>
            line # <<>> /\ status = "parsing" /\ status' = status /\ finals' = finals
    BY DEF EndSubcommand, EndLine, Reading
  <2>4. Leave => line # <<>> /\ status = "parsing" /\ status' = status /\ finals' = finals
    BY Taken DEF Leave, Next_, Stands
  <2> QED
    BY <2>1, <2>2, <2>3, <2>4
<1>3. finals[a] = 0
  BY <1>2 DEF FinalsCounted, Unreached, Reached
<1>4. Do("final", a).do = "final"
  BY CallsAre
<1>5. CASE agenda' = <<>>
  BY <1>2, <1>3, <1>5, NoCall DEF Unreached
<1>6. CASE (\E o \in Options : GiveOption(o)) \/ (\E s \in Names : BeginSubcommand(s)) \/ Leave
  <2>1. agenda' = <<>>
    <3>1. Leave => agenda' = <<>>
      BY Taken, Emptied DEF Leave, Next_, Return, Behind
    <3> QED
      BY <1>6, <3>1 DEF GiveOption, BeginSubcommand, Reading
  <2> QED
    BY <1>5, <2>1
<1>7. CASE EndLine
  <2>1. ToSet(agenda') = ProcessCalls
    BY <1>7, ProcessIs DEF EndLine
  <2>2. Do("final", a) \notin ProcessCalls
    <3>1. Run(Root, FALSE).do = "run"
      BY RunIs
    <3>2. ASSUME NEW c \in ProcessCalls PROVE c.do # "final"
      <4>1. CASE c \in AllRounds(Root) \cup AllHelp(Root)
        BY <4>1, CallsAre DEF AllRounds, AllHelp
      <4>2. CASE c = Run(Root, FALSE)
        BY ONLY <3>1, <4>2
      <4>3. CASE c \in {Do("sources", Root), Do("requirements", Root), Do("rethrow", Root),
                        Do("extras", Root), Do("return", Root)}
        BY <4>3, CallsAre
      <4> QED
        BY <3>2, <4>1, <4>2, <4>3 DEF ProcessCalls
    <3> QED
      BY <1>4, <3>2
  <2>3. Run(Root, FALSE) \in ToSet(agenda')
    BY <2>1 DEF ProcessCalls
  <2> QED
    BY <1>2, <1>3, <2>1, <2>2, <2>3 DEF Unreached
<1>8. CASE EndSubcommand
  <2>1. /\ line' = line
        /\ agenda' = (IF AppOf[Top].completes THEN Completion(Top, TRUE) ELSE <<>>)
                        \o <<Do("leave", Top)>>
    BY <1>8 DEF EndSubcommand
  <2>2. Top \in Names /\ Top \in Apps
    BY <1>1, <1>2, <1>8, LineIs DEF Top, TypeOK, EndSubcommand
  <2>3. PICK s : s = IF AppOf[Top].completes THEN Completion(Top, TRUE) ELSE <<>>
    OBVIOUS
  <2>4. s \in Seq(Calls) /\ (ToSet(s) = CompletionCalls(Top, TRUE) \/ ToSet(s) = {})
    BY <2>2, <2>3, CompletionIs, NoCall
  <2>5. Do("leave", Top) \in Calls /\ Do("leave", Top).do = "leave"
    BY <2>2, CallsMade, CallsAre
  <2>6. <<Do("leave", Top)>> \in Seq(Calls) /\ ToSet(<<Do("leave", Top)>>) = {Do("leave", Top)}
    BY <2>5, OneCall
  <2>7. agenda' = s \o <<Do("leave", Top)>>
    BY ONLY <2>1, <2>3
  <2>8. ToSet(agenda') = ToSet(s) \cup {Do("leave", Top)}
    BY ONLY <2>4, <2>6, <2>7, CallsJoined
  <2>9. Do("final", a) \notin ToSet(agenda')
    BY <1>4, <2>2, <2>4, <2>5, <2>8, CompletionNotFinal
  <2> QED
    BY <1>2, <1>3, <2>1, <2>9 DEF Unreached
<1> QED
  BY <1>6, <1>7, <1>8

\* The calls that others put in front of the agenda, before run_callback of the
\* root is reached.
LEMMA PushesUnreached ==
    ASSUME InOrder, NEW a \in Apps, ~Early(a), Unreached(a),
           \/ ReadFile \/ CloseSection \/ RunCallbacks \/ SetOption \/ OpenSection
           \/ ReadEnvironment \/ (RunCallback /\ Head(agenda).on # Root)
    PROVE  Unreached(a)'
<1>1. /\ agenda # <<>> /\ line' = line /\ finals' = finals /\ status' = "parsing"
      /\ Head(agenda).do # "run" \/ Head(agenda).on # Root
  BY DEF ReadFile, CloseSection, RunCallback, RunCallbacks, SetOption, OpenSection,
         ReadEnvironment, Next_
<1>2. /\ Head(agenda) \in Calls /\ Tail(agenda) \in Seq(Calls)
      /\ <<>> \in Seq(Calls) /\ ToSet(<<>>) = {}
  BY <1>1, Taken, NoCall
<1>3. Tail(agenda) = <<>> \o Tail(agenda)
  BY <1>2
<1>4. \E push \in Seq(Calls) :
        /\ agenda' = push \o Tail(agenda)
        /\ \A c \in ToSet(push) : c.do = "final" => Early(c.on)
  <2>1. CASE ReadFile
    <3>1. PICK f \in Files, last \in {"environment", "unreadable"} :
            agenda' = ([i \in DOMAIN f |-> CallOf(f[i])] \o <<Do(last, Root)>>) \o Tail(agenda)
      BY <2>1 DEF ReadFile, Becomes
    <3>2. PICK u, v : u = [i \in DOMAIN f |-> CallOf(f[i])] /\ v = <<Do(last, Root)>>
      OBVIOUS
    <3>3. Do(last, Root) \in Calls /\ Do(last, Root).do = last
      BY TreeTypes, CallsMade, CallsAre
    <3>4. /\ u \in Seq(Calls) /\ v \in Seq(Calls)
          /\ \A c \in ToSet(u) : c.do \in {"open", "close", "set"}
          /\ ToSet(v) = {Do(last, Root)}
      BY <3>2, <3>3, OneCall, ItemsAre
    <3>5. /\ u \o v \in Seq(Calls) /\ agenda' = (u \o v) \o Tail(agenda)
          /\ ToSet(u \o v) = ToSet(u) \cup ToSet(v)
      BY ONLY <3>1, <3>2, <3>4, CallsJoined
    <3> QED
      BY <3>3, <3>4, <3>5
  <2>2. CASE CloseSection
    <3>1. On \in Apps
      BY <1>2, <2>2, CallsAre DEF On, Names, CloseSection, Next_
    <3>2. PICK push : push = IF RulesOf[On].configurable /\ AppOf[On].completes
                             THEN Completion(On, FALSE) ELSE <<>>
      OBVIOUS
    <3>3. push \in Seq(Calls) /\ (ToSet(push) = CompletionCalls(On, FALSE) \/ ToSet(push) = {})
      BY <3>1, <3>2, CompletionIs, NoCall
    <3>4. agenda' = push \o Tail(agenda)
      BY <2>2, <3>2 DEF CloseSection, Becomes
    <3> QED
      BY <3>1, <3>3, <3>4, CompletionNotFinal
  <2>3. CASE RunCallback /\ Head(agenda).on # Root
    <3>1. PICK u \in Seq(Calls), v \in Seq(Calls) :
            /\ agenda' = (u \o v) \o Tail(agenda)
            /\ u = <<>> \/ u = <<Do("completed", On)>>
            /\ (\A c \in ToSet(v) : Early(c.on)) \/ On = Root
      BY <2>3, RunCallbackMakes
    <3>2. On # Root /\ On \in Apps
      BY <1>2, <2>3, CallsAre DEF On, RunCallback, Next_
    <3>3. u \o v \in Seq(Calls) /\ ToSet(u \o v) = ToSet(u) \cup ToSet(v)
      BY CallsJoined
    <3>4. Do("completed", On) \in Calls /\ Do("completed", On).do = "completed"
      BY <3>2, CallsMade, CallsAre
    <3>5. ToSet(u) \subseteq {Do("completed", On)}
      BY <3>1, <3>4, OneCall, NoCall
    <3> QED
      BY <3>1, <3>2, <3>3, <3>4, <3>5
  <2>4. CASE RunCallbacks
    <3>1. On \in Apps
      BY <1>2, <2>4, CallsAre DEF On, RunCallbacks, Next_
    <3>2. PICK push : push = Callbacks(On, Head(agenda).priority)
      OBVIOUS
    <3>3. push \in Seq(Calls) /\ \A c \in ToSet(push) : Small(c)
      BY <3>1, <3>2, CallbacksIs, CallbacksAre
    <3>4. agenda' = push \o Tail(agenda)
      BY <2>4, <3>2 DEF RunCallbacks, Becomes
    <3> QED
      BY <3>3, <3>4 DEF Small
  <2>5. CASE agenda' = Tail(agenda)
    <3>1. agenda' = <<>> \o Tail(agenda)
      BY ONLY <1>3, <2>5
    <3> QED
      BY <1>2, <3>1
  <2>6. CASE (SetOption \/ OpenSection \/ ReadEnvironment) /\ agenda' # Tail(agenda)
    <3>1. SetOption
      BY <2>6 DEF OpenSection, ReadEnvironment, Return
    <3>2. PICK push : push = IF IsFlag(On) THEN <<>> ELSE <<Do("deliver", On)>>
      OBVIOUS
    <3>3. agenda' = push \o Tail(agenda)
      BY <2>6, <3>1, <3>2 DEF SetOption, Return, Becomes
    <3>4. On \in Options
      BY <1>2, <3>1, CallsAre DEF On, SetOption, Next_
    <3>5. Do("deliver", On) \in Calls /\ Do("deliver", On).do = "deliver"
      BY <3>4, CallsMade, CallsAre
    <3>6. push \in Seq(Calls) /\ ToSet(push) \subseteq {Do("deliver", On)}
      BY <3>2, <3>5, OneCall, NoCall
    <3> QED
      BY <3>3, <3>5, <3>6
  <2> QED
    BY <2>1, <2>2, <2>3, <2>4, <2>5, <2>6
<1> QED
  BY <1>1, <1>4, StillUnreached

\* run_callback of the root puts the final callback of each App in front that
\* is to run, once.
LEMMA RootReaches ==
    ASSUME InOrder, NEW a \in Apps, Unreached(a), RunCallback, Head(agenda).on = Root
    PROVE  Reached(a)'
<1>1. /\ TypeOK /\ agenda # <<>> /\ Head(agenda).do = "run" /\ On = Root
      /\ line' = line /\ parsed' = parsed /\ listed' = listed /\ given' = given
      /\ finals' = finals /\ finals[a] = 0
      /\ Do("final", a) \notin ToSet(agenda)
  BY DEF InOrder, RunCallback, Next_, On, Unreached
<1> DEFINE T == ToSet(Tail(agenda))
<1>2. /\ Head(agenda) \in Calls /\ Tail(agenda) \in Seq(Calls) /\ Stands(Head(agenda))
      /\ Behind(Head(agenda), T) /\ ToSet(agenda) = {Head(agenda)} \cup T
  BY <1>1, Taken
<1> HIDE DEF T
<1>3. \A d \in T : d.do \in {"final", "return"}
  BY <1>1, <1>2 DEF Behind, Final
<1>4. line = <<>>
  BY <1>1, <1>2 DEF Stands, Ends
<1>5. Head(agenda) = Run(Root, FALSE)
  <2>1. Run(Root, FALSE) \in ToSet(agenda)
    BY <1>1, <1>4 DEF Unreached
  <2>2. Run(Root, FALSE).do = "run"
    BY RunIs
  <2>3. Run(Root, FALSE) \notin T
    BY ONLY <1>3, <2>2
  <2> QED
    BY <1>2, <2>1, <2>3
<1>6. ~Head(agenda).quiet
  BY <1>5 DEF Run
<1>7. PICK u : u = IF AppOf[Root].completes THEN <<Do("completed", Root)>> ELSE <<>>
  OBVIOUS
<1>8. agenda' = (u \o Finals(Root)) \o Tail(agenda)
  BY <1>1, <1>6, <1>7 DEF RunCallback, Becomes
<1>9. Do("completed", Root) \in Calls /\ Do("completed", Root).do = "completed" /\ Root \in Apps
  BY TreeTypes, CallsMade, CallsAre
<1>10. u \in Seq(Calls) /\ ToSet(u) \subseteq {Do("completed", Root)}
  BY <1>7, <1>9, OneCall, NoCall
<1>11. Finals(Root) \in Seq(Calls) /\ \A c \in ToSet(Finals(Root)) : c.do = "final"
  BY <1>1, <1>9, FinalsAre DEF TypeOK
<1>12. u \o Finals(Root) \in Seq(Calls) /\ ToSet(u \o Finals(Root)) = ToSet(u) \cup ToSet(Finals(Root))
  BY <1>10, <1>11, CallsJoined
<1>13. ToSet(agenda') = ToSet(u) \cup ToSet(Finals(Root)) \cup T
  BY <1>2, <1>8, <1>12, CallsJoined DEF T
<1>14. \A c \in ToSet(agenda') : c.do \in {"completed", "final", "return"}
  BY <1>3, <1>9, <1>10, <1>11, <1>13
<1>15. Do("final", a) \notin ToSet(u) /\ Do("final", a) \notin T
  <2>1. Do("final", a).do = "final"
    BY CallsAre
  <2> QED
    BY <1>1, <1>2, <1>9, <1>10, <2>1
<1>16. ASSUME \A b \in Lineage[a] : ~ListedTwice(b)
       PROVE  \/ Expected(a) /\ HeldOnce(agenda', Do("final", a))
              \/ ~Expected(a) /\ Do("final", a) \notin ToSet(agenda')
  <2>1. IF Expected(a) THEN HeldOnce(Finals(Root), Do("final", a))
        ELSE Do("final", a) \notin ToSet(Finals(Root))
    BY <1>1, <1>16, FinalsOnce
  <2>2. CASE Expected(a)
    <3>1. HeldOnce(u \o Finals(Root), Do("final", a))
      BY <1>10, <1>11, <1>15, <2>1, <2>2, HeldOnceJoined
    <3>2. HeldOnce((u \o Finals(Root)) \o Tail(agenda), Do("final", a))
      BY <1>2, <1>12, <1>15, <3>1, HeldOnceJoined DEF T
    <3> QED
      BY <1>8, <2>2, <3>2
  <2>3. CASE ~Expected(a)
    BY <1>13, <1>15, <2>1, <2>3
  <2> QED
    BY <2>2, <2>3
<1>17. /\ Expected(a)' <=> Expected(a)
       /\ \A b : ListedTwice(b)' <=> ListedTwice(b)
  BY <1>1, SameExpected
<1> QED
  BY <1>1, <1>4, <1>14, <1>16, <1>17 DEF Reached

\* The calls that take only themselves off the agenda.
LEMMA SimpleCounted ==
    ASSUME InOrder, Simple, status' \in {"parsing", "done"}, NEW a \in Apps, ~Early(a),
           Unreached(a) \/ Reached(a)
    PROVE  Unreached(a)' \/ Reached(a)'
<1>1. /\ agenda # <<>> /\ status = "parsing" /\ agenda' = Tail(agenda)
      /\ UNCHANGED <<line, given, parsed, listed>>
  <2>1. Next
    BY DEF Simple, Next, Call
  <2>2. CASE status' = "parsing"
    BY <2>2, SimpleIs
  <2>3. CASE status' = "done"
    <3>1. ParseReturns
      BY <2>1, <2>3, LastCall
    <3> QED
      BY <3>1, SimpleIs DEF ParseReturns, Return
  <2> QED
    BY <2>2, <2>3
<1>2. /\ Head(agenda) \in Calls /\ Tail(agenda) \in Seq(Calls) /\ Stands(Head(agenda))
      /\ Behind(Head(agenda), ToSet(Tail(agenda)))
      /\ ToSet(agenda) = {Head(agenda)} \cup ToSet(Tail(agenda))
  BY <1>1, Taken
<1>3. PICK f : f = Do("final", a)
  OBVIOUS
<1>4. f.do = "final" /\ f.on = a
  BY <1>3, CallsAre
<1>5. TypeOK
  BY DEF InOrder
<1>6. IF FinalCallback THEN Head(agenda).do = "final" /\ finals' = [finals EXCEPT ![On] = IF @ = 2 THEN 2 ELSE @ + 1]
      ELSE Head(agenda).do # "final" /\ finals' = finals
  <2>1. CASE FinalCallback
    BY <2>1 DEF FinalCallback, Next_, Throw
  <2>2. CASE ~FinalCallback
    BY <2>2 DEF Simple, Deliver, LookForHelp, FileUnreadable, CheckRequirements, Rethrow,
                CheckExtras, Completed, ParseReturns, Next_
  <2> QED
    BY <2>1, <2>2
<1>7. Head(agenda) = f \/ finals'[a] = finals[a]
  <2>1. CASE FinalCallback
    <3>1. Head(agenda) = Do("final", On) /\ On \in Apps
      BY <1>2, <1>6, <2>1, CallsAre DEF On
    <3> QED
      BY <1>3, <1>5, <1>6, <2>1, <3>1 DEF TypeOK
  <2>2. CASE ~FinalCallback
    BY <1>6, <2>2
  <2> QED
    BY <2>1, <2>2
<1>8. CASE Unreached(a)
  <2>1. f \notin ToSet(agenda) /\ finals[a] = 0
    BY <1>3, <1>8 DEF Unreached
  <2>2. Head(agenda).do \notin {"run", "return"}
    <3>1. Head(agenda).do # "run"
      BY DEF Simple, Deliver, LookForHelp, FileUnreadable, CheckRequirements, Rethrow,
             CheckExtras, Completed, FinalCallback, ParseReturns, Next_
    <3>2. ASSUME Head(agenda).do = "return" PROVE FALSE
      <4>1. line = <<>> /\ ToSet(Tail(agenda)) = {}
        BY <1>2, <3>2 DEF Stands, Behind
      <4>2. Run(Root, FALSE) = Head(agenda)
        BY <1>1, <1>2, <1>8, <4>1 DEF Unreached
      <4>3. Run(Root, FALSE).do = "run"
        BY RunIs
      <4> QED
        BY ONLY <3>1, <4>2, <4>3
    <3> QED
      BY <3>1, <3>2
  <2>3. status' = "parsing"
    <3>1. Next
      BY DEF Simple, Next, Call
    <3>2. status' = "done" => ParseReturns
      BY <3>1, LastCall
    <3> QED
      BY <2>2, <3>2 DEF ParseReturns, Next_
  <2>4. f \notin ToSet(agenda')
    BY <1>1, <1>2, <2>1
  <2>5. finals'[a] = 0
    BY <1>2, <1>7, <2>1
  <2>6. line' = <<>> => Run(Root, FALSE) \in ToSet(agenda')
    <3>1. Run(Root, FALSE).do = "run"
      BY RunIs
    <3>2. Run(Root, FALSE) # Head(agenda)
      BY ONLY <2>2, <3>1
    <3>3. line = <<>> => Run(Root, FALSE) \in ToSet(agenda)
      BY <1>1, <1>8 DEF Unreached
    <3> QED
      BY <1>1, <1>2, <3>2, <3>3
  <2> QED
    BY <1>3, <2>3, <2>4, <2>5, <2>6 DEF Unreached
<1>9. CASE Reached(a)
  <2>1. line' = <<>> /\ \A c \in ToSet(agenda') : c.do \in {"completed", "final", "return"}
    BY <1>1, <1>2, <1>9 DEF Reached
  <2>2. /\ Expected(a)' <=> Expected(a)
        /\ \A b : ListedTwice(b)' <=> ListedTwice(b)
    BY <1>1, SameExpected
  <2>3. ASSUME \A b \in Lineage[a] : ~ListedTwice(b)
        PROVE  \/ Expected(a) /\ finals'[a] = 0 /\ HeldOnce(agenda', f)
               \/ finals'[a] = (IF Expected(a) THEN 1 ELSE 0) /\ f \notin ToSet(agenda')
    <3>1. \/ Expected(a) /\ finals[a] = 0 /\ HeldOnce(agenda, f)
          \/ finals[a] = (IF Expected(a) THEN 1 ELSE 0) /\ f \notin ToSet(agenda)
      BY <1>3, <1>9, <2>3 DEF Reached
    <3>2. CASE f \notin ToSet(agenda)
      <4>1. ~HeldOnce(agenda, f)
        BY <3>2 DEF HeldOnce, ToSet
      <4>2. Head(agenda) # f /\ f \notin ToSet(agenda')
        BY <1>1, <1>2, <3>2
      <4> QED
        BY <1>7, <3>1, <4>1, <4>2
    <3>3. CASE Expected(a) /\ finals[a] = 0 /\ HeldOnce(agenda, f)
      <4>1. IF Head(agenda) = f THEN f \notin ToSet(Tail(agenda)) ELSE HeldOnce(Tail(agenda), f)
        BY <1>1, <1>5, <3>3, HeldOnceTaken DEF TypeOK
      <4>2. CASE Head(agenda) = f
        <5>1. FinalCallback /\ On = a
          BY <1>4, <1>6, <4>2 DEF On
        <5>2. finals'[a] = 1
          BY <1>5, <1>6, <3>3, <5>1 DEF TypeOK
        <5> QED
          BY <1>1, <3>3, <4>1, <4>2, <5>2
      <4>3. CASE Head(agenda) # f
        BY <1>1, <1>7, <3>3, <4>1, <4>3
      <4> QED
        BY <4>2, <4>3
    <3> QED
      BY <3>1, <3>2, <3>3
  <2> QED
    BY <1>3, <2>1, <2>2, <2>3 DEF Reached
<1> QED
  BY <1>8, <1>9

LEMMA StepCounted == InOrder /\ FinalsCounted /\ [Next]_vars => FinalsCounted'
<1> SUFFICES ASSUME InOrder, FinalsCounted, [Next]_vars, status' \in {"parsing", "done"},
                    NEW a \in Apps, ~Early(a)
             PROVE  Unreached(a)' \/ Reached(a)'
  BY DEF FinalsCounted, Early, EndsEarly
<1>1. CASE UNCHANGED vars
  <2>1. /\ UNCHANGED <<line, agenda, status, finals, given, parsed, listed>>
        /\ Expected(a)' <=> Expected(a)
        /\ \A b : ListedTwice(b)' <=> ListedTwice(b)
    BY <1>1, SameExpected DEF vars
  <2>2. Unreached(a) \/ Reached(a)
    BY <2>1 DEF FinalsCounted
  <2> QED
    BY <2>1, <2>2 DEF Unreached, Reached
<1>2. CASE \/ \E o \in Options : GiveOption(o)
           \/ \E s \in Names : BeginSubcommand(s)
           \/ EndSubcommand \/ EndLine \/ Leave
  BY <1>2, LineUnreached
<1>3. CASE Simple
  <2>1. status = "parsing"
    BY <1>3, SimpleIs
  <2> QED
    BY <1>3, <2>1, SimpleCounted DEF FinalsCounted
<1>4. CASE \/ ReadFile \/ CloseSection \/ RunCallbacks \/ SetOption \/ OpenSection
           \/ ReadEnvironment \/ RunCallback
  <2>1. /\ agenda # <<>> /\ status = "parsing"
        /\ Head(agenda).do \in {"sources", "close", "callbacks", "set", "open", "environment", "run"}
    BY <1>4 DEF ReadFile, CloseSection, RunCallback, RunCallbacks, SetOption, OpenSection,
                ReadEnvironment, Next_
  <2>2. Unreached(a)
    <3>1. Head(agenda) \in ToSet(agenda)
      BY <2>1, Taken
    <3> QED
      BY <2>1, <3>1 DEF FinalsCounted, Reached
  <2> QED
    BY <1>4, <2>2, PushesUnreached, RootReaches
<1> QED
  BY <1>1, <1>2, <1>3, <1>4 DEF Next, Call, Simple

LEMMA FinalsAlwaysCounted == Spec => []FinalsCounted
<1>1. Init => FinalsCounted
  <2> SUFFICES ASSUME Init, NEW a \in Apps PROVE Unreached(a)
    BY DEF FinalsCounted
  <2> QED
    BY NoCall DEF Init, Unreached
<1> QED
  BY <1>1, StepCounted, CallsInOrder, PTL DEF Spec

\* When parse returns, the final callback of every App that was used, by the
\* command line or by a section of a file, has run exactly once, and no other
\* has run, but for those that FinalTwice names: run_callback of the root comes
\* after all else, and to each of them along one way.
THEOREM FinalsRunOnce == Spec => []FinalOnce
<1>1. InOrder /\ FinalsCounted => FinalOnce
  <2> SUFFICES ASSUME InOrder, FinalsCounted, IsDone, NEW a \in Apps, ~FinalTwice(a)
               PROVE  finals[a] = IF Expected(a) THEN 1 ELSE 0
    BY DEF FinalOnce, Expected, Wanted, ListedAlong
  <2>1. status = "done" /\ agenda = <<>>
    BY DEF IsDone, InOrder
  <2>2. ~Early(a) /\ \A b \in Lineage[a] : ~ListedTwice(b)
    BY DEF FinalTwice, Early, EndsEarly
  <2>3. Reached(a)
    BY <2>1, <2>2 DEF FinalsCounted, Unreached
  <2>4. ~HeldOnce(agenda, Do("final", a))
    BY <2>1 DEF HeldOnce
  <2> QED
    BY <2>2, <2>3, <2>4 DEF Reached
<1> QED
  BY <1>1, CallsInOrder, FinalsAlwaysCounted, PTL
==============================================================================
