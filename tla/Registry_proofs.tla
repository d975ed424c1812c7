--------------------------- MODULE Registry_proofs --------------------------
(***************************************************************************)
(* Proofs about the registry, for every tree a program may build and any   *)
(* number of calls: what a call that throws leaves behind, the names in    *)
(* one list, the pointers to the special options, exclusions and the names *)
(* at one level.  Good, Bonded and Leveled are the inductive invariants;   *)
(* every operation has a lemma that keeps each of them.                    *)
(***************************************************************************)
EXTENDS Registry, Recursion_proofs

-----------------------------------------------------------------------------
(* What is set and put back.                                               *)

\* r with the App a as app, or r itself where base cannot take the names of a.
Renamed(r, a, app, base) ==
    LET new == [r EXCEPT !.app[a] = app]
    IN  IF base # Nobody /\ Taken(new, a, base) THEN Throws(r) ELSE Returns(new)

\* r with these names for Option o, or r itself where they match another's.
RenamedOption(r, o, names) ==
    IF \E p \in OptionsOf(r, r.owner[o]) \ {o} : Matches(r.opt[p], names)
    THEN Throws(r) ELSE Returns([r EXCEPT !.opt[o] = names])

\* What was pushed back is popped.
LEMMA PoppedAgain ==
    ASSUME NEW S, NEW s \in Seq(S), NEW x \in S
    PROVE  Front(Append(s, x)) = s
BY DEF Front

\* The lists of aliases.
LEMMA AliasesType ==
    /\ <<>> \in Seq(Names) /\ ToSet(<<>>) = {}
    /\ \A app \in AppType, n \in Names : Append(app.aliases, n) \in Seq(Names)
    /\ \A app \in AppType : ToSet(app.aliases) \subseteq Names
<1>1. \A s \in Seq(Names) : ToSet(s) \subseteq Names
  BY DEF ToSet
<1>2. ToSet(<<>>) = {}
  BY DEF ToSet
<1>3. \A app \in AppType : app.aliases \in Seq(Names)
  BY DEF AppType
<1>4. \A s \in Seq(Names), n \in Names : Append(s, n) \in Seq(Names)
  OBVIOUS
<1> QED
  BY <1>1, <1>2, <1>3, <1>4

\* An App put back as it was leaves the registry as it was.
LEMMA AppRestored ==
    ASSUME NEW r \in RegistryType, NEW a \in Apps, NEW app
    PROVE  /\ [r EXCEPT !.app[a] = app].app[a] = app
           /\ [[r EXCEPT !.app[a] = app] EXCEPT !.app[a] = r.app[a]] = r
BY DEF RegistryType

\* What App::name, alias, ignore_case and ignore_underscore set is put back when
\* they throw.
LEMMA SetNameRestores ==
    ASSUME NEW r \in RegistryType, NEW a \in Apps, NEW n
    PROVE  SetName(r, a, n) = Renamed(r, a, [r.app[a] EXCEPT !.name = n], LevelOf(r, a))
<1> DEFINE app == [r.app[a] EXCEPT !.name = n]
           set == [r EXCEPT !.app[a] = app]
<1>1. /\ r.app[a] \in AppType
      /\ [app EXCEPT !.name = r.app[a].name] = r.app[a]
  BY DEF RegistryType, AppType
<1>2. set.app[a] = app /\ [set EXCEPT !.app[a] = r.app[a]] = r
  BY AppRestored
<1>3. [set EXCEPT !.app[a].name = r.app[a].name] = r
  BY <1>1, <1>2
<1>4. set = [r EXCEPT !.app[a].name = n]
  OBVIOUS
<1> QED
  BY <1>3, <1>4 DEF SetName, Compared, Renamed

LEMMA AddAliasRestores ==
    ASSUME NEW r \in RegistryType, NEW a \in Apps, NEW n \in Names
    PROVE  AddAlias(r, a, n)
              = Renamed(r, a, [r.app[a] EXCEPT !.aliases = Append(@, n)], LevelOf(r, a))
<1> DEFINE app == [r.app[a] EXCEPT !.aliases = Append(@, n)]
           set == [r EXCEPT !.app[a] = app]
<1>1. r.app[a] \in AppType
  BY DEF RegistryType
<1>2. Front(Append(r.app[a].aliases, n)) = r.app[a].aliases
  BY <1>1, PoppedAgain DEF AppType
<1>3. [app EXCEPT !.aliases = Front(@)] = r.app[a]
  BY <1>1, <1>2 DEF AppType
<1>4. set.app[a] = app /\ [set EXCEPT !.app[a] = r.app[a]] = r
  BY AppRestored
<1>5. [set EXCEPT !.app[a].aliases = Front(@)] = r
  BY <1>3, <1>4
<1>6. set = [r EXCEPT !.app[a].aliases = Append(@, n)]
  OBVIOUS
<1> QED
  BY <1>5, <1>6 DEF AddAlias, Compared, Renamed

LEMMA IgnoreCaseRestores ==
    ASSUME NEW r \in RegistryType, NEW a \in Apps, NEW v \in BOOLEAN
    PROVE  IgnoreCase(r, a, v) = Renamed(r, a, [r.app[a] EXCEPT !.ignoreCase = v],
              IF v /\ ~r.app[a].ignoreCase THEN OwnLevel(r, a) ELSE Nobody)
<1> DEFINE app == [r.app[a] EXCEPT !.ignoreCase = v]
           set == [r EXCEPT !.app[a] = app]
<1>1. CASE v /\ ~r.app[a].ignoreCase
  <2>1. r.app[a] \in AppType /\ v = TRUE /\ r.app[a].ignoreCase = FALSE
    BY <1>1 DEF RegistryType, AppType
  <2>2. [r.app[a] EXCEPT !.ignoreCase = FALSE] = r.app[a]
    BY <2>1 DEF AppType
  <2>3. [r EXCEPT !.app[a].ignoreCase = FALSE] = r
    BY <2>2 DEF RegistryType
  <2>4. set = [r EXCEPT !.app[a].ignoreCase = TRUE]
    BY <2>1
  <2> QED
    BY <1>1, <2>3, <2>4 DEF IgnoreCase, Compared, Renamed
<1>2. CASE ~(v /\ ~r.app[a].ignoreCase)
  BY <1>2 DEF IgnoreCase, Renamed
<1> QED
  BY <1>1, <1>2

LEMMA IgnoreUnderscoreRestores ==
    ASSUME NEW r \in RegistryType, NEW a \in Apps, NEW v \in BOOLEAN
    PROVE  IgnoreUnderscore(r, a, v) = Renamed(r, a, [r.app[a] EXCEPT !.ignoreUnderscore = v],
              IF v /\ ~r.app[a].ignoreUnderscore THEN OwnLevel(r, a) ELSE Nobody)
<1> DEFINE app == [r.app[a] EXCEPT !.ignoreUnderscore = v]
           set == [r EXCEPT !.app[a] = app]
<1>1. CASE v /\ ~r.app[a].ignoreUnderscore
  <2>1. r.app[a] \in AppType /\ v = TRUE /\ r.app[a].ignoreUnderscore = FALSE
    BY <1>1 DEF RegistryType, AppType
  <2>2. [r.app[a] EXCEPT !.ignoreUnderscore = FALSE] = r.app[a]
    BY <2>1 DEF AppType
  <2>3. [r EXCEPT !.app[a].ignoreUnderscore = FALSE] = r
    BY <2>2 DEF RegistryType
  <2>4. set = [r EXCEPT !.app[a].ignoreUnderscore = TRUE]
    BY <2>1
  <2> QED
    BY <1>1, <2>3, <2>4 DEF IgnoreUnderscore, Compared, Renamed
<1>2. CASE ~(v /\ ~r.app[a].ignoreUnderscore)
  BY <1>2 DEF IgnoreUnderscore, Renamed
<1> QED
  BY <1>1, <1>2

\* What Option::ignore_case and ignore_underscore set is reset when they throw.
LEMMA ComparedOptionIs ==
    ASSUME NEW r \in RegistryType, NEW o \in Options, NEW names \in OptionNames
    PROVE  ComparedOption([r EXCEPT !.opt[o] = names], r, o) = RenamedOption(r, o, names)
<1>1. PICK s : s = [r EXCEPT !.opt[o] = names]
  OBVIOUS
<1>2. /\ s.opt[o] = names /\ s.home = r.home /\ s.owner = r.owner
      /\ \A p \in Options \ {o} : s.opt[p] = r.opt[p]
  BY <1>1 DEF RegistryType
<1>3. OptionsOf(s, s.owner[o]) = OptionsOf(r, r.owner[o])
  BY <1>2 DEF OptionsOf
<1>4. \A p \in OptionsOf(r, r.owner[o]) \ {o} : s.opt[p] = r.opt[p]
  BY <1>2 DEF OptionsOf
<1> QED
  BY <1>1, <1>2, <1>3, <1>4 DEF ComparedOption, RenamedOption

LEMMA OptionIgnoreCaseRestores ==
    ASSUME NEW r \in RegistryType, NEW o \in Options, NEW v \in BOOLEAN
    PROVE  OptionIgnoreCase(r, o, v) =
              LET names == [r.opt[o] EXCEPT !.ignoreCase = v]
              IN  IF v /\ ~r.opt[o].ignoreCase THEN RenamedOption(r, o, names)
                  ELSE Returns([r EXCEPT !.opt[o] = names])
<1> DEFINE names == [r.opt[o] EXCEPT !.ignoreCase = v]
<1>1. CASE v /\ ~r.opt[o].ignoreCase
  <2>1. r.opt[o] \in OptionNames /\ v = TRUE /\ r.opt[o].ignoreCase = FALSE
    BY <1>1 DEF RegistryType, OptionNames
  <2>2. [r.opt[o] EXCEPT !.ignoreCase = FALSE] = r.opt[o] /\ names \in OptionNames
    BY <2>1 DEF OptionNames
  <2>3. [r EXCEPT !.opt[o].ignoreCase = FALSE] = r
    BY <2>2 DEF RegistryType
  <2>4. [r EXCEPT !.opt[o].ignoreCase = TRUE] = [r EXCEPT !.opt[o] = names]
    BY <2>1
  <2> QED
    <3>1. OptionIgnoreCase(r, o, v) = ComparedOption([r EXCEPT !.opt[o] = names], r, o)
      BY <1>1, <2>3, <2>4 DEF OptionIgnoreCase
    <3>2. ComparedOption([r EXCEPT !.opt[o] = names], r, o) = RenamedOption(r, o, names)
      BY <2>2, ComparedOptionIs
    <3> QED
      BY <1>1, <3>1, <3>2
<1>2. CASE ~(v /\ ~r.opt[o].ignoreCase)
  BY <1>2 DEF OptionIgnoreCase
<1> QED
  BY <1>1, <1>2

LEMMA OptionIgnoreUnderscoreRestores ==
    ASSUME NEW r \in RegistryType, NEW o \in Options, NEW v \in BOOLEAN
    PROVE  OptionIgnoreUnderscore(r, o, v) =
              LET names == [r.opt[o] EXCEPT !.ignoreUnderscore = v]
              IN  IF v /\ ~r.opt[o].ignoreUnderscore THEN RenamedOption(r, o, names)
                  ELSE Returns([r EXCEPT !.opt[o] = names])
<1> DEFINE names == [r.opt[o] EXCEPT !.ignoreUnderscore = v]
<1>1. CASE v /\ ~r.opt[o].ignoreUnderscore
  <2>1. /\ r.opt[o] \in OptionNames
        /\ v = TRUE /\ r.opt[o].ignoreUnderscore = FALSE
    BY <1>1 DEF RegistryType, OptionNames
  <2>2. [r.opt[o] EXCEPT !.ignoreUnderscore = FALSE] = r.opt[o] /\ names \in OptionNames
    BY <2>1 DEF OptionNames
  <2>3. [r EXCEPT !.opt[o].ignoreUnderscore = FALSE] = r
    BY <2>2 DEF RegistryType
  <2>4. [r EXCEPT !.opt[o].ignoreUnderscore = TRUE] = [r EXCEPT !.opt[o] = names]
    BY <2>1
  <2> QED
    <3>1. OptionIgnoreUnderscore(r, o, v) = ComparedOption([r EXCEPT !.opt[o] = names], r, o)
      BY <1>1, <2>3, <2>4 DEF OptionIgnoreUnderscore
    <3>2. ComparedOption([r EXCEPT !.opt[o] = names], r, o) = RenamedOption(r, o, names)
      BY <2>2, ComparedOptionIs
    <3> QED
      BY <1>1, <3>1, <3>2
<1>2. CASE ~(v /\ ~r.opt[o].ignoreUnderscore)
  BY <1>2 DEF OptionIgnoreUnderscore
<1> QED
  BY <1>1, <1>2

-----------------------------------------------------------------------------
(* Names in one list.                                                      *)

\* The two names of Options in the list of the App that created both differ.
Distinct(r) ==
    \A o, p \in Options :
        /\ o # p
        /\ r.home[o] # Nobody /\ r.home[p] = r.home[o]
        /\ r.owner[o] = r.home[o] /\ r.owner[p] = r.home[o]
        => ~Shadows(r.opt[o], r.opt[p])

\* Names that lead to another option have been found to match, whichever of
\* the two options ignores case or underscores.
LEMMA ShadowsMatch ==
    ASSUME NEW o \in OptionNames, NEW p \in OptionNames, Shadows(o, p) \/ Shadows(p, o)
    PROVE  Matches(o, p)
  <1>1. \A S : \A n \in S : \A x, y : FindMember(n, S, x, y)
    BY DEF FindMember
  <1>2. \A n, S : FindMember(n, S, FALSE, FALSE) => n \in S
    BY DEF FindMember, Unflagged
  <1>3. o.ignoreCase \in BOOLEAN /\ o.ignoreUnderscore \in BOOLEAN
    BY DEF OptionNames
  <1>4. CASE \E n \in o.short : CheckShort(p, n)
    BY <1>4 DEF Matches
  <1>5. CASE \E n \in o.long : CheckLong(p, n)
    BY <1>5 DEF Matches
  <1>6. CASE \E n \in p.short : CheckShort(o, n)
    <2>1. PICK n \in p.short : CheckShort(o, n)
      BY <1>6
    <2>2. CASE o.ignoreCase
      BY <2>1, <2>2 DEF Matches
    <2>3. CASE ~o.ignoreCase
      <3>1. n \in o.short
        BY <1>2, <1>3, <2>1, <2>3 DEF CheckShort
      <3>2. CheckShort(p, n)
        BY <1>1, <2>1 DEF CheckShort
      <3>. QED
        BY <1>4, <3>1, <3>2
    <2>. QED
      BY <2>2, <2>3
  <1>7. CASE \E n \in p.long : CheckLong(o, n)
    <2>1. PICK n \in p.long : CheckLong(o, n)
      BY <1>7
    <2>2. CASE o.ignoreCase \/ o.ignoreUnderscore
      BY <2>1, <2>2 DEF Matches
    <2>3. CASE ~(o.ignoreCase \/ o.ignoreUnderscore)
      <3>1. n \in o.long
        BY <1>2, <1>3, <2>1, <2>3 DEF CheckLong
      <3>2. CheckLong(p, n)
        BY <1>1, <2>1 DEF CheckLong
      <3>. QED
        BY <1>5, <3>1, <3>2
    <2>. QED
      BY <2>2, <2>3
  <1>. QED
    BY <1>4, <1>5, <1>6, <1>7 DEF Shadows

LEMMA ShadowsSymmetric ==
    ASSUME NEW o, NEW p, Shadows(o, p)
    PROVE  Shadows(p, o)
  BY DEF Shadows

\* What is found without folding is found with it.
LEMMA FoldingFindsMore ==
    ASSUME NEW n \in Names, NEW S \in SUBSET Names,
           NEW c \in BOOLEAN, NEW u \in BOOLEAN, NEW d \in BOOLEAN, NEW v \in BOOLEAN,
           c => d, u => v,
           FindMember(n, S, c, u)
    PROVE  FindMember(n, S, d, v)
  <1>1. PICK m \in S : Unflagged(m, c, u) = Unflagged(n, c, u)
    BY DEF FindMember
  <1>2. LowerCase[NoUnderscore[m]] = NoUnderscore[LowerCase[m]]
        /\ LowerCase[NoUnderscore[n]] = NoUnderscore[LowerCase[n]]
    BY NamesAssumption
  <1>3. Unflagged(m, d, v) = Unflagged(n, d, v)
    BY <1>1, <1>2 DEF Unflagged
  <1>. QED
    BY <1>3 DEF FindMember

\* An option that folds less shadows less.
LEMMA UnfoldedShadowsLess ==
    ASSUME NEW o \in OptionNames, NEW q \in OptionNames, NEW p \in OptionNames,
           q.short = o.short, q.long = o.long,
           q.ignoreCase => o.ignoreCase, q.ignoreUnderscore => o.ignoreUnderscore,
           Shadows(q, p)
    PROVE  Shadows(o, p)
  <1>1. /\ o.short \in SUBSET Names /\ o.long \in SUBSET Names
        /\ p.short \in SUBSET Names /\ p.long \in SUBSET Names
        /\ o.ignoreCase \in BOOLEAN /\ o.ignoreUnderscore \in BOOLEAN
        /\ q.ignoreCase \in BOOLEAN /\ q.ignoreUnderscore \in BOOLEAN
    BY DEF OptionNames
  <1>2. \A n \in p.short : CheckShort(q, n) => CheckShort(o, n)
    BY <1>1, FoldingFindsMore DEF CheckShort
  <1>3. \A n \in p.long : CheckLong(q, n) => CheckLong(o, n)
    BY <1>1, FoldingFindsMore DEF CheckLong
  <1>. QED
    BY <1>2, <1>3 DEF Shadows

-----------------------------------------------------------------------------
(* What every call keeps of a registry.                                    *)

Pointing(r) ==
    \A a \in Apps, s \in Special \ {"version"} :
        r.pointer[a][s] # Nobody => r.home[r.pointer[a][s]] = a

\* Options are numbered in the order of their creation.
Numbered(r) == \A o \in Options : o > r.options => r.home[o] = Nobody

Good(r) ==
    /\ r \in RegistryType
    /\ Numbered(r)
    /\ r.apps \in Apps
    /\ r.options <= MaxOptions
    /\ Distinct(r)
    /\ Pointing(r)

LEMMA BoundsType ==
    /\ MaxApps \in Nat \ {0} /\ MaxOptions \in Nat
    /\ Apps \subseteq Nat /\ Options \subseteq Nat
    /\ Nobody \notin Apps /\ Nobody \notin Options
    /\ Root \in Apps
  BY RegistryAssumption DEF Apps, Options, Nobody, Root

LEMMA CountsType ==
    ASSUME NEW r, NEW a
    PROVE  LastPlace(r, a) \in Nat /\ LastSeat(r, a) \in Nat
  <1>1. IsFiniteSet(Apps) /\ IsFiniteSet(Options)
    BY BoundsType, FS_Interval DEF Apps, Options
  <1>2. IsFiniteSet(OptionsOf(r, a)) /\ IsFiniteSet(Subcommands(r, a))
    BY <1>1, FS_Subset DEF OptionsOf, Subcommands
  <1>. QED
    BY <1>2, FS_CardinalityType DEF LastPlace, LastSeat

LEMMA ErasedType ==
    ASSUME NEW D, NEW position \in [D -> Nat], NEW S, NEW x \in D
    PROVE  Erased(position, S, x) \in [D -> Nat]
  BY DEF Erased

\* The names change for an option that shadows none in its list.
LEMMA OptAt ==
    ASSUME NEW r, Good(r), NEW o \in Options, NEW names \in OptionNames,
           \A p \in Options \ {o} :
              /\ r.home[o] # Nobody /\ r.home[p] = r.home[o]
              /\ r.owner[o] = r.home[o] /\ r.owner[p] = r.home[o]
              => ~Shadows(names, r.opt[p])
    PROVE  Good([r EXCEPT !.opt[o] = names])
  <1>. DEFINE new == [r EXCEPT !.opt[o] = names]
  <1>1. new \in RegistryType
    BY DEF Good, RegistryType
  <1>2. /\ new.apps = r.apps /\ new.options = r.options /\ new.home = r.home
        /\ new.owner = r.owner /\ new.pointer = r.pointer
        /\ new.opt = [r.opt EXCEPT ![o] = names]
    BY DEF Good, RegistryType
  <1>3. \A p \in Options : new.opt[p] = IF p = o THEN names ELSE r.opt[p]
    BY <1>2 DEF Good, RegistryType
  <1>. HIDE DEF new
  <1>4. Distinct(new)
    BY <1>2, <1>3, ShadowsSymmetric DEF Good, Distinct
  <1>. QED
    BY <1>1, <1>2, <1>4 DEF Good, Numbered, Pointing, new

\* The lists and names stay as they are.
LEMMA KeptGood ==
    ASSUME NEW r, Good(r), NEW s \in RegistryType,
           s.apps \in Apps, s.options = r.options,
           s.home = r.home, s.owner = r.owner, s.opt = r.opt, s.pointer = r.pointer
    PROVE  Good(s)
  BY DEF Good, Numbered, Distinct, Pointing

\* Some options leave their lists, and no pointer leads to them.
LEMMA ShrunkGood ==
    ASSUME NEW r, Good(r), NEW s \in RegistryType, s.apps \in Apps, s.options = r.options,
           \A o \in Options : s.home[o] \in {r.home[o], Nobody},
           s.owner = r.owner, s.opt = r.opt, Pointing(s)
    PROVE  Good(s)
  BY DEF Good, Numbered, Distinct

LEMMA NamesKept ==
    ASSUME NEW o \in OptionNames, NEW v \in BOOLEAN
    PROVE  /\ [o EXCEPT !.ignoreCase = v] \in OptionNames
           /\ [o EXCEPT !.ignoreUnderscore = v] \in OptionNames
           /\ [o EXCEPT !.configurable = v] \in OptionNames
  BY DEF OptionNames

LEMMA RenamedOptionGood ==
    ASSUME NEW r, Good(r), NEW o \in Options, NEW names \in OptionNames
    PROVE  Good(RenamedOption(r, o, names).reg)
  <1>1. CASE \E p \in OptionsOf(r, r.owner[o]) \ {o} : Matches(r.opt[p], names)
    BY <1>1 DEF RenamedOption, Throws
  <1>2. CASE ~\E p \in OptionsOf(r, r.owner[o]) \ {o} : Matches(r.opt[p], names)
    <2>1. ASSUME NEW p \in Options \ {o},
                 r.home[o] # Nobody, r.home[p] = r.home[o], r.owner[o] = r.home[o]
          PROVE  ~Shadows(names, r.opt[p])
      <3>1. p \in OptionsOf(r, r.owner[o]) \ {o}
        BY <2>1 DEF OptionsOf
      <3>2. r.opt[p] \in OptionNames
        BY DEF Good, RegistryType
      <3>. QED
        BY <1>2, <3>1, <3>2, ShadowsMatch
    <2>2. Good([r EXCEPT !.opt[o] = names])
      BY <2>1, OptAt
    <2>. QED
      BY <1>2, <2>2 DEF RenamedOption, Returns
  <1>. QED
    BY <1>1, <1>2

\* Folding less is always possible.
LEMMA UnfoldedGood ==
    ASSUME NEW r, Good(r), NEW o \in Options, NEW names \in OptionNames,
           names.short = r.opt[o].short, names.long = r.opt[o].long,
           names.ignoreCase => r.opt[o].ignoreCase,
           names.ignoreUnderscore => r.opt[o].ignoreUnderscore
    PROVE  Good([r EXCEPT !.opt[o] = names])
  <1>1. \A p \in Options : r.opt[p] \in OptionNames
    BY DEF Good, RegistryType
  <1>2. ASSUME NEW p \in Options \ {o},
               r.home[o] # Nobody, r.home[p] = r.home[o],
               r.owner[o] = r.home[o], r.owner[p] = r.home[o]
        PROVE  ~Shadows(names, r.opt[p])
    <2>1. ~Shadows(r.opt[o], r.opt[p])
      BY <1>2 DEF Good, Distinct
    <2>. QED
      BY <1>1, <2>1, UnfoldedShadowsLess
  <1>. QED
    BY <1>2, OptAt

LEMMA OptionFoldingGood ==
    ASSUME NEW r, Good(r), NEW o \in Options, NEW v \in BOOLEAN
    PROVE  /\ Good(OptionIgnoreCase(r, o, v).reg)
           /\ Good(OptionIgnoreUnderscore(r, o, v).reg)
           /\ Good([r EXCEPT !.opt[o].configurable = v])
           /\ \A n \in EnvironmentGiven : Good([r EXCEPT !.opt[o].env = n])
  <1>1. r.opt[o] \in OptionNames
    BY DEF Good, RegistryType
  <1>2. Good(OptionIgnoreCase(r, o, v).reg)
    <2>. DEFINE names == [r.opt[o] EXCEPT !.ignoreCase = v]
    <2>1. names \in OptionNames /\ Good(RenamedOption(r, o, names).reg)
      BY <1>1, NamesKept, RenamedOptionGood
    <2>2. CASE v /\ ~r.opt[o].ignoreCase
      BY <2>1, <2>2, OptionIgnoreCaseRestores DEF Good
    <2>3. CASE ~(v /\ ~r.opt[o].ignoreCase)
      <3>1. /\ names.short = r.opt[o].short /\ names.long = r.opt[o].long
            /\ names.ignoreCase = v /\ names.ignoreUnderscore = r.opt[o].ignoreUnderscore
        BY <1>1 DEF OptionNames
      <3>. HIDE DEF names
      <3>2. Good([r EXCEPT !.opt[o] = names])
        BY <2>1, <2>3, <3>1, UnfoldedGood
      <3>. QED
        <4>1. OptionIgnoreCase(r, o, v) = Returns([r EXCEPT !.opt[o] = names])
          BY <2>3, OptionIgnoreCaseRestores DEF Good, names
        <4>. QED
          BY <3>2, <4>1 DEF Returns
    <2>. QED
      BY <2>2, <2>3
  <1>3. Good(OptionIgnoreUnderscore(r, o, v).reg)
    <2>. DEFINE names == [r.opt[o] EXCEPT !.ignoreUnderscore = v]
    <2>1. names \in OptionNames /\ Good(RenamedOption(r, o, names).reg)
      BY <1>1, NamesKept, RenamedOptionGood
    <2>2. CASE v /\ ~r.opt[o].ignoreUnderscore
      BY <2>1, <2>2, OptionIgnoreUnderscoreRestores DEF Good
    <2>3. CASE ~(v /\ ~r.opt[o].ignoreUnderscore)
      <3>1. /\ names.short = r.opt[o].short /\ names.long = r.opt[o].long
            /\ names.ignoreUnderscore = v /\ names.ignoreCase = r.opt[o].ignoreCase
        BY <1>1 DEF OptionNames
      <3>. HIDE DEF names
      <3>2. Good([r EXCEPT !.opt[o] = names])
        BY <2>1, <2>3, <3>1, UnfoldedGood
      <3>. QED
        <4>1. OptionIgnoreUnderscore(r, o, v) = Returns([r EXCEPT !.opt[o] = names])
          BY <2>3, OptionIgnoreUnderscoreRestores DEF Good, names
        <4>. QED
          BY <3>2, <4>1 DEF Returns
    <2>. QED
      BY <2>2, <2>3
  <1>4. Good([r EXCEPT !.opt[o].configurable = v])
    <2>. DEFINE names == [r.opt[o] EXCEPT !.configurable = v]
    <2>1. /\ names \in OptionNames
          /\ names.short = r.opt[o].short /\ names.long = r.opt[o].long
          /\ names.ignoreCase = r.opt[o].ignoreCase
          /\ names.ignoreUnderscore = r.opt[o].ignoreUnderscore
      BY <1>1, NamesKept DEF OptionNames
    <2>. HIDE DEF names
    <2>2. Good([r EXCEPT !.opt[o] = names])
      BY <2>1, UnfoldedGood
    <2>3. [r EXCEPT !.opt[o].configurable = v] = [r EXCEPT !.opt[o] = names]
      BY DEF names
    <2>. QED
      BY <2>2, <2>3
  <1>5. ASSUME NEW n \in EnvironmentGiven
        PROVE  Good([r EXCEPT !.opt[o].env = n])
    <2>. DEFINE names == [r.opt[o] EXCEPT !.env = n]
    <2>1. /\ names \in OptionNames
          /\ names.short = r.opt[o].short /\ names.long = r.opt[o].long
          /\ names.ignoreCase = r.opt[o].ignoreCase
          /\ names.ignoreUnderscore = r.opt[o].ignoreUnderscore
      BY <1>1, RegistryAssumption DEF OptionNames
    <2>. HIDE DEF names
    <2>2. Good([r EXCEPT !.opt[o] = names])
      BY <2>1, UnfoldedGood
    <2>3. [r EXCEPT !.opt[o].env = n] = [r EXCEPT !.opt[o] = names]
      BY DEF names
    <2>. QED
      BY <2>2, <2>3
  <1>. QED
    BY <1>2, <1>3, <1>4, <1>5

-----------------------------------------------------------------------------
(* The calls on options.                                                   *)

\* What the calls on options leave alone.
SameTree(s, r) ==
    /\ s.apps = r.apps /\ s.app = r.app /\ s.parent = r.parent /\ s.switched = r.switched
    /\ s.appExcludes = r.appExcludes

\* What the tree of Apps and exclusion between them depend on.
SameBonds(s, r) ==
    s.apps = r.apps /\ s.parent = r.parent /\ s.appExcludes = r.appExcludes

LEMMA OptionFoldingFrame ==
    ASSUME NEW r, r \in RegistryType, NEW o, NEW v,
           NEW s, s = OptionIgnoreCase(r, o, v).reg \/ s = OptionIgnoreUnderscore(r, o, v).reg
    PROVE  /\ SameTree(s, r)
           /\ s.options = r.options /\ s.home = r.home /\ s.owner = r.owner
           /\ s.pointer = r.pointer
  <1>1. \E names : s = [r EXCEPT !.opt[o] = names]
    BY DEF OptionIgnoreCase, OptionIgnoreUnderscore, ComparedOption, Throws, Returns
  <1>. QED
    BY <1>1 DEF SameTree, RegistryType

LEMMA FoldingThrown ==
    ASSUME NEW r, NEW o, NEW v
    PROVE  /\ OptionIgnoreCase(r, o, v).thrown \in BOOLEAN
           /\ OptionIgnoreUnderscore(r, o, v).thrown \in BOOLEAN
  BY DEF OptionIgnoreCase, OptionIgnoreUnderscore, ComparedOption, Throws, Returns

LEMMA ListsType ==
    ASSUME NEW r \in RegistryType, NEW n \in Nat, NEW opt \in [Options -> OptionNames],
           NEW home \in [Options -> Apps \cup {Nobody}],
           NEW owner \in [Options -> Apps \cup {Nobody}], NEW place \in [Options -> Nat]
    PROVE  [r EXCEPT !.options = n, !.opt = opt, !.home = home,
                     !.owner = owner, !.place = place] \in RegistryType
  BY DEF RegistryType

\* An option of new names comes to a list.
Placed(r, a, names) ==
    LET o == r.options + 1
    IN  [r EXCEPT !.options = o, !.opt[o] = names,
                  !.home[o] = a, !.owner[o] = a, !.place[o] = LastPlace(r, a)]

LEMMA PlacedGood ==
    ASSUME NEW r, Good(r), NEW a \in Apps, NEW names \in OptionNames,
           r.options < MaxOptions,
           ~\E p \in OptionsOf(r, a) : Matches(r.opt[p], names),
           NEW o, o = r.options + 1,
           NEW new, new = Placed(r, a, names)
    PROVE  /\ Good(new) /\ o \in Options /\ new.options = o
           /\ new.home[o] = a /\ new.pointer = r.pointer /\ SameTree(new, r)
  <1>1. o \in Options /\ o \in Nat
    BY BoundsType DEF Good, RegistryType, Options
  <1>2. new \in RegistryType
    <2>1. r \in RegistryType
      BY DEF Good
    <2>2. LastPlace(r, a) \in Nat
      BY CountsType
    <2>3. /\ [r.opt EXCEPT ![o] = names] \in [Options -> OptionNames]
          /\ [r.home EXCEPT ![o] = a] \in [Options -> Apps \cup {Nobody}]
          /\ [r.owner EXCEPT ![o] = a] \in [Options -> Apps \cup {Nobody}]
          /\ [r.place EXCEPT ![o] = LastPlace(r, a)] \in [Options -> Nat]
      BY <2>1, <2>2 DEF RegistryType
    <2>4. new = [r EXCEPT !.options = o, !.opt = [r.opt EXCEPT ![o] = names],
                          !.home = [r.home EXCEPT ![o] = a],
                          !.owner = [r.owner EXCEPT ![o] = a],
                          !.place = [r.place EXCEPT ![o] = LastPlace(r, a)]]
      BY <2>1 DEF Placed, RegistryType
    <2>5. [r EXCEPT !.options = o, !.opt = [r.opt EXCEPT ![o] = names],
                    !.home = [r.home EXCEPT ![o] = a],
                    !.owner = [r.owner EXCEPT ![o] = a],
                    !.place = [r.place EXCEPT ![o] = LastPlace(r, a)]] \in RegistryType
      BY ONLY <1>1, <2>1, <2>3, ListsType
    <2>. QED
      BY ONLY <2>4, <2>5
  <1>3. /\ new.apps = r.apps /\ new.options = o
        /\ new.home = [r.home EXCEPT ![o] = a]
        /\ new.owner = [r.owner EXCEPT ![o] = a] /\ new.pointer = r.pointer
        /\ new.opt = [r.opt EXCEPT ![o] = names] /\ SameTree(new, r)
    BY DEF Placed, Good, RegistryType, SameTree
  <1>4. \A p \in Options : /\ new.home[p] = IF p = o THEN a ELSE r.home[p]
                           /\ new.owner[p] = IF p = o THEN a ELSE r.owner[p]
                           /\ new.opt[p] = IF p = o THEN names ELSE r.opt[p]
    BY <1>3 DEF Good, RegistryType
  <1>5. ASSUME NEW p \in Options, p # o, new.home[p] = a
        PROVE  ~Shadows(names, r.opt[p]) /\ ~Shadows(r.opt[p], names)
    <2>1. p \in OptionsOf(r, a) /\ r.opt[p] \in OptionNames
      BY <1>4, <1>5 DEF OptionsOf, Good, RegistryType
    <2>. QED
      BY <2>1, ShadowsMatch
  <1>. QED
    <2>. HIDE DEF SameTree
    <2>1. Distinct(new)
      BY <1>1, <1>4, <1>5 DEF Good, Distinct
    <2>2. Pointing(new)
      <3>1. \A b \in Apps, x \in Special \ {"version"} :
                r.pointer[b][x] # Nobody => r.pointer[b][x] \in Options \ {o}
        <4>1. r.home[o] = Nobody
          BY <1>1, BoundsType DEF Good, RegistryType, Numbered
        <4>2. \A b \in Apps, x \in Special : r.pointer[b][x] \in Options \cup {Nobody}
          BY DEF Good, RegistryType
        <4>. QED
          BY <4>1, <4>2, BoundsType DEF Good, Pointing
      <3>. QED
        BY <1>3, <1>4, <3>1 DEF Good, Pointing
    <2>3. Numbered(new)
      BY <1>1, <1>3, <1>4, BoundsType DEF Good, RegistryType, Numbered
    <2>4. new.options <= MaxOptions /\ new.home[o] = a
      BY <1>1, <1>3, <1>4 DEF Options
    <2>. QED
      BY <1>1, <1>2, <1>3, <2>1, <2>2, <2>3, <2>4 DEF Good

\* An option added to a list of Good names, before and after the defaults.
LEMMA AddOptionGood ==
    ASSUME NEW r, Good(r), NEW a \in Apps, NEW names \in OptionNames,
           r.options < MaxOptions,
           NEW result, result = AddOption(r, a, names)
    PROVE  /\ Good(result.reg) /\ SameTree(result.reg, r)
           /\ result.thrown \in BOOLEAN
           /\ result.reg.pointer = r.pointer
           /\ result.reg.options <= r.options + 1
           /\ ~result.thrown =>
                 result.made \in Options /\ result.reg.home[result.made] = a
  <1>. DEFINE o     == r.options + 1
              added == Placed(r, a, names)
              cased == OptionIgnoreCase(added, o, r.app[a].optCase)
              both  == OptionIgnoreUnderscore(cased.reg, o, r.app[a].optUnderscore)
  <1>1. /\ r \in RegistryType /\ r.options \in Nat
        /\ r.app[a].optCase \in BOOLEAN /\ r.app[a].optUnderscore \in BOOLEAN
    BY DEF Good, RegistryType, AppType
  <1>2. SameTree(r, r)
    BY DEF SameTree
  <1>3. CASE \/ \E p \in OptionsOf(r, a) : Matches(r.opt[p], names)
             \/ Ambiguous(r, a, names)
    <2>1. result = Throws(r)
      BY <1>3 DEF AddOption
    <2>. QED
      BY <1>1, <1>2, <2>1 DEF Throws
  <1>4. CASE ~\/ \E p \in OptionsOf(r, a) : Matches(r.opt[p], names)
              \/ Ambiguous(r, a, names)
    <2>1. result = IF cased.thrown THEN cased
                   ELSE IF both.thrown THEN both ELSE Makes(both.reg, o)
      BY <1>4 DEF AddOption, Placed, ThenUnderscore, ThenMakes
    <2>2. /\ Good(added) /\ o \in Options /\ added.options = o
          /\ added.home[o] = a /\ added.pointer = r.pointer /\ SameTree(added, r)
      BY <1>4, PlacedGood
    <2>. HIDE DEF added
    <2>3. Good(cased.reg) /\ cased.thrown \in BOOLEAN
      BY <1>1, <2>2, OptionFoldingGood, FoldingThrown
    <2>4. /\ SameTree(cased.reg, added) /\ cased.reg.options = added.options
          /\ cased.reg.home = added.home /\ cased.reg.pointer = added.pointer
      BY <2>2, OptionFoldingFrame DEF Good
    <2>. HIDE DEF cased
    <2>5. Good(both.reg) /\ both.thrown \in BOOLEAN
      BY <1>1, <2>2, <2>3, OptionFoldingGood, FoldingThrown
    <2>6. /\ SameTree(both.reg, cased.reg) /\ both.reg.options = cased.reg.options
          /\ both.reg.home = cased.reg.home /\ both.reg.pointer = cased.reg.pointer
      BY <2>3, OptionFoldingFrame DEF Good
    <2>. HIDE DEF both
    <2>7. SameTree(cased.reg, r) /\ SameTree(both.reg, r)
      BY <2>2, <2>4, <2>6 DEF SameTree
    <2>8. o <= r.options + 1
      BY <1>1
    <2>. HIDE DEF o
    <2>9. CASE cased.thrown
      <3>1. result = cased
        BY <2>1, <2>9
      <3>. QED
        BY <1>1, <2>2, <2>3, <2>4, <2>7, <2>8, <2>9, <3>1
    <2>10. CASE ~cased.thrown /\ both.thrown
      <3>1. result = both
        BY <2>1, <2>10
      <3>. QED
        BY <1>1, <2>2, <2>4, <2>5, <2>6, <2>7, <2>8, <2>10, <3>1
    <2>11. CASE ~cased.thrown /\ ~both.thrown
      <3>1. result.reg = both.reg /\ result.thrown = FALSE /\ result.made = o
        BY <2>1, <2>11 DEF Makes
      <3>. QED
        BY <1>1, <2>2, <2>4, <2>5, <2>6, <2>7, <2>8, <3>1
    <2>. QED
      BY <2>9, <2>10, <2>11
  <1>. QED
    BY <1>3, <1>4

LEMMA TrimmedType ==
    ASSUME NEW r \in RegistryType,
           NEW needs \in SUBSET (Options \X Options),
           NEW excludes \in SUBSET (Options \X Options),
           NEW pointer \in [Apps -> [Special -> Options \cup {Nobody}]],
           NEW home \in [Options -> Apps \cup {Nobody}],
           NEW place \in [Options -> Nat], NEW left \in [Options -> Apps \cup {Nobody}]
    PROVE  [r EXCEPT !.needs = needs, !.excludes = excludes, !.pointer = pointer,
                     !.home = home, !.place = place, !.left = left] \in RegistryType
  BY DEF RegistryType

\* An option removed, and the special flag that it was.
LEMMA RemoveOptionGood ==
    ASSUME NEW r, Good(r), NEW a \in Apps, NEW o \in Options
    PROVE  /\ Good(RemoveOption(r, a, o).reg) /\ SameTree(RemoveOption(r, a, o).reg, r)
           /\ RemoveOption(r, a, o).reg.options = r.options
           /\ \A b \in Apps, x \in Special :
                 RemoveOption(r, a, o).reg.pointer[b][x] \in {r.pointer[b][x], Nobody}
  <1>. SUFFICES ASSUME NEW new, new = RemoveOption(r, a, o).reg
                PROVE  /\ Good(new) /\ SameTree(new, r) /\ new.options = r.options
                       /\ \A b \in Apps, x \in Special :
                             new.pointer[b][x] \in {r.pointer[b][x], Nobody}
    OBVIOUS
  <1>1. r \in RegistryType
    BY DEF Good
  <1>2. IF r.home[o] = a THEN Erased(r.place, OptionsOf(r, a), o) \in [Options -> Nat]
        ELSE r.place \in [Options -> Nat]
    BY <1>1, ErasedType DEF RegistryType
  <1>3. new \in RegistryType
    <2>. DEFINE gone(links) == { l \in links :
                    \/ r.home[o] = a /\ l[1] = o
                    \/ r.home[l[1]] = a /\ l[2] = o }
                pointer == [r.pointer EXCEPT ![a] = [s \in Special |->
                    IF s # "version" /\ @[s] = o THEN Nobody ELSE @[s]]]
                home == [r.home EXCEPT ![o] = IF @ = a THEN Nobody ELSE @]
                place == IF r.home[o] = a THEN Erased(r.place, OptionsOf(r, a), o) ELSE r.place
                left == [r.left EXCEPT ![o] = IF r.home[o] = a THEN a ELSE @]
    <2>1. new = [r EXCEPT !.needs = r.needs \ gone(r.needs),
                          !.excludes = r.excludes \ gone(r.excludes),
                          !.pointer = pointer, !.home = home, !.place = place, !.left = left]
      BY <1>1 DEF RemoveOption, Returns, RegistryType
    <2>2. /\ r.needs \ gone(r.needs) \in SUBSET (Options \X Options)
          /\ r.excludes \ gone(r.excludes) \in SUBSET (Options \X Options)
      BY <1>1 DEF RegistryType
    <2>3. /\ home \in [Options -> Apps \cup {Nobody}]
          /\ left \in [Options -> Apps \cup {Nobody}]
      BY <1>1 DEF RegistryType
    <2>4. pointer \in [Apps -> [Special -> Options \cup {Nobody}]]
      BY <1>1 DEF RegistryType
    <2>5. place \in [Options -> Nat]
      BY <1>2
    <2>. HIDE DEF gone, pointer, home, place, left
    <2>6. [r EXCEPT !.needs = r.needs \ gone(r.needs),
                    !.excludes = r.excludes \ gone(r.excludes),
                    !.pointer = pointer, !.home = home, !.place = place,
                    !.left = left] \in RegistryType
      BY ONLY <1>1, <2>2, <2>3, <2>4, <2>5, TrimmedType
    <2>. QED
      BY ONLY <2>1, <2>6
  <1>4. /\ SameTree(new, r) /\ new.options = r.options /\ new.opt = r.opt
        /\ new.owner = r.owner
        /\ new.home = [r.home EXCEPT ![o] = IF @ = a THEN Nobody ELSE @]
        /\ new.pointer = [r.pointer EXCEPT ![a] = [s \in Special |->
                IF s # "version" /\ @[s] = o THEN Nobody ELSE @[s]]]
    BY <1>1 DEF RemoveOption, Returns, RegistryType, SameTree
  <1>5. /\ \A p \in Options :
              new.home[p] = IF p = o /\ r.home[p] = a THEN Nobody ELSE r.home[p]
        /\ \A b \in Apps, s \in Special :
              new.pointer[b][s] = IF b = a /\ s # "version" /\ r.pointer[b][s] = o
                                  THEN Nobody ELSE r.pointer[b][s]
    BY <1>1, <1>4 DEF RegistryType
  <1>6. Pointing(new)
    <2>1. \A b \in Apps, s \in Special :
            r.pointer[b][s] \in Options \cup {Nobody}
      BY <1>1 DEF RegistryType
    <2>. QED
      BY <1>5, <2>1 DEF Good, Pointing
  <1>7. new.apps \in Apps
    BY <1>4 DEF Good, SameTree
  <1>8. \A p \in Options : new.home[p] \in {r.home[p], Nobody}
    BY <1>5
  <1>9. Good(new)
    BY ONLY Good(r), <1>3, <1>4, <1>6, <1>7, <1>8, ShrunkGood
  <1>. QED
    BY <1>4, <1>5, <1>9

LEMMA AddFlagGood ==
    ASSUME NEW r, Good(r), NEW a \in Apps, NEW names \in OptionNames,
           r.options < MaxOptions,
           NEW result, result = AddFlag(r, a, names)
    PROVE  /\ Good(result.reg) /\ SameTree(result.reg, r)
           /\ result.thrown \in BOOLEAN
           /\ \A b \in Apps, x \in Special :
                 result.reg.pointer[b][x] \in {r.pointer[b][x], Nobody}
           /\ result.reg.options <= r.options + 1
           /\ ~result.thrown =>
                 result.made \in Options /\ result.reg.home[result.made] = a
  <1>. DEFINE new     == AddOption(r, a, names)
              removed == RemoveOption(new.reg, a, new.made).reg
  <1>1. /\ Good(new.reg) /\ SameTree(new.reg, r) /\ new.thrown \in BOOLEAN
        /\ new.reg.pointer = r.pointer
        /\ new.reg.options <= r.options + 1
        /\ ~new.thrown => new.made \in Options /\ new.reg.home[new.made] = a
    BY AddOptionGood
  <1>2. result = IF ~new.thrown /\ names.positional # NoName THEN Throws(removed) ELSE new
    BY DEF AddFlag, ThenNoPositional
  <1>. HIDE DEF new
  <1>3. CASE ~new.thrown /\ names.positional # NoName
    <2>1. /\ Good(removed) /\ SameTree(removed, new.reg)
          /\ removed.options = new.reg.options
          /\ \A b \in Apps, x \in Special :
                removed.pointer[b][x] \in {new.reg.pointer[b][x], Nobody}
      BY <1>1, <1>3, RemoveOptionGood
    <2>2. result.thrown = TRUE /\ result.reg = removed
      BY <1>2, <1>3 DEF Throws
    <2>3. SameTree(removed, r)
      BY <1>1, <2>1 DEF SameTree
    <2>4. \A b \in Apps, x \in Special : removed.pointer[b][x] \in {r.pointer[b][x], Nobody}
      BY <1>1, <2>1 DEF Good, RegistryType
    <2>. QED
      BY <1>1, <2>1, <2>2, <2>3, <2>4
  <1>4. CASE ~(~new.thrown /\ names.positional # NoName)
    BY <1>1, <1>2, <1>4
  <1>. QED
    BY <1>3, <1>4

\* A pointer of an App led elsewhere.
LEMMA PointerType ==
    ASSUME NEW r \in RegistryType, NEW a \in Apps, NEW s \in Special,
           NEW o \in Options \cup {Nobody}
    PROVE  [r EXCEPT !.pointer[a][s] = o] \in RegistryType
  BY DEF RegistryType

LEMMA PointerGood ==
    ASSUME NEW r, Good(r), NEW a \in Apps, NEW s \in Special,
           NEW o \in Options \cup {Nobody}, o = Nobody \/ r.home[o] = a,
           NEW new, new = [r EXCEPT !.pointer[a][s] = o]
    PROVE  Good(new) /\ SameTree(new, r) /\ new.options = r.options
  <1>1. r \in RegistryType
    BY DEF Good
  <1>2. new \in RegistryType
    BY <1>1, PointerType
  <1>3. /\ new.apps = r.apps /\ new.options = r.options /\ new.home = r.home
        /\ new.owner = r.owner /\ new.opt = r.opt /\ SameTree(new, r)
        /\ new.pointer = [r.pointer EXCEPT ![a] = [r.pointer[a] EXCEPT ![s] = o]]
    BY <1>1 DEF RegistryType, SameTree
  <1>4. \A b \in Apps, x \in Special :
            new.pointer[b][x] = IF b = a /\ x = s THEN o ELSE r.pointer[b][x]
    BY <1>1, <1>3 DEF RegistryType
  <1>5. Pointing(new)
    BY <1>3, <1>4 DEF Good, Pointing
  <1>. QED
    BY <1>2, <1>3, <1>5 DEF Good, Numbered, Distinct

LEMMA WithoutSpecialGood ==
    ASSUME NEW r, Good(r), NEW a \in Apps, NEW s \in Special
    PROVE  /\ Good(WithoutSpecial(r, a, s)) /\ SameTree(WithoutSpecial(r, a, s), r)
           /\ WithoutSpecial(r, a, s).options = r.options
  <1>. DEFINE former  == r.pointer[a][s]
  <1>1. former \in Options \cup {Nobody}
    BY DEF Good, RegistryType
  <1>2. WithoutSpecial(r, a, s) =
            IF former = Nobody THEN r
            ELSE [RemoveOption(r, a, former).reg EXCEPT !.pointer[a][s] = Nobody]
    BY DEF WithoutSpecial
  <1>. HIDE DEF former
  <1>3. CASE former = Nobody
    BY <1>2, <1>3 DEF SameTree
  <1>4. CASE former # Nobody
    <2>1. PICK o, removed : o = former /\ o \in Options /\ removed = RemoveOption(r, a, o).reg
      BY <1>1, <1>4
    <2>2. Good(removed) /\ SameTree(removed, r) /\ removed.options = r.options
      BY <2>1, RemoveOptionGood
    <2>3. PICK without : without = [removed EXCEPT !.pointer[a][s] = Nobody]
      OBVIOUS
    <2>4. Good(without) /\ SameTree(without, removed) /\ without.options = removed.options
      BY <2>2, <2>3, PointerGood
    <2>5. WithoutSpecial(r, a, s) = without
      BY <1>2, <1>4, <2>1, <2>3
    <2>. QED
      BY <2>2, <2>4, <2>5 DEF SameTree
  <1>. QED
    BY <1>3, <1>4

LEMMA SetSpecialGood ==
    ASSUME NEW r, Good(r), NEW a \in Apps, NEW s \in Special, NEW names \in OptionNames,
           names = NoOption \/ r.options < MaxOptions,
           NEW result, result = SetSpecial(r, a, s, names)
    PROVE  /\ Good(result.reg) /\ SameTree(result.reg, r)
           /\ result.thrown \in BOOLEAN
           /\ result.reg.options <= r.options + 1
           /\ names = NoOption => result.reg.options = r.options
  <1>. DEFINE without == WithoutSpecial(r, a, s)
              new     == IF s = "config" THEN AddOption(without, a, names)
                         ELSE AddFlag(without, a, names)
              linked  == [new.reg EXCEPT !.pointer[a][s] = new.made]
              set     == [new.reg EXCEPT !.pointer[a][s] = new.made,
                                         !.opt[new.made].configurable = FALSE]
  <1>1. r.options \in Nat
    BY DEF Good, RegistryType
  <1>2. Good(without) /\ SameTree(without, r) /\ without.options = r.options
    BY WithoutSpecialGood
  <1>3. result = IF names = NoOption THEN Returns(without)
                 ELSE IF new.thrown THEN new ELSE Returns(set)
    BY DEF SetSpecial, ThenPointed, ThenFlag, AddFlag
  <1>. HIDE DEF without
  <1>4. CASE names = NoOption
    BY <1>1, <1>2, <1>3, <1>4 DEF Returns
  <1>5. CASE names # NoOption
    <2>1. /\ Good(new.reg) /\ SameTree(new.reg, without) /\ new.thrown \in BOOLEAN
          /\ new.reg.options <= without.options + 1
          /\ ~new.thrown => new.made \in Options /\ new.reg.home[new.made] = a
      BY <1>2, <1>5, AddOptionGood, AddFlagGood
    <2>. HIDE DEF new
    <2>2. CASE new.thrown
      BY <1>2, <1>3, <1>5, <2>1, <2>2 DEF SameTree
    <2>3. CASE ~new.thrown
      <3>1. Good(linked) /\ SameTree(linked, new.reg) /\ linked.options = new.reg.options
        BY <2>1, <2>3, PointerGood
      <3>0. set = [linked EXCEPT !.opt[new.made].configurable = FALSE]
        BY <2>1 DEF Good, RegistryType
      <3>. HIDE DEF linked, set
      <3>2. Good(set)
        BY <2>1, <2>3, <3>0, <3>1, OptionFoldingGood
      <3>3. SameTree(set, linked) /\ set.options = linked.options
        BY <3>0, <3>1 DEF SameTree, Good, RegistryType
      <3>4. result.reg = set /\ result.thrown = FALSE
        BY <1>3, <1>5, <2>3 DEF Returns
      <3>5. SameTree(set, r)
        BY <1>2, <2>1, <3>1, <3>3 DEF SameTree
      <3>. QED
        BY <1>2, <1>5, <2>1, <3>1, <3>2, <3>3, <3>4, <3>5
    <2>. QED
      BY <2>2, <2>3
  <1>. QED
    BY <1>4, <1>5

LEMMA RetireOptionGood ==
    ASSUME NEW r, Good(r), NEW a \in Apps, NEW o \in Options, r.options < MaxOptions
    PROVE  Good(RetireOption(r, a, o).reg) /\ RetireOption(r, a, o).thrown \in BOOLEAN
  <1>1. PICK removed : removed = RemoveOption(r, a, o).reg
    OBVIOUS
  <1>2. Good(removed) /\ removed.options = r.options
    BY <1>1, RemoveOptionGood
  <1>3. AllNames(r.opt[o]) \in OptionNames
    BY DEF Good, RegistryType, AllNames, OptionNames, Declaration
  <1>4. PICK result : result = AddOption(removed, a, AllNames(r.opt[o]))
    OBVIOUS
  <1>5. Good(result.reg) /\ result.thrown \in BOOLEAN
    BY <1>2, <1>3, <1>4, AddOptionGood
  <1>. QED
    BY <1>1, <1>4, <1>5 DEF RetireOption

LEMMA MovedType ==
    ASSUME NEW r \in RegistryType, NEW home \in [Options -> Apps \cup {Nobody}],
           NEW place \in [Options -> Nat]
    PROVE  [r EXCEPT !.home = home, !.place = place] \in RegistryType
  BY DEF RegistryType

\* An option that is moved matches none in its new list.
LEMMA MoveOptionGood ==
    ASSUME NEW r, Good(r), NEW o \in Options, r.home[o] # Nobody, NEW g \in Apps
    PROVE  Good(MoveOption(r, o, g).reg) /\ MoveOption(r, o, g).thrown \in BOOLEAN
  <1>. DEFINE p     == r.parent[g]
              home  == [r.home EXCEPT ![o] = g]
              place == [Erased(r.place, OptionsOf(r, p), o) EXCEPT ![o] = LastPlace(r, g)]
              new   == [r EXCEPT !.home = home, !.place = place]
  <1>1. r \in RegistryType
    BY DEF Good
  <1>2. CASE \/ r.home[o] # p
             \/ o \in {r.pointer[p][s] : s \in Special \ {"version"}}
             \/ \E q \in OptionsOf(r, g) : Matches(r.opt[q], r.opt[o])
    BY <1>2 DEF MoveOption, Throws
  <1>3. CASE /\ r.home[o] = p
             /\ o \notin {r.pointer[p][s] : s \in Special \ {"version"}}
             /\ ~\E q \in OptionsOf(r, g) : Matches(r.opt[q], r.opt[o])
    <2>1. MoveOption(r, o, g) = Returns(new)
      BY <1>1, <1>3 DEF MoveOption, RegistryType
    <2>2. new \in RegistryType
      <3>1. home \in [Options -> Apps \cup {Nobody}]
        BY <1>1 DEF RegistryType
      <3>2. place \in [Options -> Nat]
        <4>1. Erased(r.place, OptionsOf(r, p), o) \in [Options -> Nat]
          BY <1>1, ErasedType DEF RegistryType
        <4>. QED
          BY <4>1, CountsType
      <3>. HIDE DEF home, place
      <3>. QED
        BY <1>1, <3>1, <3>2, MovedType
    <2>3. /\ new.apps = r.apps /\ new.options = r.options /\ new.owner = r.owner
          /\ new.opt = r.opt /\ new.pointer = r.pointer
          /\ \A q \in Options : new.home[q] = IF q = o THEN g ELSE r.home[q]
      BY <1>1 DEF RegistryType
    <2>. HIDE DEF new
    <2>4. Numbered(new)
      BY <2>3 DEF Good, Numbered
    <2>5. ASSUME NEW q \in Options, q # o, r.home[q] = g
          PROVE  ~Shadows(r.opt[o], r.opt[q]) /\ ~Shadows(r.opt[q], r.opt[o])
      <3>1. ~Matches(r.opt[q], r.opt[o]) /\ r.opt[q] \in OptionNames /\ r.opt[o] \in OptionNames
        BY <1>1, <1>3, <2>5 DEF OptionsOf, RegistryType
      <3>. QED
        BY <3>1, ShadowsMatch
    <2>6. Distinct(new)
      BY <2>3, <2>5 DEF Good, Distinct
    <2>7. Pointing(new)
      <3>1. \A a \in Apps, s \in Special \ {"version"} :
              r.pointer[a][s] # Nobody => r.pointer[a][s] \in Options \ {o}
        <4>1. \A a \in Apps, s \in Special : r.pointer[a][s] \in Options \cup {Nobody}
          BY <1>1 DEF RegistryType
        <4>2. p \in Apps /\ r.home[o] = p
          BY <1>1, <1>3 DEF RegistryType
        <4>. QED
          BY <1>3, <4>1, <4>2 DEF Good, Pointing
      <3>. QED
        BY <2>3, <3>1 DEF Good, Pointing
    <2>8. Good(new)
      BY <2>2, <2>3, <2>4, <2>6, <2>7 DEF Good
    <2>. QED
      BY <2>1, <2>8 DEF Returns
  <1>. QED
    BY <1>2, <1>3

-----------------------------------------------------------------------------
(* The calls on Apps.                                                      *)

\* The record of one App changes.
LEMMA AppAtGood ==
    ASSUME NEW r, Good(r), NEW a \in Apps, NEW app \in AppType
    PROVE  Good([r EXCEPT !.app[a] = app])
  <1>. DEFINE new == [r EXCEPT !.app[a] = app]
  <1>1. new \in RegistryType
    BY DEF Good, RegistryType
  <1>2. /\ new.apps = r.apps /\ new.options = r.options /\ new.home = r.home
        /\ new.owner = r.owner /\ new.opt = r.opt /\ new.pointer = r.pointer
    BY DEF Good, RegistryType
  <1>. QED
    BY <1>1, <1>2, KeptGood DEF Good

LEMMA SwitchedGood ==
    ASSUME NEW r, Good(r), NEW v \in BOOLEAN
    PROVE  Good([r EXCEPT !.switched = v])
  <1>. DEFINE new == [r EXCEPT !.switched = v]
  <1>1. new \in RegistryType
    BY DEF Good, RegistryType
  <1>2. /\ new.apps = r.apps /\ new.options = r.options /\ new.home = r.home
        /\ new.owner = r.owner /\ new.opt = r.opt /\ new.pointer = r.pointer
    BY DEF Good, RegistryType
  <1>. QED
    BY <1>1, <1>2, KeptGood DEF Good

LEMMA CountedGood ==
    ASSUME NEW r, Good(r), NEW n \in Nat
    PROVE  Good([r EXCEPT !.changes = n])
  <1>. DEFINE new == [r EXCEPT !.changes = n]
  <1>1. new \in RegistryType
    BY DEF Good, RegistryType
  <1>2. /\ new.apps = r.apps /\ new.options = r.options /\ new.home = r.home
        /\ new.owner = r.owner /\ new.opt = r.opt /\ new.pointer = r.pointer
    BY DEF Good, RegistryType
  <1>. QED
    BY <1>1, <1>2, KeptGood DEF Good

\* Every operation returns or throws with a registry.
Outcome(result) ==
    \E s : Good(s) /\ result \in {Returns(s), Throws(s)}

LEMMA OutcomeGood ==
    ASSUME NEW result, Outcome(result)
    PROVE  Good(result.reg) /\ result.thrown \in BOOLEAN
  <1>1. PICK s : Good(s) /\ result \in {Returns(s), Throws(s)}
    BY DEF Outcome
  <1>2. CASE result = Returns(s)
    BY <1>1, <1>2 DEF Returns
  <1>3. CASE result = Throws(s)
    BY <1>1, <1>3 DEF Throws
  <1>. QED
    BY <1>1, <1>2, <1>3

LEMMA RenamedGood ==
    ASSUME NEW r, Good(r), NEW a \in Apps, NEW app \in AppType, NEW base
    PROVE  Outcome(Renamed(r, a, app, base))
  <1>1. Good([r EXCEPT !.app[a] = app])
    BY AppAtGood
  <1>. QED
    BY <1>1 DEF Renamed, Outcome

LEMMA NamingGood ==
    ASSUME NEW r, Good(r), NEW a \in Apps
    PROVE  /\ \A n \in AppNamesGiven : Outcome(SetName(r, a, n))
           /\ \A n \in AliasesGiven : Outcome(AddAlias(r, a, n))
           /\ \A v \in BOOLEAN : /\ Outcome(IgnoreCase(r, a, v))
                                 /\ Outcome(IgnoreUnderscore(r, a, v))
  <1>1. r.app[a] \in AppType
    BY DEF Good, RegistryType
  <1>2. ASSUME NEW n \in AppNamesGiven
        PROVE  Outcome(SetName(r, a, n))
    <2>1. [r.app[a] EXCEPT !.name = n] \in AppType
      BY <1>1, RegistryAssumption DEF AppType
    <2>. QED
      BY <2>1, RenamedGood, SetNameRestores DEF Good
  <1>3. ASSUME NEW n \in AliasesGiven
        PROVE  Outcome(AddAlias(r, a, n))
    <2>1. n \in Names /\ [r.app[a] EXCEPT !.aliases = Append(@, n)] \in AppType
      <3>1. n \in Names /\ Append(r.app[a].aliases, n) \in Seq(Names)
        BY <1>1, RegistryAssumption, AliasesType
      <3>. QED
        BY <1>1, <3>1 DEF AppType
    <2>. QED
      BY <2>1, RenamedGood, AddAliasRestores DEF Good
  <1>4. ASSUME NEW v \in BOOLEAN
        PROVE  Outcome(IgnoreCase(r, a, v)) /\ Outcome(IgnoreUnderscore(r, a, v))
    <2>1. /\ [r.app[a] EXCEPT !.ignoreCase = v] \in AppType
          /\ [r.app[a] EXCEPT !.ignoreUnderscore = v] \in AppType
      BY <1>1 DEF AppType
    <2>. QED
      BY <2>1, RenamedGood, IgnoreCaseRestores, IgnoreUnderscoreRestores DEF Good
  <1>. QED
    BY <1>2, <1>3, <1>4

LEMMA SwitchGood ==
    ASSUME NEW r, Good(r), NEW a \in Apps, NEW v \in BOOLEAN
    PROVE  /\ Outcome(Disabled(r, a, v))
           /\ \A mode \in {"enabled", "disabled"} : Outcome(ByDefault(r, a, mode, v))
           /\ Outcome(Trigger(r, a, v))
  <1>1. r \in RegistryType /\ r.app[a] \in AppType
    BY DEF Good, RegistryType
  <1>2. Outcome(Disabled(r, a, v))
    <2>1. [r.app[a] EXCEPT !.disabled = v] \in AppType
      BY <1>1 DEF AppType
    <2>2. Good([r EXCEPT !.app[a] = [r.app[a] EXCEPT !.disabled = v]])
      BY <2>1, AppAtGood
    <2>3. PICK s : s = [r EXCEPT !.app[a] = [r.app[a] EXCEPT !.disabled = v]]
      OBVIOUS
    <2>4. Good([s EXCEPT !.switched = r.switched \/ v])
      BY <1>1, <2>2, <2>3, SwitchedGood DEF RegistryType
    <2>5. [r EXCEPT !.app[a].disabled = v, !.switched = @ \/ v]
            = [s EXCEPT !.switched = r.switched \/ v]
      BY <1>1, <2>3 DEF RegistryType
    <2>. QED
      BY <2>4, <2>5 DEF Disabled, Outcome
  <1>3. ASSUME NEW s, Good(s), NEW mode \in {"enabled", "disabled"}, NEW u \in BOOLEAN
        PROVE  Outcome(ByDefault(s, a, mode, u)) /\ Good(ByDefault(s, a, mode, u).reg)
    <2>1. s.app[a] \in AppType /\ s \in RegistryType
      BY <1>3 DEF Good, RegistryType
    <2>2. PICK t : t = IF u THEN mode
                       ELSE IF s.app[a].startup = mode THEN "stable" ELSE s.app[a].startup
      OBVIOUS
    <2>3. t \in Startups
      BY <2>1, <2>2 DEF AppType, Startups
    <2>4. [s.app[a] EXCEPT !.startup = t] \in AppType
      BY <2>1, <2>3 DEF AppType
    <2>5. Good([s EXCEPT !.app[a] = [s.app[a] EXCEPT !.startup = t]])
      BY <1>3, <2>4, AppAtGood
    <2>6. ByDefault(s, a, mode, u) = Returns([s EXCEPT !.app[a] = [s.app[a] EXCEPT !.startup = t]])
      BY <2>1, <2>2 DEF ByDefault, RegistryType, AppType
    <2>. QED
      BY <2>5, <2>6, OutcomeGood DEF Outcome
  <1>4. Outcome(Trigger(r, a, v))
    <2>1. PICK on, off : /\ on \in {"enabled", "disabled"} /\ off \in {"enabled", "disabled"}
                         /\ Trigger(r, a, v) =
                                ByDefault(ByDefault(r, a, off, FALSE).reg, a, on, TRUE)
      BY DEF Trigger
    <2>2. PICK s : s = ByDefault(r, a, off, FALSE).reg
      OBVIOUS
    <2>3. Good(s)
      BY <1>3, <2>1, <2>2
    <2>. QED
      BY <1>3, <2>1, <2>2, <2>3
  <1>. QED
    BY <1>2, <1>3, <1>4

LEMMA ConfiguredGood ==
    ASSUME NEW r, Good(r)
    PROVE  Good(Configured(r))
  <1>. DEFINE off(a) == IF r.app[a].startup = "stable" THEN r.app[a].disabled
                        ELSE r.app[a].startup = "disabled"
              app == [a \in Apps |->
                        IF ~Lives(r, a) THEN r.app[a]
                        ELSE [r.app[a] EXCEPT !.disabled = off(a),
                                !.fallthrough = @ /\ (a = Root \/ ~Nameless(r, a))]]
              switched == r.switched \/ \E a \in Apps : Lives(r, a) /\ off(a)
              new == [r EXCEPT !.app = app, !.switched = switched]
  <1>1. r \in RegistryType
    BY DEF Good
  <1>2. Configured(r) = new
    BY <1>1 DEF Configured, RegistryType
  <1>3. app \in [Apps -> AppType]
    <2>1. ASSUME NEW a \in Apps, NEW v \in BOOLEAN, NEW w \in BOOLEAN
          PROVE  [r.app[a] EXCEPT !.disabled = v, !.fallthrough = w] \in AppType
      <3>1. r.app[a] \in AppType
        BY <1>1 DEF RegistryType
      <3>2. PICK x : x = [r.app[a] EXCEPT !.disabled = v]
        OBVIOUS
      <3>3. x \in AppType
        BY <3>1, <3>2 DEF AppType
      <3>4. [x EXCEPT !.fallthrough = w] \in AppType
        BY <3>3 DEF AppType
      <3>. QED
        BY <3>1, <3>2, <3>4 DEF AppType
    <2>2. ASSUME NEW a \in Apps
          PROVE  off(a) \in BOOLEAN /\ r.app[a].fallthrough \in BOOLEAN /\ r.app[a] \in AppType
      BY <1>1 DEF RegistryType, AppType
    <2>. HIDE DEF off
    <2>3. ASSUME NEW a \in Apps
          PROVE  app[a] \in AppType
      BY <2>1, <2>2
    <2>. QED
      BY <2>3
  <1>4. switched \in BOOLEAN
    BY <1>1 DEF RegistryType
  <1>. HIDE DEF app, switched
  <1>5. new \in RegistryType
    BY <1>1, <1>3, <1>4 DEF RegistryType
  <1>6. /\ new.apps = r.apps /\ new.options = r.options /\ new.home = r.home
        /\ new.owner = r.owner /\ new.opt = r.opt /\ new.pointer = r.pointer
    BY <1>1 DEF RegistryType
  <1>. QED
    BY <1>2, <1>5, <1>6, KeptGood DEF Good

-----------------------------------------------------------------------------
(* The calls on the tree.                                                  *)

LEMMA TreeType ==
    ASSUME NEW r \in RegistryType, NEW n \in Nat, NEW app \in [Apps -> AppType],
           NEW parent \in [Apps -> Apps \cup {Nobody}], NEW seat \in [Apps -> Nat]
    PROVE  [r EXCEPT !.apps = n, !.parent = parent, !.seat = seat, !.app = app] \in RegistryType
  BY DEF RegistryType

\* An App comes to the tree.
Grown(r, p, n) ==
    LET a == r.apps + 1
    IN  [r EXCEPT !.apps = a, !.parent[a] = p, !.seat[a] = LastSeat(r, p),
                  !.app[a] = [NewApp EXCEPT !.name = n]]

LEMMA GrownGood ==
    ASSUME NEW r, Good(r), NEW p \in Apps, NEW n \in Names \cup {NoName},
           NEW a \in Apps, a = r.apps + 1,
           NEW new, new = Grown(r, p, n)
    PROVE  Good(new) /\ new.options = r.options /\ new.opt = r.opt /\ new.apps = a
  <1>. DEFINE parent == [r.parent EXCEPT ![a] = p]
              seat   == [r.seat EXCEPT ![a] = LastSeat(r, p)]
              app    == [r.app EXCEPT ![a] = [NewApp EXCEPT !.name = n]]
  <1>1. r \in RegistryType
    BY DEF Good
  <1>2. new = [r EXCEPT !.apps = a, !.parent = parent, !.seat = seat, !.app = app]
    BY <1>1 DEF Grown, RegistryType
  <1>3. [NewApp EXCEPT !.name = n] \in AppType
    BY AliasesType DEF NewApp, AppType, Startups
  <1>4. /\ parent \in [Apps -> Apps \cup {Nobody}] /\ seat \in [Apps -> Nat]
        /\ app \in [Apps -> AppType] /\ a \in Nat
    BY <1>1, <1>3, CountsType, BoundsType DEF RegistryType
  <1>. HIDE DEF parent, seat, app
  <1>5. [r EXCEPT !.apps = a, !.parent = parent, !.seat = seat, !.app = app] \in RegistryType
    BY <1>1, <1>4, TreeType
  <1>6. /\ new.apps = a /\ new.options = r.options /\ new.home = r.home
        /\ new.owner = r.owner /\ new.opt = r.opt /\ new.pointer = r.pointer
    BY <1>1, <1>2 DEF RegistryType
  <1>. QED
    BY <1>2, <1>5, <1>6, KeptGood

LEMMA InheritingType ==
    ASSUME NEW x \in AppType, NEW y \in AppType
    PROVE  Inheriting(x, y) \in AppType
  BY DEF Inheriting, AppType

LEMMA TakenOutGood ==
    ASSUME NEW r, Good(r), NEW a \in Apps
    PROVE  Good(TakenOut(r, a)) /\ TakenOut(r, a).apps = r.apps
  <1>. DEFINE p == r.parent[a]
              forgotten(links) == { l \in links :
                  \/ l[2] = a /\ r.parent[l[1]] = p
                  \/ l[1] = a /\ r.parent[l[2]] = p }
              excludes == r.appExcludes \ forgotten(r.appExcludes)
              needs    == { l \in r.appNeeds : ~(l[2] = a /\ r.parent[l[1]] = p) }
              parent   == [r.parent EXCEPT ![a] = Nobody]
              seat     == Erased(r.seat, Subcommands(r, p), a)
              new      == [r EXCEPT !.appExcludes = excludes, !.appNeeds = needs,
                                    !.parent = parent, !.seat = seat]
  <1>1. r \in RegistryType
    BY DEF Good
  <1>2. TakenOut(r, a) = new
    BY <1>1 DEF TakenOut, RegistryType
  <1>3. /\ excludes \in SUBSET (Apps \X Apps) /\ needs \in SUBSET (Apps \X Apps)
        /\ parent \in [Apps -> Apps \cup {Nobody}]
    BY <1>1 DEF RegistryType
  <1>4. seat \in [Apps -> Nat]
    BY <1>1, ErasedType DEF RegistryType
  <1>. HIDE DEF excludes, needs, parent, seat
  <1>5. new \in RegistryType
    BY <1>1, <1>3, <1>4 DEF RegistryType
  <1>6. /\ new.apps = r.apps /\ new.options = r.options /\ new.home = r.home
        /\ new.owner = r.owner /\ new.opt = r.opt /\ new.pointer = r.pointer
    BY <1>1 DEF RegistryType
  <1>. QED
    BY <1>2, <1>5, <1>6, KeptGood DEF Good

LEMMA DestroyedType ==
    ASSUME NEW r \in RegistryType, NEW parent \in [Apps -> Apps \cup {Nobody}],
           NEW home \in [Options -> Apps \cup {Nobody}],
           NEW seat \in [Apps -> Nat], NEW place \in [Options -> Nat],
           NEW pointer \in [Apps -> [Special -> Options \cup {Nobody}]]
    PROVE  [r EXCEPT !.parent = parent, !.home = home, !.seat = seat, !.place = place,
                     !.pointer = pointer] \in RegistryType
  BY DEF RegistryType

LEMMA LinksType ==
    ASSUME NEW r \in RegistryType,
           NEW needs \in SUBSET (Options \X Options),
           NEW excludes \in SUBSET (Options \X Options),
           NEW appNeeds \in SUBSET (Apps \X Apps),
           NEW appExcludes \in SUBSET (Apps \X Apps),
           NEW appNeedsOption \in SUBSET (Apps \X Options),
           NEW appExcludesOption \in SUBSET (Apps \X Options)
    PROVE  [r EXCEPT !.needs = needs, !.excludes = excludes,
                     !.appNeeds = appNeeds, !.appExcludes = appExcludes,
                     !.appNeedsOption = appNeedsOption,
                     !.appExcludesOption = appExcludesOption] \in RegistryType
  BY DEF RegistryType

\* What is destroyed is in no list, and nothing leads to it.
LEMMA DestroyedGood ==
    ASSUME NEW r, Good(r), NEW S
    PROVE  Good(Destroyed(r, S))
  <1>. DEFINE lost     == {o \in Options : r.home[o] \in S}
              parent   == [a \in Apps |-> IF a \in S THEN Nobody ELSE r.parent[a]]
              home     == [o \in Options |-> IF o \in lost THEN Nobody ELSE r.home[o]]
              seat     == [a \in Apps |-> IF a \in S THEN 0 ELSE r.seat[a]]
              place    == [o \in Options |-> IF o \in lost THEN 0 ELSE r.place[o]]
              pointer  == [a \in Apps |->
                              IF a \in S THEN [s \in Special |-> Nobody] ELSE r.pointer[a]]
              needs    == {l \in r.needs : l[1] \notin lost}
              excludes == {l \in r.excludes : l[1] \notin lost}
              appNeeds == {l \in r.appNeeds : l[1] \notin S}
              appExcludes == {l \in r.appExcludes : l[1] \notin S}
              appNeedsOption == {l \in r.appNeedsOption : l[1] \notin S}
              appExcludesOption == {l \in r.appExcludesOption : l[1] \notin S}
              new == [r EXCEPT !.parent = parent, !.home = home, !.seat = seat, !.place = place,
                        !.pointer = pointer, !.needs = needs, !.excludes = excludes,
                        !.appNeeds = appNeeds, !.appExcludes = appExcludes,
                        !.appNeedsOption = appNeedsOption,
                        !.appExcludesOption = appExcludesOption]
  <1>1. r \in RegistryType
    BY DEF Good
  <1>2. Destroyed(r, S) = new
    BY <1>1, Zenon DEF Destroyed
  <1>3. /\ parent \in [Apps -> Apps \cup {Nobody}] /\ home \in [Options -> Apps \cup {Nobody}]
        /\ seat \in [Apps -> Nat] /\ place \in [Options -> Nat]
        /\ needs \in SUBSET (Options \X Options) /\ excludes \in SUBSET (Options \X Options)
        /\ appNeeds \in SUBSET (Apps \X Apps) /\ appExcludes \in SUBSET (Apps \X Apps)
        /\ appNeedsOption \in SUBSET (Apps \X Options)
        /\ appExcludesOption \in SUBSET (Apps \X Options)
    BY <1>1 DEF RegistryType
  <1>4. pointer \in [Apps -> [Special -> Options \cup {Nobody}]]
    BY <1>1 DEF RegistryType
  <1>5. \A a \in Apps, s \in Special :
            pointer[a][s] = IF a \in S THEN Nobody ELSE r.pointer[a][s]
    OBVIOUS
  <1>6. \A o \in Options : home[o] = IF r.home[o] \in S THEN Nobody ELSE r.home[o]
    OBVIOUS
  <1>. HIDE DEF lost, parent, home, seat, place, pointer, needs, excludes, appNeeds,
                appExcludes, appNeedsOption, appExcludesOption
  <1>7. new \in RegistryType
    <2>1. [r EXCEPT !.parent = parent, !.home = home, !.seat = seat, !.place = place,
                    !.pointer = pointer] \in RegistryType
      BY ONLY <1>1, <1>3, <1>4, DestroyedType
    <2>2. PICK x \in RegistryType :
            x = [r EXCEPT !.parent = parent, !.home = home, !.seat = seat, !.place = place,
                          !.pointer = pointer]
      BY ONLY <2>1
    <2>3. [x EXCEPT !.needs = needs, !.excludes = excludes,
                    !.appNeeds = appNeeds, !.appExcludes = appExcludes,
                    !.appNeedsOption = appNeedsOption,
                    !.appExcludesOption = appExcludesOption] \in RegistryType
      BY ONLY <1>3, LinksType
    <2>4. new = [x EXCEPT !.needs = needs, !.excludes = excludes,
                          !.appNeeds = appNeeds, !.appExcludes = appExcludes,
                          !.appNeedsOption = appNeedsOption,
                          !.appExcludesOption = appExcludesOption]
      BY ONLY <1>1, <2>2 DEF RegistryType, new
    <2>. QED
      BY ONLY <2>3, <2>4
  <1>8. /\ new.apps = r.apps /\ new.options = r.options /\ new.home = home
        /\ new.owner = r.owner /\ new.opt = r.opt /\ new.pointer = pointer
    BY <1>1 DEF RegistryType
  <1>. HIDE DEF new
  <1>9. Pointing(new)
    <2>1. \A a \in Apps, s \in Special : r.pointer[a][s] \in Options \cup {Nobody}
      BY <1>1 DEF RegistryType
    <2>. QED
      BY <1>5, <1>6, <1>8, <2>1 DEF Good, Pointing
  <1>10. \A o \in Options : new.home[o] \in {r.home[o], Nobody}
    BY <1>6, <1>8
  <1>11. new.apps \in Apps
    BY <1>8 DEF Good
  <1>12. Good(new)
    BY <1>7, <1>8, <1>9, <1>10, <1>11, ShrunkGood
  <1>. QED
    BY <1>2, <1>12

LEMMA AttachedGood ==
    ASSUME NEW lost, Good(lost), NEW new, Good(new), NEW a, NEW p
    PROVE  Outcome(Attached(lost, new, a, p))
  BY DEF Attached, Outcome

LEMMA RemoveSubcommandGood ==
    ASSUME NEW r, Good(r), NEW a \in Apps
    PROVE  Outcome(RemoveSubcommand(r, a))
  <1>1. Good(TakenOut(r, a))
    BY TakenOutGood
  <1>2. Good(Destroyed(TakenOut(r, a), Under(r, a)))
    BY <1>1, DestroyedGood
  <1>. QED
    BY <1>2 DEF RemoveSubcommand, Outcome

LEMMA SeatedType ==
    ASSUME NEW r \in RegistryType, NEW a \in Apps, NEW g \in Apps, NEW n \in Nat
    PROVE  [r EXCEPT !.parent[a] = g, !.seat[a] = n] \in RegistryType
  BY DEF RegistryType

LEMMA MoveSubcommandGood ==
    ASSUME NEW r, Good(r), NEW a \in Apps, NEW g \in Apps
    PROVE  Outcome(MoveSubcommand(r, a, g))
  <1>1. PICK out : out = TakenOut(r, a)
    OBVIOUS
  <1>2. Good(out) /\ out \in RegistryType
    BY <1>1, TakenOutGood DEF Good
  <1>3. PICK n : n = LastSeat(out, g)
    OBVIOUS
  <1>4. n \in Nat
    BY <1>3, CountsType
  <1>5. PICK new : new = [out EXCEPT !.parent[a] = g, !.seat[a] = n]
    OBVIOUS
  <1>6. new \in RegistryType
    BY <1>2, <1>4, <1>5, SeatedType
  <1>7. /\ new.apps = out.apps /\ new.options = out.options /\ new.home = out.home
        /\ new.owner = out.owner /\ new.opt = out.opt /\ new.pointer = out.pointer
    BY <1>2, <1>5 DEF RegistryType
  <1>8. Good(new)
    BY <1>2, <1>6, <1>7, KeptGood DEF Good
  <1>9. Good(Destroyed(out, Under(r, a)))
    BY <1>2, DestroyedGood
  <1>10. MoveSubcommand(r, a, g) = Attached(Destroyed(out, Under(r, a)), new, a, g)
    BY <1>1, <1>3, <1>5 DEF MoveSubcommand
  <1>. QED
    BY <1>8, <1>9, <1>10, AttachedGood

\* The help flags repeated in a new App.
RepeatedNames(r, p, s) ==
    IF r.pointer[p][s] = Nobody THEN NoOption ELSE AllNames(r.opt[r.pointer[p][s]])

LEMMA RepeatedGood ==
    ASSUME NEW r, Good(r), NEW p \in Apps, NEW s \in Special
    PROVE  /\ RepeatedNames(r, p, s) \in OptionNames /\ Repeated(r, p, s) \in {0, 1}
           /\ Repeated(r, p, s) = 0 => RepeatedNames(r, p, s) = NoOption
  <1>1. r.pointer[p][s] \in Options \cup {Nobody}
    BY DEF Good, RegistryType
  <1>2. NoOption \in OptionNames
    BY DEF NoOption, Declaration, OptionNames
  <1>3. ASSUME NEW o \in Options
        PROVE  AllNames(r.opt[o]) \in OptionNames
    BY DEF Good, RegistryType, AllNames, OptionNames, Declaration
  <1>. QED
    BY <1>1, <1>2, <1>3 DEF RepeatedNames, Repeated

LEMMA ConstructedGood ==
    ASSUME NEW r, Good(r), NEW p \in Apps, NEW n \in Names \cup {NoName},
           NEW a, a = r.apps + 1, a \in Apps,
           r.options + Repeated(r, p, "help") + Repeated(r, p, "helpAll") <= MaxOptions
    PROVE  /\ Outcome(Constructed(r, p, n))
           /\ \/ Constructed(r, p, n) = Throws(r)
              \/ /\ SameBonds(Constructed(r, p, n).reg, Grown(r, p, n))
                 /\ Constructed(r, p, n).reg.switched = r.switched
                 /\ Constructed(r, p, n).reg.app =
                        [r.app EXCEPT ![a] = Inheriting([NewApp EXCEPT !.name = n], r.app[p])]
  <1>. DEFINE names(s) == RepeatedNames(r, p, s)
              blank == Grown(r, p, n)
              help  == SetSpecial(blank, a, "help", names("help"))
              both  == SetSpecial(help.reg, a, "helpAll", names("helpAll"))
              built == [both.reg EXCEPT !.app[a] = Inheriting(both.reg.app[a], r.app[p])]
  <1>1. /\ r.options \in Nat /\ MaxOptions \in Nat
        /\ "help" \in Special /\ "helpAll" \in Special
        /\ r.app[p] \in AppType
    BY BoundsType DEF Good, RegistryType, Special
  <1>2. Constructed(r, p, n) = IF help.thrown \/ both.thrown THEN Throws(r) ELSE Returns(built)
    <2>1. Constructed(r, p, n) =
              ThenInherit(ThenRepeat(ThenRepeat(Returns(blank), r, a, p, "help"),
                                     r, a, p, "helpAll"), r, a, p)
      BY DEF Constructed, Grown
    <2>. HIDE DEF blank
    <2>2. ThenRepeat(Returns(blank), r, a, p, "help") = help
      BY DEF ThenRepeat, Returns, RepeatedNames
    <2>. HIDE DEF help
    <2>3. ThenRepeat(help, r, a, p, "helpAll") = IF help.thrown THEN help ELSE both
      BY DEF ThenRepeat, RepeatedNames
    <2>. HIDE DEF both
    <2>. QED
      BY <2>1, <2>2, <2>3 DEF ThenInherit
  <1>3. Good(blank) /\ blank.options = r.options
    BY GrownGood
  <1>4. /\ names("help") \in OptionNames /\ names("helpAll") \in OptionNames
        /\ Repeated(r, p, "help") \in {0, 1} /\ Repeated(r, p, "helpAll") \in {0, 1}
        /\ Repeated(r, p, "help") = 0 => names("help") = NoOption
        /\ Repeated(r, p, "helpAll") = 0 => names("helpAll") = NoOption
    BY <1>1, RepeatedGood
  <1>. HIDE DEF names, blank
  <1>5. names("help") = NoOption \/ blank.options < MaxOptions
    BY <1>1, <1>3, <1>4
  <1>6. /\ Good(help.reg) /\ help.reg.options <= blank.options + 1
        /\ names("help") = NoOption => help.reg.options = blank.options
        /\ SameTree(help.reg, blank)
    BY <1>1, <1>3, <1>4, <1>5, SetSpecialGood
  <1>. HIDE DEF help
  <1>7. names("helpAll") = NoOption \/ help.reg.options < MaxOptions
    <2>1. help.reg.options \in Nat
      BY <1>6 DEF Good, RegistryType
    <2>. QED
      BY <1>1, <1>3, <1>4, <1>6, <2>1
  <1>8. Good(both.reg) /\ SameTree(both.reg, help.reg)
    BY <1>1, <1>4, <1>6, <1>7, SetSpecialGood
  <1>. HIDE DEF both
  <1>9. both.reg.app[a] \in AppType
    BY <1>8 DEF Good, RegistryType
  <1>10. Good(built)
    BY <1>1, <1>8, <1>9, InheritingType, AppAtGood
  <1>11. SameBonds(built, both.reg)
    BY <1>8 DEF SameBonds, Good, RegistryType
  <1>12. SameBonds(built, Grown(r, p, n))
    BY <1>6, <1>8, <1>11 DEF SameTree, SameBonds, blank
  <1>13. Throws(r).reg = r /\ Returns(built).reg = built
    BY DEF Throws, Returns
  <1>14. PICK app : app = [NewApp EXCEPT !.name = n]
    OBVIOUS
  <1>15. both.reg.app = [r.app EXCEPT ![a] = app] /\ both.reg.switched = r.switched
    <2>1. blank.app = [r.app EXCEPT ![a] = app] /\ blank.switched = r.switched
      BY <1>14 DEF blank, Grown, Good, RegistryType
    <2>. QED
      BY <1>6, <1>8, <2>1 DEF SameTree
  <1>16. /\ built.app = [both.reg.app EXCEPT ![a] = Inheriting(both.reg.app[a], r.app[p])]
         /\ built.switched = both.reg.switched
    BY <1>8 DEF Good, RegistryType
  <1>17. built.app = [r.app EXCEPT ![a] = Inheriting(app, r.app[p])]
         /\ built.switched = r.switched
    <2>1. r.app \in [Apps -> AppType]
      BY DEF Good, RegistryType
    <2>. QED
      BY <1>15, <1>16, <2>1
  <1>. QED
    BY <1>2, <1>10, <1>12, <1>13, <1>14, <1>17 DEF Outcome

LEMMA AddSubcommandGood ==
    ASSUME NEW r, Good(r), NEW p \in Apps, NEW n \in Names \cup {NoName},
           r.apps + 1 \in Apps,
           r.options + Repeated(r, p, "help") + Repeated(r, p, "helpAll") <= MaxOptions
    PROVE  Outcome(AddSubcommand(r, p, n))
  <1>1. PICK new : new = Constructed(r, p, n)
    OBVIOUS
  <1>2. Outcome(new)
    BY <1>1, ConstructedGood
  <1>3. AddSubcommand(r, p, n) = IF new.thrown THEN new ELSE Attached(r, new.reg, r.apps + 1, p)
    BY <1>1 DEF AddSubcommand, ThenAttached
  <1>. QED
    BY <1>2, <1>3, OutcomeGood, AttachedGood

LEMMA AddOptionGroupGood ==
    ASSUME NEW r, Good(r), NEW p \in Apps, NEW a, a = r.apps + 1, a \in Apps,
           r.options + Repeated(r, p, "help") + Repeated(r, p, "helpAll") <= MaxOptions
    PROVE  Outcome(AddOptionGroup(r, p))
  <1>1. PICK new : new = Constructed(r, p, NoName)
    OBVIOUS
  <1>2. Outcome(new) /\ Good(new.reg)
    BY <1>1, ConstructedGood, OutcomeGood
  <1>3. PICK app : app = [new.reg.app[a] EXCEPT !.fallthrough = FALSE, !.group = TRUE]
    OBVIOUS
  <1>4. new.reg \in RegistryType /\ new.reg.app[a] \in AppType
    BY <1>2 DEF Good, RegistryType
  <1>5. app \in AppType
    BY <1>3, <1>4 DEF AppType
  <1>6. PICK plain : plain = [new.reg EXCEPT !.app[a] = app]
    OBVIOUS
  <1>7. Good(plain)
    BY <1>2, <1>5, <1>6, AppAtGood
  <1>8. plain = [new.reg EXCEPT !.app[a].fallthrough = FALSE, !.app[a].group = TRUE]
    BY <1>3, <1>4, <1>6 DEF RegistryType, AppType
  <1>9. Good(SetSpecial(plain, a, "help", NoOption).reg)
    <2>1. NoOption \in OptionNames /\ "help" \in Special
      BY DEF NoOption, Declaration, OptionNames, Special
    <2>. QED
      BY <1>7, <2>1, SetSpecialGood
  <1>10. AddOptionGroup(r, p) =
            IF new.thrown THEN new
            ELSE Attached(r, SetSpecial(plain, a, "help", NoOption).reg, a, p)
    BY <1>1, <1>8 DEF AddOptionGroup, ThenAttached, ThenGroup, SetSpecial, Returns
  <1>. QED
    BY <1>2, <1>9, <1>10, AttachedGood

-----------------------------------------------------------------------------
(* The calls on links.                                                     *)

\* Only links change.
LEMMA LinksKept ==
    ASSUME NEW r, Good(r), NEW new \in RegistryType,
           new.apps = r.apps, new.options = r.options, new.home = r.home,
           new.owner = r.owner, new.opt = r.opt, new.pointer = r.pointer
    PROVE  Outcome(Returns(new))
  BY KeptGood DEF Good, Outcome

LEMMA OptionLinksGood ==
    ASSUME NEW r, Good(r), NEW links \in SUBSET (Options \X Options)
    PROVE  /\ Outcome(Returns([r EXCEPT !.needs = links]))
           /\ Outcome(Returns([r EXCEPT !.excludes = links]))
  <1>1. r \in RegistryType
    BY DEF Good
  <1>2. Outcome(Returns([r EXCEPT !.needs = links]))
    <2>1. PICK new : new = [r EXCEPT !.needs = links]
      OBVIOUS
    <2>2. /\ new \in RegistryType
          /\ new.apps = r.apps /\ new.options = r.options /\ new.home = r.home
          /\ new.owner = r.owner /\ new.opt = r.opt /\ new.pointer = r.pointer
      BY <1>1, <2>1 DEF RegistryType
    <2>. QED
      BY <2>1, <2>2, LinksKept
  <1>3. Outcome(Returns([r EXCEPT !.excludes = links]))
    <2>1. PICK new : new = [r EXCEPT !.excludes = links]
      OBVIOUS
    <2>2. /\ new \in RegistryType
          /\ new.apps = r.apps /\ new.options = r.options /\ new.home = r.home
          /\ new.owner = r.owner /\ new.opt = r.opt /\ new.pointer = r.pointer
      BY <1>1, <2>1 DEF RegistryType
    <2>. QED
      BY <2>1, <2>2, LinksKept
  <1>. QED
    BY <1>2, <1>3

LEMMA AppLinksGood ==
    ASSUME NEW r, Good(r), NEW links \in SUBSET (Apps \X Apps)
    PROVE  /\ Outcome(Returns([r EXCEPT !.appNeeds = links]))
           /\ Outcome(Returns([r EXCEPT !.appExcludes = links]))
  <1>1. r \in RegistryType
    BY DEF Good
  <1>2. Outcome(Returns([r EXCEPT !.appNeeds = links]))
    <2>1. PICK new : new = [r EXCEPT !.appNeeds = links]
      OBVIOUS
    <2>2. /\ new \in RegistryType
          /\ new.apps = r.apps /\ new.options = r.options /\ new.home = r.home
          /\ new.owner = r.owner /\ new.opt = r.opt /\ new.pointer = r.pointer
      BY <1>1, <2>1 DEF RegistryType
    <2>. QED
      BY <2>1, <2>2, LinksKept
  <1>3. Outcome(Returns([r EXCEPT !.appExcludes = links]))
    <2>1. PICK new : new = [r EXCEPT !.appExcludes = links]
      OBVIOUS
    <2>2. /\ new \in RegistryType
          /\ new.apps = r.apps /\ new.options = r.options /\ new.home = r.home
          /\ new.owner = r.owner /\ new.opt = r.opt /\ new.pointer = r.pointer
      BY <1>1, <2>1 DEF RegistryType
    <2>. QED
      BY <2>1, <2>2, LinksKept
  <1>. QED
    BY <1>2, <1>3

LEMMA AppOptionLinksGood ==
    ASSUME NEW r, Good(r), NEW links \in SUBSET (Apps \X Options),
           NEW others \in SUBSET (Apps \X Options)
    PROVE  /\ Outcome(Returns([r EXCEPT !.appNeedsOption = links]))
           /\ Outcome(Returns([r EXCEPT !.appExcludesOption = links]))
           /\ Outcome(Returns([r EXCEPT !.appNeedsOption = links,
                                        !.appExcludesOption = others]))
  <1>1. r \in RegistryType
    BY DEF Good
  <1>2. Outcome(Returns([r EXCEPT !.appNeedsOption = links]))
    <2>1. PICK new : new = [r EXCEPT !.appNeedsOption = links]
      OBVIOUS
    <2>2. /\ new \in RegistryType
          /\ new.apps = r.apps /\ new.options = r.options /\ new.home = r.home
          /\ new.owner = r.owner /\ new.opt = r.opt /\ new.pointer = r.pointer
      BY <1>1, <2>1 DEF RegistryType
    <2>. QED
      BY <2>1, <2>2, LinksKept
  <1>3. Outcome(Returns([r EXCEPT !.appExcludesOption = links]))
    <2>1. PICK new : new = [r EXCEPT !.appExcludesOption = links]
      OBVIOUS
    <2>2. /\ new \in RegistryType
          /\ new.apps = r.apps /\ new.options = r.options /\ new.home = r.home
          /\ new.owner = r.owner /\ new.opt = r.opt /\ new.pointer = r.pointer
      BY <1>1, <2>1 DEF RegistryType
    <2>. QED
      BY <2>1, <2>2, LinksKept
  <1>4. Outcome(Returns([r EXCEPT !.appNeedsOption = links, !.appExcludesOption = others]))
    <2>1. PICK new : new = [r EXCEPT !.appNeedsOption = links, !.appExcludesOption = others]
      OBVIOUS
    <2>2. /\ new \in RegistryType
          /\ new.apps = r.apps /\ new.options = r.options /\ new.home = r.home
          /\ new.owner = r.owner /\ new.opt = r.opt /\ new.pointer = r.pointer
      BY <1>1, <2>1 DEF RegistryType
    <2>. QED
      BY <2>1, <2>2, LinksKept
  <1>. QED
    BY <1>2, <1>3, <1>4

LEMMA KeptOutcome ==
    ASSUME NEW r, Good(r)
    PROVE  Outcome(Returns(r)) /\ Outcome(Throws(r))
  BY DEF Outcome

LEMMA LinkOptionsGood ==
    ASSUME NEW r, Good(r), NEW o \in Options, NEW p \in Options
    PROVE  /\ Outcome(Needs(r, o, p)) /\ Outcome(Excludes(r, o, p))
           /\ Outcome(RemoveNeeds(r, o, p)) /\ Outcome(RemoveExcludes(r, o, p))
  <1>1. /\ r.needs \in SUBSET (Options \X Options)
        /\ r.excludes \in SUBSET (Options \X Options)
    BY DEF Good, RegistryType
  <1>2. ASSUME NEW links \in SUBSET (Options \X Options)
        PROVE  /\ Outcome(Returns([r EXCEPT !.needs = links]))
               /\ Outcome(Returns([r EXCEPT !.excludes = links]))
    BY OptionLinksGood
  <1>3. Outcome(Needs(r, o, p))
    <2>1. r.needs \cup {<<o, p>>} \in SUBSET (Options \X Options)
      BY <1>1
    <2>. QED
      BY <1>2, <2>1, KeptOutcome DEF Needs
  <1>4. Outcome(Excludes(r, o, p))
    <2>1. r.excludes \cup {<<o, p>>, <<p, o>>} \in SUBSET (Options \X Options)
      BY <1>1
    <2>. QED
      BY <1>2, <2>1, KeptOutcome DEF Excludes
  <1>5. Outcome(RemoveNeeds(r, o, p)) /\ Outcome(RemoveExcludes(r, o, p))
    <2>1. /\ r.needs \ {<<o, p>>} \in SUBSET (Options \X Options)
          /\ r.excludes \ {<<o, p>>} \in SUBSET (Options \X Options)
      BY <1>1
    <2>. QED
      BY <1>2, <2>1 DEF RemoveNeeds, RemoveExcludes
  <1>. QED
    BY <1>3, <1>4, <1>5

LEMMA LinkAppsGood ==
    ASSUME NEW r, Good(r), NEW a \in Apps, NEW b \in Apps
    PROVE  /\ Outcome(AppNeeds(r, a, b)) /\ Outcome(AppExcludes(r, a, b))
           /\ Outcome(AppRemoveNeeds(r, a, b)) /\ Outcome(AppRemoveExcludes(r, a, b))
  <1>1. r.appNeeds \in SUBSET (Apps \X Apps) /\ r.appExcludes \in SUBSET (Apps \X Apps)
    BY DEF Good, RegistryType
  <1>2. ASSUME NEW links \in SUBSET (Apps \X Apps)
        PROVE  /\ Outcome(Returns([r EXCEPT !.appNeeds = links]))
               /\ Outcome(Returns([r EXCEPT !.appExcludes = links]))
    BY AppLinksGood
  <1>3. Outcome(AppNeeds(r, a, b))
    <2>1. r.appNeeds \cup {<<a, b>>} \in SUBSET (Apps \X Apps)
      BY <1>1
    <2>. QED
      BY <1>2, <2>1, KeptOutcome DEF AppNeeds
  <1>4. Outcome(AppExcludes(r, a, b))
    <2>1. PICK links : links = IF <<a, b>> \in r.appExcludes THEN r.appExcludes
                               ELSE r.appExcludes \cup {<<a, b>>, <<b, a>>}
      OBVIOUS
    <2>2. links \in SUBSET (Apps \X Apps)
      BY <1>1, <2>1
    <2>3. AppExcludes(r, a, b) \in {Throws(r), Returns([r EXCEPT !.appExcludes = links])}
      BY <2>1 DEF AppExcludes
    <2>. QED
      BY <1>2, <2>2, <2>3, KeptOutcome
  <1>5. Outcome(AppRemoveNeeds(r, a, b))
    <2>1. r.appNeeds \ {<<a, b>>} \in SUBSET (Apps \X Apps)
      BY <1>1
    <2>. QED
      BY <1>2, <2>1 DEF AppRemoveNeeds
  <1>6. Outcome(AppRemoveExcludes(r, a, b))
    <2>1. PICK links : links = IF <<a, b>> \in r.appExcludes
                               THEN r.appExcludes \ {<<a, b>>, <<b, a>>} ELSE r.appExcludes
      OBVIOUS
    <2>2. links \in SUBSET (Apps \X Apps)
      BY <1>1, <2>1
    <2>3. AppRemoveExcludes(r, a, b) = Returns([r EXCEPT !.appExcludes = links])
      BY <2>1 DEF AppRemoveExcludes
    <2>. QED
      BY <1>2, <2>2, <2>3
  <1>. QED
    BY <1>3, <1>4, <1>5, <1>6

LEMMA LinkAppToOptionGood ==
    ASSUME NEW r, Good(r), NEW a \in Apps, NEW o \in Options
    PROVE  /\ Outcome(AppNeedsOption(r, a, o)) /\ Outcome(AppExcludesOption(r, a, o))
           /\ Outcome(AppRemoveOptionLinks(r, a, o))
  <1>1. /\ r.appNeedsOption \in SUBSET (Apps \X Options)
        /\ r.appExcludesOption \in SUBSET (Apps \X Options)
    BY DEF Good, RegistryType
  <1>2. ASSUME NEW needs \in SUBSET (Apps \X Options), NEW excludes \in SUBSET (Apps \X Options)
        PROVE  /\ Outcome(Returns([r EXCEPT !.appNeedsOption = needs]))
               /\ Outcome(Returns([r EXCEPT !.appExcludesOption = excludes]))
               /\ Outcome(Returns([r EXCEPT !.appNeedsOption = needs,
                                            !.appExcludesOption = excludes]))
    BY AppOptionLinksGood
  <1>3. /\ r.appNeedsOption \cup {<<a, o>>} \in SUBSET (Apps \X Options)
        /\ r.appExcludesOption \cup {<<a, o>>} \in SUBSET (Apps \X Options)
        /\ r.appNeedsOption \ {<<a, o>>} \in SUBSET (Apps \X Options)
        /\ r.appExcludesOption \ {<<a, o>>} \in SUBSET (Apps \X Options)
    BY <1>1
  <1>. QED
    BY <1>2, <1>3 DEF AppNeedsOption, AppExcludesOption, AppRemoveOptionLinks

-----------------------------------------------------------------------------
(* Every call of the program.                                              *)

RegistryInv ==
    /\ Good(reg)
    /\ call \in [op : Operations, thrown : BOOLEAN]

LEMMA InitRegistry == Init => RegistryInv
  <1>. SUFFICES ASSUME Init PROVE RegistryInv
    OBVIOUS
  <1>1. NewApp \in AppType /\ NoOption \in OptionNames /\ 1 \in Apps
    BY BoundsType DEF NewApp, AppType, Startups, NoOption, Declaration, OptionNames, Root
  <1>2. reg \in RegistryType
    BY <1>1 DEF Init, RegistryType
  <1>3. /\ reg.apps = 1 /\ reg.options = 0
        /\ \A o \in Options : reg.home[o] = Nobody
        /\ \A a \in Apps, s \in Special : reg.pointer[a][s] = Nobody
    BY DEF Init
  <1>4. Numbered(reg) /\ Distinct(reg) /\ Pointing(reg)
    BY <1>3 DEF Numbered, Distinct, Pointing
  <1>5. call \in [op : Operations, thrown : BOOLEAN]
    BY DEF Init, Operations
  <1>. QED
    BY <1>1, <1>2, <1>3, <1>4, <1>5, BoundsType DEF RegistryInv, Good

LEMMA CallingGood ==
    ASSUME NEW op \in Operations, NEW family, NEW result, Calling(op, family, result),
           Good(result.reg), result.thrown \in BOOLEAN
    PROVE  RegistryInv'
  BY DEF Calling, RegistryInv, Good, RegistryType, Numbered, Distinct, Pointing

LEMMA SettingGood ==
    ASSUME NEW op \in Operations, NEW family, NEW result, Setting(op, family, result),
           Outcome(result)
    PROVE  RegistryInv'
  <1>1. PICK s : Good(s) /\ result \in {Returns(s), Throws(s)}
    BY DEF Outcome
  <1>2. CASE result = Throws(s)
    <2>1. Calling(op, family, result)
      BY <1>2 DEF Setting, Throws
    <2>. QED
      BY <2>1, CallingGood, OutcomeGood
  <1>3. CASE result = Returns(s)
    <2>1. PICK n \in Nat : n = s.changes + 1
      BY <1>1 DEF Good, RegistryType
    <2>2. PICK t : t = [s EXCEPT !.changes = n]
      OBVIOUS
    <2>3. Good(t)
      BY <1>1, <2>2, CountedGood
    <2>4. Calling(op, family, Returns(t))
      BY <1>3, <2>1, <2>2 DEF Setting, Returns
    <2>5. Returns(t).reg = t /\ Returns(t).thrown = FALSE
      BY DEF Returns
    <2>. QED
      BY <2>3, <2>4, <2>5, CallingGood
  <1>. QED
    BY <1>1, <1>2, <1>3

LEMMA FoldingOutcome ==
    ASSUME NEW r, Good(r), NEW o \in Options, NEW v \in BOOLEAN
    PROVE  Outcome(OptionIgnoreUnderscore(r, o, v))
  <1>1. Good(OptionIgnoreUnderscore(r, o, v).reg)
    BY OptionFoldingGood
  <1>2. PICK s : OptionIgnoreUnderscore(r, o, v) \in {Returns(s), Throws(s)}
    BY DEF OptionIgnoreUnderscore, ComparedOption
  <1>3. Returns(s).reg = s /\ Throws(s).reg = s
    BY DEF Returns, Throws
  <1>. QED
    BY <1>1, <1>2, <1>3 DEF Outcome

LEMMA StepRegistry == RegistryInv /\ [Next]_vars => RegistryInv'
  <1>. SUFFICES ASSUME RegistryInv, [Next]_vars PROVE RegistryInv'
    OBVIOUS
  <1>. USE DEF Operations
  <1>1. /\ Good(reg) /\ Existing \subseteq Apps /\ Declared \subseteq Options
        /\ \A o \in Declared : reg.home[o] # Nobody
    <2>1. /\ reg.apps \in 1..MaxApps /\ reg.options \in Nat /\ reg.options <= MaxOptions
          /\ MaxApps \in Nat /\ MaxOptions \in Nat
      BY BoundsType DEF RegistryInv, Good, RegistryType, Apps
    <2>2. Existing \subseteq Apps
      BY <2>1 DEF Existing, Apps
    <2>3. Declared \subseteq Options
      BY <2>1 DEF Declared, Options
    <2>. QED
      BY <2>2, <2>3 DEF RegistryInv, Declared
  <1>2. CASE NameApp
    <2>1. PICK a \in Existing, n \in AppNamesGiven :
            Calling("app", "names", SetName(reg, a, n))
      BY <1>2 DEF NameApp
    <2>2. Outcome(SetName(reg, a, n))
      BY <1>1, NamingGood
    <2>. QED
      BY <2>1, <2>2, OutcomeGood, CallingGood
  <1>3. CASE AliasApp
    <2>1. PICK a \in Existing :
            \/ \E n \in AliasesGiven : Setting("app", "aliases", AddAlias(reg, a, n))
            \/ Setting("app", "aliases", Returns([reg EXCEPT !.app[a].aliases = <<>>]))
      BY <1>3 DEF AliasApp
    <2>2. CASE \E n \in AliasesGiven : Setting("app", "aliases", AddAlias(reg, a, n))
      BY <1>1, <2>2, NamingGood, SettingGood
    <2>3. CASE Setting("app", "aliases", Returns([reg EXCEPT !.app[a].aliases = <<>>]))
      <3>1. PICK app : app = [reg.app[a] EXCEPT !.aliases = <<>>]
        OBVIOUS
      <3>2. app \in AppType
        <4>1. reg.app[a] \in AppType
          BY <1>1 DEF Good, RegistryType
        <4>. QED
          BY <3>1, <4>1, AliasesType DEF AppType
      <3>3. Good([reg EXCEPT !.app[a] = app])
        BY <1>1, <3>2, AppAtGood
      <3>4. [reg EXCEPT !.app[a].aliases = <<>>] = [reg EXCEPT !.app[a] = app]
        BY <3>1
      <3>5. Outcome(Returns([reg EXCEPT !.app[a].aliases = <<>>]))
        BY <3>3, <3>4 DEF Outcome
      <3>. QED
        BY <2>3, <3>5, SettingGood
    <2>. QED
      BY <2>1, <2>2, <2>3
  <1>4. CASE FoldApp
    <2>1. PICK a \in Existing, v \in BOOLEAN :
            \/ Setting("app", "folding", IgnoreCase(reg, a, v))
            \/ Setting("app", "folding", IgnoreUnderscore(reg, a, v))
      BY <1>4 DEF FoldApp
    <2>2. Outcome(IgnoreCase(reg, a, v)) /\ Outcome(IgnoreUnderscore(reg, a, v))
      BY <1>1, NamingGood
    <2>. QED
      BY <2>1, <2>2, SettingGood
  <1>5. CASE SwitchApp
    <2>1. PICK a \in Existing, v \in BOOLEAN :
            \/ Setting("app", "startup", Disabled(reg, a, v))
            \/ \E mode \in {"enabled", "disabled"} :
                   Setting("app", "startup", ByDefault(reg, a, mode, v))
            \/ Setting("app", "startup", Trigger(reg, a, v))
      BY <1>5 DEF SwitchApp
    <2>2. /\ Outcome(Disabled(reg, a, v)) /\ Outcome(Trigger(reg, a, v))
          /\ \A mode \in {"enabled", "disabled"} : Outcome(ByDefault(reg, a, mode, v))
      BY <1>1, SwitchGood
    <2>. QED
      BY <2>1, <2>2, SettingGood
  <1>6. CASE SetApp
    <2>1. PICK a \in Existing, new \in Settings :
            Setting("app", "settings",
                Returns([reg EXCEPT !.app[a] =
                    [@ EXCEPT !.fallthrough = new.fallthrough, !.prefix = new.prefix,
                              !.optCase = new.optCase, !.optUnderscore = new.optUnderscore]]))
      BY <1>6 DEF SetApp
    <2>2. PICK app : app = [reg.app[a] EXCEPT
                               !.fallthrough = new.fallthrough, !.prefix = new.prefix,
                               !.optCase = new.optCase, !.optUnderscore = new.optUnderscore]
      OBVIOUS
    <2>3. /\ new.fallthrough \in BOOLEAN /\ new.prefix \in BOOLEAN
          /\ new.optCase \in BOOLEAN /\ new.optUnderscore \in BOOLEAN
      BY RegistryAssumption
    <2>4. app \in AppType
      <3>1. reg.app[a] \in AppType
        BY <1>1 DEF Good, RegistryType
      <3>. QED
        BY <2>2, <2>3, <3>1 DEF AppType
    <2>5. Outcome(Returns([reg EXCEPT !.app[a] = app]))
      BY <1>1, <2>4, AppAtGood DEF Outcome
    <2>6. Setting("app", "settings", Returns([reg EXCEPT !.app[a] = app]))
      BY <2>1, <2>2
    <2>. QED
      BY <2>5, <2>6, SettingGood
  <1>7. CASE DeclareOption
    <2>1. PICK a \in Existing, names \in Declarations :
            /\ reg.options < MaxOptions
            /\ \/ Calling("declare", "options", AddOption(reg, a, names))
               \/ Calling("declare", "options", AddFlag(reg, a, names))
      BY <1>7 DEF DeclareOption
    <2>2. names \in OptionNames
      BY RegistryAssumption
    <2>. QED
      BY <1>1, <2>1, <2>2, AddOptionGood, AddFlagGood, CallingGood
  <1>8. CASE NameOption
    <2>1. PICK o \in Declared, v \in BOOLEAN :
            \/ Calling("option", "renaming", OptionIgnoreCase(reg, o, v))
            \/ Setting("option", "folding", OptionIgnoreUnderscore(reg, o, v))
            \/ Setting("option", "folding", Returns([reg EXCEPT !.opt[o].configurable = v]))
            \/ \E n \in EnvironmentGiven :
                Setting("option", "folding", Returns([reg EXCEPT !.opt[o].env = n]))
      BY <1>8 DEF NameOption
    <2>2. CASE Calling("option", "renaming", OptionIgnoreCase(reg, o, v))
      BY <1>1, <2>2, OptionFoldingGood, FoldingThrown, CallingGood
    <2>3. CASE Setting("option", "folding", OptionIgnoreUnderscore(reg, o, v))
      BY <1>1, <2>3, FoldingOutcome, SettingGood
    <2>4. CASE Setting("option", "folding", Returns([reg EXCEPT !.opt[o].configurable = v]))
      <3>1. Outcome(Returns([reg EXCEPT !.opt[o].configurable = v]))
        BY <1>1, OptionFoldingGood DEF Outcome
      <3>. QED
        BY <2>4, <3>1, SettingGood
    <2>5. ASSUME NEW n \in EnvironmentGiven,
                 Setting("option", "folding", Returns([reg EXCEPT !.opt[o].env = n]))
          PROVE  RegistryInv'
      <3>1. Outcome(Returns([reg EXCEPT !.opt[o].env = n]))
        BY <1>1, OptionFoldingGood DEF Outcome
      <3>. QED
        BY <2>5, <3>1, SettingGood
    <2>. QED
      BY <2>1, <2>2, <2>3, <2>4, <2>5
  <1>9. CASE DropOption
    <2>1. PICK o \in Declared, a \in Existing :
            Calling("option", "removal", RemoveOption(reg, a, o))
      BY <1>9 DEF DropOption
    <2>2. Good(RemoveOption(reg, a, o).reg)
      BY <1>1, RemoveOptionGood
    <2>3. RemoveOption(reg, a, o).thrown = FALSE
      BY DEF RemoveOption, Returns
    <2>. QED
      BY <2>1, <2>2, <2>3, CallingGood
  <1>10. CASE PlaceOption
    <2>1. PICK o \in Declared, g \in Existing :
            Calling("option", "groups", MoveOption(reg, o, g))
      BY <1>10 DEF PlaceOption
    <2>. QED
      BY <1>1, <2>1, MoveOptionGood, CallingGood
  <1>11. CASE ReplaceOption
    <2>1. PICK o \in Declared, a \in Existing :
            /\ reg.options < MaxOptions
            /\ Calling("retire", "removal", RetireOption(reg, a, o))
      BY <1>11 DEF ReplaceOption
    <2>. QED
      BY <1>1, <2>1, RetireOptionGood, CallingGood
  <1>12. CASE SetFlag
    <2>1. PICK a \in Existing, s \in Special, names \in Declarations \cup {NoOption} :
            /\ reg.options < MaxOptions
            /\ Calling("special", "special", SetSpecial(reg, a, s, names))
      BY <1>12 DEF SetFlag
    <2>2. names \in OptionNames
      <3>1. NoOption \in OptionNames
        BY DEF NoOption, Declaration, OptionNames
      <3>. QED
        BY <3>1, RegistryAssumption
    <2>. QED
      BY <1>1, <2>1, <2>2, SetSpecialGood, CallingGood
  <1>13. CASE GrowTree
    <2>1. PICK p \in Existing :
            /\ reg.apps < MaxApps
            /\ reg.options + Repeated(reg, p, "help") + Repeated(reg, p, "helpAll") <= MaxOptions
            /\ \/ \E n \in AppNamesGiven : Calling("tree", "tree", AddSubcommand(reg, p, n))
               \/ Calling("tree", "groups", AddOptionGroup(reg, p))
      BY <1>13 DEF GrowTree
    <2>2. p \in Apps /\ reg.apps + 1 \in Apps /\ AppNamesGiven \subseteq Names \cup {NoName}
      BY <1>1, <2>1, RegistryAssumption, BoundsType DEF Good, Apps
    <2>3. \A n \in AppNamesGiven : Outcome(AddSubcommand(reg, p, n))
      BY <1>1, <2>1, <2>2, AddSubcommandGood
    <2>4. Outcome(AddOptionGroup(reg, p))
      BY <1>1, <2>1, <2>2, AddOptionGroupGood
    <2>. QED
      BY <2>1, <2>3, <2>4, OutcomeGood, CallingGood
  <1>14. CASE PruneTree
    <2>1. PICK a \in Existing : Calling("tree", "removal", RemoveSubcommand(reg, a))
      BY <1>14 DEF PruneTree
    <2>. QED
      BY <1>1, <2>1, RemoveSubcommandGood, OutcomeGood, CallingGood
  <1>15. CASE PlaceSubcommand
    <2>1. PICK a \in Existing, g \in Existing :
            Calling("move", "groups", MoveSubcommand(reg, a, g))
      BY <1>15 DEF PlaceSubcommand
    <2>. QED
      BY <1>1, <2>1, MoveSubcommandGood, OutcomeGood, CallingGood
  <1>16. CASE LinkOptions
    <2>1. PICK o \in Declared, p \in Declared :
            \/ Calling("link", "links", Needs(reg, o, p))
            \/ Calling("link", "links", Excludes(reg, o, p))
            \/ Calling("link", "links", RemoveNeeds(reg, o, p))
            \/ Calling("link", "links", RemoveExcludes(reg, o, p))
      BY <1>16 DEF LinkOptions
    <2>. QED
      BY <1>1, <2>1, LinkOptionsGood, OutcomeGood, CallingGood
  <1>17. CASE LinkApps
    <2>1. PICK a \in Existing, b \in Existing :
            \/ Calling("link", "links", AppNeeds(reg, a, b))
            \/ Calling("link", "links", AppExcludes(reg, a, b))
            \/ Calling("link", "links", AppRemoveNeeds(reg, a, b))
            \/ Calling("link", "links", AppRemoveExcludes(reg, a, b))
      BY <1>17 DEF LinkApps
    <2>. QED
      BY <1>1, <2>1, LinkAppsGood, OutcomeGood, CallingGood
  <1>18. CASE LinkAppToOption
    <2>1. PICK a \in Existing, o \in Declared :
            \/ Calling("link", "links", AppNeedsOption(reg, a, o))
            \/ Calling("link", "links", AppExcludesOption(reg, a, o))
            \/ Calling("link", "links", AppRemoveOptionLinks(reg, a, o))
      BY <1>18 DEF LinkAppToOption
    <2>. QED
      BY <1>1, <2>1, LinkAppToOptionGood, OutcomeGood, CallingGood
  <1>19. CASE BeginParse
    <2>1. Outcome(Returns(Configured(reg)))
      BY <1>1, ConfiguredGood DEF Outcome
    <2>. QED
      BY <1>19, <2>1, OutcomeGood, CallingGood DEF BeginParse
  <1>20. CASE UNCHANGED vars
    BY <1>20 DEF vars, RegistryInv, Good, RegistryType, Numbered, Distinct, Pointing
  <1>. QED
    BY <1>2, <1>3, <1>4, <1>5, <1>6, <1>7, <1>8, <1>9, <1>10, <1>11, <1>12, <1>13,
       <1>14, <1>15, <1>16, <1>17, <1>18, <1>19, <1>20 DEF Next

LEMMA RegistryKept == Spec => []RegistryInv
  BY InitRegistry, StepRegistry, PTL DEF Spec

\* The registry keeps its form in whatever order a program makes its calls.
THEOREM RegistryTyped == Spec => []TypeOK
  <1>1. RegistryInv => TypeOK
    BY DEF RegistryInv, Good, TypeOK
  <1>. QED
    BY <1>1, RegistryKept, PTL

\* However options are renamed, removed, moved, retired or refused, no option
\* that add_option put into a list answers to a name of another one there
\* (App::add_option, Option::ignore_case, App::_move_option).
THEOREM NamesStayDistinct == Spec => []NoNameShadowed
  <1>1. RegistryInv => NoNameShadowed
    BY DEF RegistryInv, Good, Distinct, NoNameShadowed
  <1>. QED
    BY <1>1, RegistryKept, PTL

\* The help and configuration pointers lead to an option in the App's list,
\* whatever was replaced, removed or moved (App::remove_option,
\* App::_move_option, App::set_help_flag).
THEOREM PointersStayLive == Spec => []PointersLive
  <1>1. RegistryInv => PointersLive
    BY BoundsType
       DEF RegistryInv, Good, RegistryType, Pointing, PointersLive, Existing, Apps
  <1>. QED
    BY <1>1, RegistryKept, PTL

-----------------------------------------------------------------------------
(* The tree stays a tree, and exclusion between its Apps mutual.           *)

\* Every way up ends, at Root or at an App that was lost, and goes along Apps
\* that were created.
Rooted(r) ==
    /\ r.parent[Root] = Nobody
    /\ \A a \in Apps : r.parent[a] # Nobody => a <= r.apps /\ r.parent[a] <= r.apps
    /\ \A T \in SUBSET Apps : T # {} => \E a \in T : r.parent[a] \notin T

\* Exclusions are between Apps that were created, and mutual as long as both
\* exist; a destroyed App never exists again, since numbers are not used twice.
Mutual(r) ==
    /\ \A l \in r.appExcludes : l[1] <= r.apps /\ l[2] <= r.apps
    /\ \A a, b \in Apps :
        Lives(r, a) /\ Lives(r, b) /\ <<a, b>> \in r.appExcludes => <<b, a>> \in r.appExcludes

Bonded(r) == Rooted(r) /\ Mutual(r)

LEMMA BondsKept ==
    ASSUME NEW r, NEW s, Bonded(r), SameBonds(s, r)
    PROVE  Bonded(s)
  BY DEF Bonded, Rooted, Mutual, SameBonds, Lives

LEMMA TreeBonds ==
    ASSUME NEW r, NEW s, SameTree(s, r)
    PROVE  SameBonds(s, r)
  BY DEF SameTree, SameBonds

LEMMA CallingBonded ==
    ASSUME NEW op, NEW family, NEW result, Calling(op, family, result), Bonded(result.reg)
    PROVE  Bonded(reg')
  BY DEF Calling

\* The count of a setting is no bond.
LEMMA SettingBonded ==
    ASSUME NEW op, NEW family, NEW result, Setting(op, family, result),
           Outcome(result), Bonded(result.reg)
    PROVE  Bonded(reg')
  <1>1. PICK s : Good(s) /\ result \in {Returns(s), Throws(s)}
    BY DEF Outcome
  <1>2. s \in RegistryType /\ result.reg = s
    BY <1>1 DEF Good, Returns, Throws
  <1>3. CASE result.thrown
    BY <1>3 DEF Setting, Calling
  <1>4. CASE ~result.thrown
    <2>1. reg' = [s EXCEPT !.changes = s.changes + 1]
      BY <1>1, <1>2, <1>4 DEF Setting, Calling, Returns, Throws
    <2>2. SameBonds(reg', s)
      BY <1>2, <2>1 DEF SameBonds, RegistryType
    <2>. QED
      BY <1>2, <2>2, BondsKept
  <1>. QED
    BY <1>3, <1>4

\* Names and settings of Apps are no bonds.
LEMMA AppBonds ==
    ASSUME NEW r \in RegistryType, NEW a, NEW app
    PROVE  SameBonds([r EXCEPT !.app[a] = app], r)
  BY DEF SameBonds, RegistryType

LEMMA RenamedBonds ==
    ASSUME NEW r \in RegistryType, NEW a, NEW app, NEW base
    PROVE  SameBonds(Renamed(r, a, app, base).reg, r)
  <1>1. Renamed(r, a, app, base).reg \in {r, [r EXCEPT !.app[a] = app]}
    BY DEF Renamed, Throws, Returns
  <1>2. SameBonds(r, r)
    BY DEF SameBonds
  <1>. QED
    BY <1>1, <1>2, AppBonds

LEMMA NamingBonds ==
    ASSUME NEW r \in RegistryType, NEW a \in Apps
    PROVE  /\ \A n : SameBonds(SetName(r, a, n).reg, r)
           /\ \A n \in Names : SameBonds(AddAlias(r, a, n).reg, r)
           /\ \A v \in BOOLEAN : /\ SameBonds(IgnoreCase(r, a, v).reg, r)
                                 /\ SameBonds(IgnoreUnderscore(r, a, v).reg, r)
  <1>1. \A app, base : SameBonds(Renamed(r, a, app, base).reg, r)
    BY RenamedBonds
  <1>2. ASSUME NEW n
        PROVE  SameBonds(SetName(r, a, n).reg, r)
    BY ONLY <1>1, SetNameRestores, r \in RegistryType, a \in Apps
  <1>3. ASSUME NEW n \in Names
        PROVE  SameBonds(AddAlias(r, a, n).reg, r)
    <2>1. \E app, base : AddAlias(r, a, n) = Renamed(r, a, app, base)
      BY AddAliasRestores
    <2>. QED
      BY <1>1, <2>1
  <1>4. ASSUME NEW v \in BOOLEAN
        PROVE  SameBonds(IgnoreCase(r, a, v).reg, r) /\ SameBonds(IgnoreUnderscore(r, a, v).reg, r)
    <2>1. \E app, base : IgnoreCase(r, a, v) = Renamed(r, a, app, base)
      BY ONLY IgnoreCaseRestores, r \in RegistryType, a \in Apps, v \in BOOLEAN, Zenon
    <2>2. \E app, base : IgnoreUnderscore(r, a, v) = Renamed(r, a, app, base)
      BY ONLY IgnoreUnderscoreRestores, r \in RegistryType, a \in Apps, v \in BOOLEAN, Zenon
    <2>. QED
      BY <1>1, <2>1, <2>2
  <1>. QED
    BY <1>2, <1>3, <1>4

LEMMA ByDefaultBonds ==
    ASSUME NEW r \in RegistryType, NEW a, NEW mode, NEW v
    PROVE  SameBonds(ByDefault(r, a, mode, v).reg, r)
  BY DEF SameBonds, RegistryType, ByDefault, Returns

LEMMA SwitchBonds ==
    ASSUME NEW r, Good(r), NEW a \in Apps, NEW v \in BOOLEAN
    PROVE  SameBonds(Disabled(r, a, v).reg, r) /\ SameBonds(Trigger(r, a, v).reg, r)
  <1>1. r \in RegistryType
    BY DEF Good
  <1>2. SameBonds(Disabled(r, a, v).reg, r)
    BY <1>1 DEF SameBonds, RegistryType, Disabled, Returns
  <1>3. PICK mode \in {"enabled", "disabled"}, other \in {"enabled", "disabled"} :
            Trigger(r, a, v) = ByDefault(ByDefault(r, a, other, FALSE).reg, a, mode, TRUE)
    BY DEF Trigger
  <1>4. PICK once : once = ByDefault(r, a, other, FALSE).reg
    OBVIOUS
  <1>5. once \in RegistryType
    BY <1>4, SwitchGood, OutcomeGood DEF Good
  <1>6. SameBonds(once, r) /\ SameBonds(ByDefault(once, a, mode, TRUE).reg, once)
    BY <1>1, <1>4, <1>5, ByDefaultBonds
  <1>. QED
    BY <1>2, <1>3, <1>4, <1>6 DEF SameBonds

LEMMA ConfiguredBonds ==
    ASSUME NEW r \in RegistryType
    PROVE  SameBonds(Configured(r), r)
  BY DEF SameBonds, RegistryType, Configured

LEMMA MoveOptionBonds ==
    ASSUME NEW r \in RegistryType, NEW o, NEW g
    PROVE  SameBonds(MoveOption(r, o, g).reg, r)
  BY DEF SameBonds, RegistryType, MoveOption, Throws, Returns

LEMMA RetireOptionBonds ==
    ASSUME NEW r, Good(r), NEW a \in Apps, NEW o \in Options, r.options < MaxOptions
    PROVE  SameBonds(RetireOption(r, a, o).reg, r)
  <1>1. PICK removed : removed = RemoveOption(r, a, o).reg
    OBVIOUS
  <1>2. Good(removed) /\ SameTree(removed, r) /\ removed.options < MaxOptions
    BY <1>1, RemoveOptionGood
  <1>3. AllNames(r.opt[o]) \in OptionNames
    BY DEF Good, RegistryType, AllNames, OptionNames, Declaration
  <1>4. SameTree(AddOption(removed, a, AllNames(r.opt[o])).reg, removed)
    BY <1>2, <1>3, AddOptionGood
  <1>. QED
    BY <1>1, <1>2, <1>4 DEF RetireOption, SameTree, SameBonds

\* What is in an App is reached from it step by step down.
LEMMA UnderIs ==
    ASSUME NEW r, Good(r), Rooted(r), NEW a \in Apps
    PROVE  /\ Under(r, a) \in SUBSET Apps /\ a \in Under(r, a)
           /\ \A b \in Under(r, a) : Subcommands(r, b) \subseteq Under(r, a)
           /\ a # Root => Root \notin Under(r, a)
  <1>. DEFINE Down == [b \in Apps |-> Subcommands(r, b)]
              V == SUBSET Apps
              F == [f \in [Apps -> V] |->
                      [b \in Apps |-> {b} \cup UNION {f[s] : s \in Subcommands(r, b)}]]
              under == CHOOSE f : f = [b \in Apps |-> {b} \cup UNION {f[s] : s \in Subcommands(r, b)}]
  <1>1. /\ \A b \in Apps : Subcommands(r, b) = {s \in Apps : r.parent[s] = b}
        /\ Down \in [Apps -> SUBSET Apps]
        /\ \A b \in Apps : Down[b] = Subcommands(r, b)
        /\ r.parent[Root] = Nobody
        /\ Nobody \notin Apps
    BY BoundsType DEF Subcommands, Rooted
  <1>2. WellFounded(Apps, Down)
    <2>1. PICK parent : parent = r.parent
      OBVIOUS
    <2>2. \A b \in Apps : \A s \in Down[b] : parent[s] = b
      BY <1>1, <2>1
    <2>3. \A T \in SUBSET Apps : T # {} => \E b \in T : parent[b] \notin T
      BY <2>1 DEF Rooted
    <2>4. IsFiniteSet(Apps)
      BY BoundsType, FS_Interval DEF Apps
    <2>. HIDE DEF Down
    <2>. QED
      BY <1>1, <2>2, <2>3, <2>4, WayDownWellFounded
  <1>3. F \in [[Apps -> V] -> [Apps -> V]]
    BY <1>1
  <1>4. Local(Apps, Down, V, F)
    <2>1. ASSUME NEW f \in [Apps -> V], NEW g \in [Apps -> V], NEW b \in Apps,
                 \A s \in Down[b] : f[s] = g[s]
          PROVE  F[f][b] = F[g][b]
      <3>1. {f[s] : s \in Subcommands(r, b)} = {g[s] : s \in Subcommands(r, b)}
        BY <1>1, <2>1
      <3>. QED
        BY <3>1
    <2>. HIDE DEF F, V, Down
    <2>. QED
      BY <2>1 DEF Local
  <1>5. PICK f \in [Apps -> V] : f = F[f]
    <2>1. V # {}
      OBVIOUS
    <2>. HIDE DEF V, F, Down
    <2>2. Recursion(Apps, Down, V, F)
      BY <2>1, <1>1, <1>2, <1>3, <1>4 DEF Recursion
    <2>. QED
      BY <2>2, RecursionSolved
  <1>6. under = [b \in Apps |-> {b} \cup UNION {under[s] : s \in Subcommands(r, b)}]
    <2>1. f = [b \in Apps |-> {b} \cup UNION {f[s] : s \in Subcommands(r, b)}]
      BY <1>5
    <2>. QED
      BY ONLY <2>1 DEF under
  <1>7. \A b \in Apps : Under(r, b) = under[b]
    BY DEF Under
  <1>. HIDE DEF under
  <1>. DEFINE Fine(b) == /\ under[b] \in SUBSET Apps
                         /\ \A c \in under[b] : Subcommands(r, c) \subseteq under[b]
                         /\ b # Root => Root \notin under[b]
              Found == {b \in Apps : Fine(b)}
  <1>8. ASSUME NEW b \in Apps, \A s \in Subcommands(r, b) : s \in Apps /\ Fine(s)
        PROVE  Fine(b)
    <2>1. under[b] = {b} \cup UNION {under[s] : s \in Subcommands(r, b)}
      BY <1>6
    <2>2. \A s \in Subcommands(r, b) : s # Root /\ s \in under[s]
      BY <1>1, <1>6
    <2>. QED
      BY <1>8, <2>1, <2>2
  <1>9. Found \in SUBSET Apps /\ \A b \in Apps : Down[b] \subseteq Found => b \in Found
    <2>. HIDE DEF Fine, Down
    <2>. QED
      BY <1>1, <1>8
  <1>10. Found = Apps
    <2>. HIDE DEF Found, Down
    <2>. QED
      BY <1>1, <1>2, <1>9, InductionAlong
  <1>11. a \in under[a]
    BY <1>6
  <1>. QED
    BY <1>7, <1>10, <1>11

\* The tree with some Apps taken from their parents is a tree.
LEMMA FewerRooted ==
    ASSUME NEW r, Rooted(r), NEW s, s.apps = r.apps,
           \A a \in Apps : s.parent[a] \in {r.parent[a], Nobody}
    PROVE  Rooted(s)
  <1>1. Root \in Apps /\ Nobody \notin Apps
    BY BoundsType
  <1>. QED
    BY <1>1 DEF Rooted

\* Siblings that remain lose their links with a on both sides.
Forgotten(r, a) ==
    { l \in r.appExcludes : \/ l[2] = a /\ r.parent[l[1]] = r.parent[a]
                            \/ l[1] = a /\ r.parent[l[2]] = r.parent[a] }

LEMMA ForgottenMutual ==
    ASSUME NEW r, Mutual(r), NEW a \in Apps, NEW new, new.apps = r.apps,
           new.appExcludes = r.appExcludes \ Forgotten(r, a),
           \A x \in Apps : Lives(new, x) => Lives(r, x)
    PROVE  Mutual(new)
  <1>1. ASSUME NEW x \in Apps, NEW y \in Apps
        PROVE  <<x, y>> \in new.appExcludes <=>
                  /\ <<x, y>> \in r.appExcludes
                  /\ ~(y = a /\ r.parent[x] = r.parent[a])
                  /\ ~(x = a /\ r.parent[y] = r.parent[a])
    BY DEF Forgotten
  <1>2. \A l \in new.appExcludes : l \in r.appExcludes
    OBVIOUS
  <1>. QED
    BY <1>1, <1>2 DEF Mutual

LEMMA TakenOutBonded ==
    ASSUME NEW r, Good(r), Bonded(r), NEW a \in Apps
    PROVE  /\ Bonded(TakenOut(r, a))
           /\ TakenOut(r, a).parent = [r.parent EXCEPT ![a] = Nobody]
           /\ TakenOut(r, a).appExcludes = r.appExcludes \ Forgotten(r, a)
  <1>1. PICK new : new = TakenOut(r, a)
    OBVIOUS
  <1>2. r \in RegistryType
    BY DEF Good
  <1>3. /\ new.apps = r.apps
        /\ new.parent = [r.parent EXCEPT ![a] = Nobody]
        /\ new.appExcludes = r.appExcludes \ Forgotten(r, a)
    BY <1>1, <1>2 DEF TakenOut, RegistryType, Forgotten
  <1>4. r.parent \in [Apps -> Apps \cup {Nobody}]
    BY <1>2 DEF RegistryType
  <1>5. \A x \in Apps : Lives(new, x) => Lives(r, x)
    BY <1>3, <1>4 DEF Lives
  <1>6. Rooted(new)
    BY <1>3, <1>4, FewerRooted DEF Bonded
  <1>. QED
    BY <1>1, <1>3, <1>5, <1>6, ForgottenMutual DEF Bonded

\* What is destroyed takes its links along; a link to it leads to no App.
LEMMA DestroyedBonded ==
    ASSUME NEW r, Good(r), Bonded(r), NEW S, Root \notin S
    PROVE  Bonded(Destroyed(r, S))
  <1>1. PICK new : new = Destroyed(r, S)
    OBVIOUS
  <1>2. r \in RegistryType
    BY DEF Good
  <1>3. /\ new.apps = r.apps
        /\ new.parent = [a \in Apps |-> IF a \in S THEN Nobody ELSE r.parent[a]]
        /\ new.appExcludes = {l \in r.appExcludes : l[1] \notin S}
    BY <1>1, <1>2 DEF Destroyed, RegistryType
  <1>4. ASSUME NEW x \in Apps, Lives(new, x)
        PROVE  x \notin S /\ Lives(r, x)
    BY <1>3, <1>4 DEF Lives
  <1>5. ASSUME NEW x \in Apps, NEW y \in Apps
        PROVE  <<x, y>> \in new.appExcludes <=> <<x, y>> \in r.appExcludes /\ x \notin S
    BY <1>3
  <1>6. \A l \in new.appExcludes : l \in r.appExcludes
    BY <1>3
  <1>7. Mutual(new)
    BY <1>3, <1>4, <1>5, <1>6 DEF Mutual, Bonded
  <1>8. Rooted(new)
    BY <1>3, FewerRooted DEF Bonded
  <1>. QED
    BY <1>1, <1>7, <1>8 DEF Bonded

LEMMA RemoveSubcommandBonded ==
    ASSUME NEW r, Good(r), Bonded(r), NEW a \in Apps, a # Root
    PROVE  Bonded(RemoveSubcommand(r, a).reg)
  <1>1. Good(TakenOut(r, a)) /\ Bonded(TakenOut(r, a))
    BY TakenOutGood, TakenOutBonded
  <1>2. Root \notin Under(r, a)
    BY UnderIs DEF Bonded
  <1>. QED
    BY <1>1, <1>2, DestroyedBonded DEF RemoveSubcommand, Returns

\* An App moved to a group that is not in it: a way up from there does not
\* come by the App.
LEMMA MovedRooted ==
    ASSUME NEW r, Good(r), Rooted(r), NEW a \in Apps, NEW g \in Apps, a # Root,
           Lives(r, a), Lives(r, g), g <= r.apps, g \notin Under(r, a),
           NEW new, new.apps = r.apps, new.parent = [r.parent EXCEPT ![a] = g]
    PROVE  Rooted(new)
  <1>1. /\ r.parent \in [Apps -> Apps \cup {Nobody}] /\ Root \in Apps
        /\ Nobody \notin Apps
    BY BoundsType DEF Good, RegistryType
  <1>2. /\ new.parent[a] = g
        /\ \A x \in Apps : x # a => new.parent[x] = r.parent[x]
    BY <1>1
  <1>3. new.parent[Root] = Nobody
    BY <1>1, <1>2 DEF Rooted
  <1>4. \A x \in Apps : new.parent[x] # Nobody => x <= new.apps /\ new.parent[x] <= new.apps
    BY <1>2 DEF Rooted, Lives
  <1>5. ASSUME NEW T \in SUBSET Apps, T # {}, \A x \in T : new.parent[x] \in T
        PROVE  FALSE
    <2>1. CASE a \notin T
      BY <1>2, <1>5, <2>1 DEF Rooted
    <2>2. CASE a \in T
      <3>. DEFINE U == T \ Under(r, a)
      <3>1. g \in U /\ U \in SUBSET Apps
        BY <1>2, <1>5, <2>2
      <3>2. PICK x \in U : r.parent[x] \notin U
        <4>. HIDE DEF U
        <4>. QED
          BY <3>1 DEF Rooted
      <3>3. x \in Apps /\ x \in T /\ x # a /\ x \notin Under(r, a)
        BY UnderIs
      <3>4. r.parent[x] \in T
        BY <1>2, <1>5, <3>3
      <3>5. r.parent[x] \in Under(r, a)
        BY <3>2, <3>4
      <3>6. x \in Subcommands(r, r.parent[x])
        BY <3>3 DEF Subcommands
      <3>. QED
        BY <3>3, <3>5, <3>6, UnderIs
    <2>. QED
      BY <2>1, <2>2
  <1>. QED
    BY <1>3, <1>4, <1>5 DEF Rooted

LEMMA MoveSubcommandBonded ==
    ASSUME NEW r, Good(r), Bonded(r), NEW a \in Apps, NEW g \in Apps, a # Root,
           Lives(r, a), Lives(r, g), g <= r.apps, g \notin Under(r, a)
    PROVE  Bonded(MoveSubcommand(r, a, g).reg)
  <1>1. PICK out : out = TakenOut(r, a)
    OBVIOUS
  <1>2. /\ Good(out) /\ Bonded(out) /\ out.apps = r.apps
        /\ out.parent = [r.parent EXCEPT ![a] = Nobody]
        /\ out.appExcludes = r.appExcludes \ Forgotten(r, a)
    BY <1>1, TakenOutGood, TakenOutBonded
  <1>3. PICK moved : moved = [out EXCEPT !.parent[a] = g, !.seat[a] = LastSeat(out, g)]
    OBVIOUS
  <1>4. r.parent \in [Apps -> Apps \cup {Nobody}] /\ out \in RegistryType
    BY <1>2 DEF Good, RegistryType
  <1>5. /\ moved.apps = r.apps /\ moved.parent = [r.parent EXCEPT ![a] = g]
        /\ moved.appExcludes = r.appExcludes \ Forgotten(r, a)
    BY <1>2, <1>3, <1>4 DEF RegistryType
  <1>6. Rooted(moved)
    BY <1>5, MovedRooted DEF Bonded
  <1>7. \A x \in Apps : Lives(moved, x) => Lives(r, x)
    BY <1>4, <1>5 DEF Lives
  <1>8. Mutual(moved)
    BY <1>5, <1>7, ForgottenMutual DEF Bonded
  <1>9. Bonded(Destroyed(out, Under(r, a)))
    BY <1>2, UnderIs, DestroyedBonded DEF Bonded
  <1>10. MoveSubcommand(r, a, g).reg \in {Destroyed(out, Under(r, a)), moved}
    BY <1>1, <1>3 DEF MoveSubcommand, Attached, Throws, Returns
  <1>. QED
    BY <1>6, <1>8, <1>9, <1>10 DEF Bonded

\* A new App is at the end of no way up and in no link.
LEMMA GrownBonded ==
    ASSUME NEW r, Good(r), Bonded(r), NEW p \in Apps, p <= r.apps, NEW n,
           r.apps + 1 \in Apps
    PROVE  Bonded(Grown(r, p, n))
  <1>1. PICK a : a = r.apps + 1
    OBVIOUS
  <1>2. PICK new : new = Grown(r, p, n)
    OBVIOUS
  <1>3. /\ r.parent \in [Apps -> Apps \cup {Nobody}] /\ Root \in Apps /\ Root <= r.apps
        /\ Nobody \notin Apps /\ a \in Apps /\ r.apps \in Nat /\ Apps \subseteq Nat
    BY <1>1, BoundsType DEF Good, RegistryType, Apps, Root
  <1>4. /\ new.apps = a /\ new.parent = [r.parent EXCEPT ![a] = p]
        /\ new.appExcludes = r.appExcludes
    BY <1>1, <1>2 DEF Grown, Good, RegistryType
  <1>5. /\ new.parent[a] = p
        /\ \A x \in Apps : x # a => new.parent[x] = r.parent[x]
    BY <1>3, <1>4
  <1>6. new.parent[Root] = Nobody
    BY <1>1, <1>3, <1>5 DEF Bonded, Rooted
  <1>7. ASSUME NEW x \in Apps, new.parent[x] # Nobody
        PROVE  x <= new.apps /\ new.parent[x] <= new.apps
    <2>1. CASE x = a
      BY <1>1, <1>3, <1>4, <1>5, <2>1
    <2>2. CASE x # a
      <3>1. x <= r.apps /\ r.parent[x] <= r.apps /\ r.parent[x] \in Nat /\ x \in Nat
        BY <1>3, <1>5, <1>7, <2>2 DEF Bonded, Rooted
      <3>. QED
        BY <1>1, <1>3, <1>4, <1>5, <2>2, <3>1
    <2>. QED
      BY <2>1, <2>2
  <1>8. ASSUME NEW T \in SUBSET Apps, T # {}, \A x \in T : new.parent[x] \in T
        PROVE  FALSE
    <2>. DEFINE U == T \ {a}
    <2>1. p # a /\ \A x \in Apps : r.parent[x] # a
      BY <1>1, <1>3 DEF Bonded, Rooted
    <2>2. U # {} /\ U \in SUBSET Apps
      BY <1>5, <1>8, <2>1
    <2>3. PICK x \in U : r.parent[x] \notin U
      <3>. HIDE DEF U
      <3>. QED
        BY <2>2 DEF Bonded, Rooted
    <2>. QED
      BY <1>5, <1>8, <2>1, <2>3
  <1>9. Rooted(new)
    BY <1>6, <1>7, <1>8 DEF Rooted
  <1>10. \A x \in Apps : x <= r.apps /\ Lives(new, x) => Lives(r, x)
    BY <1>1, <1>3, <1>5 DEF Lives
  <1>11. Mutual(new)
    <2>1. \A l \in r.appExcludes : l[1] \in Nat /\ l[2] \in Nat
      BY <1>3 DEF Good, RegistryType
    <2>2. \A l \in new.appExcludes : l[1] <= new.apps /\ l[2] <= new.apps
      BY <1>1, <1>3, <1>4, <2>1 DEF Bonded, Mutual
    <2>3. ASSUME NEW x \in Apps, NEW y \in Apps, Lives(new, x), Lives(new, y),
                 <<x, y>> \in new.appExcludes
          PROVE  <<y, x>> \in new.appExcludes
      <3>1. x <= r.apps /\ y <= r.apps
        BY <1>4, <2>3 DEF Bonded, Mutual
      <3>. QED
        BY <1>4, <1>10, <2>3, <3>1 DEF Bonded, Mutual
    <2>. QED
      BY <2>2, <2>3 DEF Mutual
  <1>. QED
    BY <1>2, <1>9, <1>11 DEF Bonded

LEMMA AttachedBonded ==
    ASSUME NEW lost, Bonded(lost), NEW new, Bonded(new), NEW a, NEW p
    PROVE  Bonded(Attached(lost, new, a, p).reg)
  BY DEF Attached, Throws, Returns

LEMMA ConstructedBonded ==
    ASSUME NEW r, Good(r), Bonded(r), NEW p \in Apps, p <= r.apps,
           NEW n \in Names \cup {NoName}, r.apps + 1 \in Apps,
           r.options + Repeated(r, p, "help") + Repeated(r, p, "helpAll") <= MaxOptions
    PROVE  Bonded(Constructed(r, p, n).reg)
  <1>1. Bonded(Grown(r, p, n))
    BY GrownBonded
  <1>2. \/ Constructed(r, p, n).reg = r
        \/ SameBonds(Constructed(r, p, n).reg, Grown(r, p, n))
    <2>1. CASE Constructed(r, p, n) = Throws(r)
      BY <2>1 DEF Throws
    <2>2. CASE SameBonds(Constructed(r, p, n).reg, Grown(r, p, n))
      BY <2>2
    <2>. QED
      BY <2>1, <2>2, ConstructedGood
  <1>. QED
    BY <1>1, <1>2, BondsKept

LEMMA AddSubcommandBonded ==
    ASSUME NEW r, Good(r), Bonded(r), NEW p \in Apps, p <= r.apps,
           NEW n \in Names \cup {NoName}, r.apps + 1 \in Apps,
           r.options + Repeated(r, p, "help") + Repeated(r, p, "helpAll") <= MaxOptions
    PROVE  Bonded(AddSubcommand(r, p, n).reg)
  <1>1. PICK new : new = Constructed(r, p, n)
    OBVIOUS
  <1>2. Bonded(new.reg)
    BY <1>1, ConstructedBonded
  <1>3. AddSubcommand(r, p, n) = IF new.thrown THEN new ELSE Attached(r, new.reg, r.apps + 1, p)
    BY <1>1 DEF AddSubcommand, ThenAttached
  <1>. QED
    BY <1>2, <1>3, AttachedBonded

LEMMA AddOptionGroupBonded ==
    ASSUME NEW r, Good(r), Bonded(r), NEW p \in Apps, p <= r.apps,
           NEW a, a = r.apps + 1, a \in Apps,
           r.options + Repeated(r, p, "help") + Repeated(r, p, "helpAll") <= MaxOptions
    PROVE  Bonded(AddOptionGroup(r, p).reg)
  <1>1. PICK new : new = Constructed(r, p, NoName)
    OBVIOUS
  <1>2. Good(new.reg) /\ Bonded(new.reg)
    BY <1>1, ConstructedGood, ConstructedBonded, OutcomeGood
  <1>3. PICK app : app = [new.reg.app[a] EXCEPT !.fallthrough = FALSE, !.group = TRUE]
    OBVIOUS
  <1>4. new.reg \in RegistryType /\ new.reg.app[a] \in AppType
    BY <1>2 DEF Good, RegistryType
  <1>5. app \in AppType
    BY <1>3, <1>4 DEF AppType
  <1>6. PICK plain : plain = [new.reg EXCEPT !.app[a] = app]
    OBVIOUS
  <1>7. Good(plain) /\ Bonded(plain)
    <2>1. Good(plain)
      BY <1>2, <1>5, <1>6, AppAtGood
    <2>2. SameBonds(plain, new.reg)
      BY <1>4, <1>6, AppBonds
    <2>. QED
      BY <1>2, <2>1, <2>2, BondsKept
  <1>8. plain = [new.reg EXCEPT !.app[a].fallthrough = FALSE, !.app[a].group = TRUE]
    BY <1>3, <1>4, <1>6 DEF RegistryType, AppType
  <1>9. Bonded(SetSpecial(plain, a, "help", NoOption).reg)
    <2>1. NoOption \in OptionNames /\ "help" \in Special
      BY DEF NoOption, Declaration, OptionNames, Special
    <2>2. SameTree(SetSpecial(plain, a, "help", NoOption).reg, plain)
      BY <1>7, <2>1, SetSpecialGood
    <2>. QED
      BY <1>7, <2>2, TreeBonds, BondsKept
  <1>10. AddOptionGroup(r, p) =
            IF new.thrown THEN new
            ELSE Attached(r, SetSpecial(plain, a, "help", NoOption).reg, a, p)
    BY <1>1, <1>8 DEF AddOptionGroup, ThenAttached, ThenGroup, SetSpecial, Returns
  <1>. QED
    BY <1>2, <1>9, <1>10, AttachedBonded

\* excludes() enters both sides of a link, remove_excludes() removes both.
LEMMA LinkAppsBonded ==
    ASSUME NEW r, Good(r), Bonded(r), NEW a \in Apps, NEW b \in Apps, a <= r.apps, b <= r.apps
    PROVE  /\ Bonded(AppNeeds(r, a, b).reg) /\ Bonded(AppRemoveNeeds(r, a, b).reg)
           /\ Bonded(AppExcludes(r, a, b).reg) /\ Bonded(AppRemoveExcludes(r, a, b).reg)
  <1>1. r \in RegistryType
    BY DEF Good
  <1>2. /\ SameBonds(AppNeeds(r, a, b).reg, r) /\ SameBonds(AppRemoveNeeds(r, a, b).reg, r)
    BY <1>1 DEF AppNeeds, AppRemoveNeeds, Throws, Returns, SameBonds, RegistryType
  <1>3. ASSUME NEW new, new.apps = r.apps, new.parent = r.parent,
               \/ new.appExcludes = r.appExcludes
               \/ new.appExcludes = r.appExcludes \cup {<<a, b>>, <<b, a>>}
               \/ new.appExcludes = r.appExcludes \ {<<a, b>>, <<b, a>>}
        PROVE  Bonded(new)
    <2>1. Rooted(new)
      BY <1>3 DEF Bonded, Rooted
    <2>2. \A x \in Apps : Lives(new, x) <=> Lives(r, x)
      BY <1>3 DEF Lives
    <2>3. \A l \in new.appExcludes : l \in r.appExcludes \/ l = <<a, b>> \/ l = <<b, a>>
      BY <1>3
    <2>4. \A l \in new.appExcludes : l[1] <= new.apps /\ l[2] <= new.apps
      BY <1>3, <2>3 DEF Bonded, Mutual
    <2>5. ASSUME NEW x \in Apps, NEW y \in Apps, Lives(r, x), Lives(r, y),
                 <<x, y>> \in new.appExcludes
          PROVE  <<y, x>> \in new.appExcludes
      BY <1>3, <2>5 DEF Bonded, Mutual
    <2>. QED
      BY <2>1, <2>2, <2>4, <2>5 DEF Bonded, Mutual
  <1>4. /\ AppExcludes(r, a, b).reg.apps = r.apps /\ AppExcludes(r, a, b).reg.parent = r.parent
        /\ \/ AppExcludes(r, a, b).reg.appExcludes = r.appExcludes
           \/ AppExcludes(r, a, b).reg.appExcludes = r.appExcludes \cup {<<a, b>>, <<b, a>>}
    BY <1>1 DEF AppExcludes, Throws, Returns, RegistryType
  <1>5. /\ AppRemoveExcludes(r, a, b).reg.apps = r.apps
        /\ AppRemoveExcludes(r, a, b).reg.parent = r.parent
        /\ \/ AppRemoveExcludes(r, a, b).reg.appExcludes = r.appExcludes
           \/ AppRemoveExcludes(r, a, b).reg.appExcludes = r.appExcludes \ {<<a, b>>, <<b, a>>}
    BY <1>1 DEF AppRemoveExcludes, Throws, Returns, RegistryType
  <1>. QED
    BY <1>2, <1>3, <1>4, <1>5, BondsKept

\* Links of options, and of Apps to options, are no bonds.
LEMMA OptionLinksBonds ==
    ASSUME NEW r \in RegistryType, NEW o, NEW p
    PROVE  /\ SameBonds(Needs(r, o, p).reg, r) /\ SameBonds(Excludes(r, o, p).reg, r)
           /\ SameBonds(RemoveNeeds(r, o, p).reg, r) /\ SameBonds(RemoveExcludes(r, o, p).reg, r)
           /\ SameBonds(AppNeedsOption(r, o, p).reg, r)
           /\ SameBonds(AppExcludesOption(r, o, p).reg, r)
           /\ SameBonds(AppRemoveOptionLinks(r, o, p).reg, r)
  BY DEF Needs, Excludes, RemoveNeeds, RemoveExcludes, AppNeedsOption, AppExcludesOption,
         AppRemoveOptionLinks, Throws, Returns, SameBonds, RegistryType

LEMMA InitBonded == Init => Bonded(reg)
  <1>. SUFFICES ASSUME Init PROVE Bonded(reg)
    OBVIOUS
  <1>1. /\ \A a \in Apps : reg.parent[a] = Nobody
        /\ reg.appExcludes = {}
    BY DEF Init
  <1>2. Root \in Apps /\ Nobody \notin Apps
    BY BoundsType
  <1>. QED
    BY <1>1, <1>2 DEF Bonded, Rooted, Mutual

LEMMA StepBonded == RegistryInv /\ Bonded(reg) /\ [Next]_vars => Bonded(reg')
  <1>. SUFFICES ASSUME RegistryInv, Bonded(reg), [Next]_vars PROVE Bonded(reg')
    OBVIOUS
  <1>1. /\ Good(reg) /\ reg \in RegistryType /\ Existing \subseteq Apps /\ Declared \subseteq Options
        /\ \A a \in Existing : a <= reg.apps /\ Lives(reg, a)
        /\ \A o \in Declared : reg.home[o] # Nobody
    <2>1. /\ reg.apps \in 1..MaxApps /\ reg.options \in Nat /\ reg.options <= MaxOptions
          /\ MaxApps \in Nat /\ MaxOptions \in Nat
      BY BoundsType DEF RegistryInv, Good, RegistryType, Apps
    <2>2. Existing \subseteq Apps /\ \A a \in Existing : a <= reg.apps /\ Lives(reg, a)
      BY <2>1 DEF Existing, Apps
    <2>3. Declared \subseteq Options
      BY <2>1 DEF Declared, Options
    <2>. QED
      BY <2>2, <2>3 DEF RegistryInv, Declared, Good
  <1>2. CASE NameApp
    <2>1. PICK a \in Existing, n \in AppNamesGiven :
            Calling("app", "names", SetName(reg, a, n))
      BY <1>2 DEF NameApp
    <2>. QED
      BY <1>1, <2>1, NamingBonds, BondsKept, CallingBonded
  <1>3. CASE AliasApp
    <2>1. PICK a \in Existing :
            \/ \E n \in AliasesGiven : Setting("app", "aliases", AddAlias(reg, a, n))
            \/ Setting("app", "aliases", Returns([reg EXCEPT !.app[a].aliases = <<>>]))
      BY <1>3 DEF AliasApp
    <2>2. CASE \E n \in AliasesGiven : Setting("app", "aliases", AddAlias(reg, a, n))
      <3>1. PICK n \in AliasesGiven : Setting("app", "aliases", AddAlias(reg, a, n))
        BY <2>2
      <3>2. Outcome(AddAlias(reg, a, n)) /\ Bonded(AddAlias(reg, a, n).reg)
        BY <1>1, NamingGood, NamingBonds, BondsKept, RegistryAssumption
      <3>. QED
        BY <3>1, <3>2, SettingBonded
    <2>3. CASE Setting("app", "aliases", Returns([reg EXCEPT !.app[a].aliases = <<>>]))
      <3>1. PICK app : app = [reg.app[a] EXCEPT !.aliases = <<>>]
        OBVIOUS
      <3>2. app \in AppType
        <4>1. reg.app[a] \in AppType
          BY <1>1 DEF RegistryType
        <4>. QED
          BY <3>1, <4>1, AliasesType DEF AppType
      <3>3. PICK s : s = [reg EXCEPT !.app[a] = app]
        OBVIOUS
      <3>4. s = [reg EXCEPT !.app[a].aliases = <<>>]
        BY <3>1, <3>3
      <3>5. Outcome(Returns(s))
        BY <1>1, <3>2, <3>3, AppAtGood DEF Outcome
      <3>6. Bonded(s) /\ Returns(s).reg = s
        BY <1>1, <3>3, AppBonds, BondsKept DEF Returns
      <3>. QED
        BY <2>3, <3>4, <3>5, <3>6, SettingBonded
    <2>. QED
      BY <2>1, <2>2, <2>3
  <1>4. CASE FoldApp
    <2>1. PICK a \in Existing, v \in BOOLEAN :
            \/ Setting("app", "folding", IgnoreCase(reg, a, v))
            \/ Setting("app", "folding", IgnoreUnderscore(reg, a, v))
      BY <1>4 DEF FoldApp
    <2>2. Outcome(IgnoreCase(reg, a, v)) /\ Outcome(IgnoreUnderscore(reg, a, v))
      BY <1>1, NamingGood
    <2>3. Bonded(IgnoreCase(reg, a, v).reg) /\ Bonded(IgnoreUnderscore(reg, a, v).reg)
      BY <1>1, NamingBonds, BondsKept
    <2>. QED
      BY <2>1, <2>2, <2>3, SettingBonded
  <1>5. CASE SwitchApp
    <2>1. PICK a \in Existing, v \in BOOLEAN :
            \/ Setting("app", "startup", Disabled(reg, a, v))
            \/ \E mode \in {"enabled", "disabled"} :
                   Setting("app", "startup", ByDefault(reg, a, mode, v))
            \/ Setting("app", "startup", Trigger(reg, a, v))
      BY <1>5 DEF SwitchApp
    <2>2. /\ Outcome(Disabled(reg, a, v)) /\ Outcome(Trigger(reg, a, v))
          /\ \A mode \in {"enabled", "disabled"} : Outcome(ByDefault(reg, a, mode, v))
      BY <1>1, SwitchGood
    <2>3. /\ Bonded(Disabled(reg, a, v).reg) /\ Bonded(Trigger(reg, a, v).reg)
          /\ \A mode \in {"enabled", "disabled"} : Bonded(ByDefault(reg, a, mode, v).reg)
      BY <1>1, SwitchBonds, ByDefaultBonds, BondsKept
    <2>. QED
      BY <2>1, <2>2, <2>3, SettingBonded
  <1>6. CASE SetApp
    <2>1. PICK a \in Existing, new \in Settings :
            Setting("app", "settings",
                Returns([reg EXCEPT !.app[a] =
                    [@ EXCEPT !.fallthrough = new.fallthrough, !.prefix = new.prefix,
                              !.optCase = new.optCase, !.optUnderscore = new.optUnderscore]]))
      BY <1>6 DEF SetApp
    <2>2. PICK app : app = [reg.app[a] EXCEPT
                               !.fallthrough = new.fallthrough, !.prefix = new.prefix,
                               !.optCase = new.optCase, !.optUnderscore = new.optUnderscore]
      OBVIOUS
    <2>3. /\ new.fallthrough \in BOOLEAN /\ new.prefix \in BOOLEAN
          /\ new.optCase \in BOOLEAN /\ new.optUnderscore \in BOOLEAN
      BY RegistryAssumption
    <2>4. app \in AppType
      <3>1. reg.app[a] \in AppType
        BY <1>1 DEF RegistryType
      <3>. QED
        BY <2>2, <2>3, <3>1 DEF AppType
    <2>5. PICK s : s = [reg EXCEPT !.app[a] = app]
      OBVIOUS
    <2>6. Outcome(Returns(s))
      BY <1>1, <2>4, <2>5, AppAtGood DEF Outcome
    <2>7. Setting("app", "settings", Returns(s))
      BY <2>1, <2>2, <2>5
    <2>8. Bonded(s) /\ Returns(s).reg = s
      BY <1>1, <2>5, AppBonds, BondsKept DEF Returns
    <2>. QED
      BY <2>6, <2>7, <2>8, SettingBonded
  <1>7. CASE DeclareOption
    <2>1. PICK a \in Existing, names \in Declarations :
            /\ reg.options < MaxOptions
            /\ \/ Calling("declare", "options", AddOption(reg, a, names))
               \/ Calling("declare", "options", AddFlag(reg, a, names))
      BY <1>7 DEF DeclareOption
    <2>2. names \in OptionNames
      BY RegistryAssumption
    <2>3. SameTree(AddOption(reg, a, names).reg, reg) /\ SameTree(AddFlag(reg, a, names).reg, reg)
      BY <1>1, <2>1, <2>2, AddOptionGood, AddFlagGood
    <2>. QED
      BY <2>1, <2>3, TreeBonds, BondsKept, CallingBonded
  <1>8. CASE NameOption
    <2>1. PICK o \in Declared, v \in BOOLEAN :
            \/ Calling("option", "renaming", OptionIgnoreCase(reg, o, v))
            \/ Setting("option", "folding", OptionIgnoreUnderscore(reg, o, v))
            \/ Setting("option", "folding", Returns([reg EXCEPT !.opt[o].configurable = v]))
            \/ \E n \in EnvironmentGiven :
                Setting("option", "folding", Returns([reg EXCEPT !.opt[o].env = n]))
      BY <1>8 DEF NameOption
    <2>2. /\ Bonded(OptionIgnoreCase(reg, o, v).reg)
          /\ Bonded(OptionIgnoreUnderscore(reg, o, v).reg)
      BY <1>1, OptionFoldingFrame, TreeBonds, BondsKept
    <2>3. CASE Setting("option", "folding", OptionIgnoreUnderscore(reg, o, v))
      BY <1>1, <2>2, <2>3, FoldingOutcome, SettingBonded
    <2>4. CASE Setting("option", "folding", Returns([reg EXCEPT !.opt[o].configurable = v]))
      <3>1. PICK s : s = [reg EXCEPT !.opt[o].configurable = v]
        OBVIOUS
      <3>2. Outcome(Returns(s))
        BY <1>1, <3>1, OptionFoldingGood DEF Outcome
      <3>3. SameBonds(s, reg) /\ Returns(s).reg = s
        BY <1>1, <3>1 DEF SameBonds, RegistryType, Returns
      <3>. QED
        BY <2>4, <3>1, <3>2, <3>3, BondsKept, SettingBonded
    <2>5. ASSUME NEW n \in EnvironmentGiven,
                 Setting("option", "folding", Returns([reg EXCEPT !.opt[o].env = n]))
          PROVE  Bonded(reg')
      <3>1. PICK s : s = [reg EXCEPT !.opt[o].env = n]
        OBVIOUS
      <3>2. Outcome(Returns(s))
        BY <1>1, <3>1, OptionFoldingGood DEF Outcome
      <3>3. SameBonds(s, reg) /\ Returns(s).reg = s
        BY <1>1, <3>1 DEF SameBonds, RegistryType, Returns
      <3>. QED
        BY <2>5, <3>1, <3>2, <3>3, BondsKept, SettingBonded
    <2>. QED
      BY <2>1, <2>2, <2>3, <2>4, <2>5, CallingBonded
  <1>9. CASE DropOption
    <2>1. PICK o \in Declared, a \in Existing :
            Calling("option", "removal", RemoveOption(reg, a, o))
      BY <1>9 DEF DropOption
    <2>2. SameTree(RemoveOption(reg, a, o).reg, reg)
      BY <1>1, RemoveOptionGood
    <2>. QED
      BY <2>1, <2>2, TreeBonds, BondsKept, CallingBonded
  <1>10. CASE PlaceOption
    <2>1. PICK o \in Declared, g \in Existing :
            Calling("option", "groups", MoveOption(reg, o, g))
      BY <1>10 DEF PlaceOption
    <2>. QED
      BY <1>1, <2>1, MoveOptionBonds, BondsKept, CallingBonded
  <1>11. CASE ReplaceOption
    <2>1. PICK o \in Declared, a \in Existing :
            /\ reg.options < MaxOptions
            /\ Calling("retire", "removal", RetireOption(reg, a, o))
      BY <1>11 DEF ReplaceOption
    <2>. QED
      BY <1>1, <2>1, RetireOptionBonds, BondsKept, CallingBonded
  <1>12. CASE SetFlag
    <2>1. PICK a \in Existing, s \in Special, names \in Declarations \cup {NoOption} :
            /\ reg.options < MaxOptions
            /\ Calling("special", "special", SetSpecial(reg, a, s, names))
      BY <1>12 DEF SetFlag
    <2>2. names \in OptionNames
      <3>1. NoOption \in OptionNames
        BY DEF NoOption, Declaration, OptionNames
      <3>. QED
        BY <3>1, RegistryAssumption
    <2>3. SameTree(SetSpecial(reg, a, s, names).reg, reg)
      BY <1>1, <2>1, <2>2, SetSpecialGood
    <2>. QED
      BY <2>1, <2>3, TreeBonds, BondsKept, CallingBonded
  <1>13. CASE GrowTree
    <2>1. PICK p \in Existing :
            /\ reg.apps < MaxApps
            /\ reg.options + Repeated(reg, p, "help") + Repeated(reg, p, "helpAll") <= MaxOptions
            /\ \/ \E n \in AppNamesGiven : Calling("tree", "tree", AddSubcommand(reg, p, n))
               \/ Calling("tree", "groups", AddOptionGroup(reg, p))
      BY <1>13 DEF GrowTree
    <2>2. /\ p \in Apps /\ p <= reg.apps /\ reg.apps + 1 \in Apps
          /\ AppNamesGiven \subseteq Names \cup {NoName}
      BY <1>1, <2>1, RegistryAssumption, BoundsType DEF Good, Apps
    <2>3. \A n \in AppNamesGiven : Bonded(AddSubcommand(reg, p, n).reg)
      BY <1>1, <2>1, <2>2, AddSubcommandBonded
    <2>4. Bonded(AddOptionGroup(reg, p).reg)
      BY <1>1, <2>1, <2>2, AddOptionGroupBonded
    <2>. QED
      BY <2>1, <2>3, <2>4, CallingBonded
  <1>14. CASE PruneTree
    <2>1. PICK a \in Existing \ {Root} : Calling("tree", "removal", RemoveSubcommand(reg, a))
      BY <1>14 DEF PruneTree
    <2>. QED
      BY <1>1, <2>1, RemoveSubcommandBonded, CallingBonded
  <1>15. CASE PlaceSubcommand
    <2>1. PICK a \in Existing \ {Root}, g \in Existing :
            /\ g \notin Under(reg, a)
            /\ Calling("move", "groups", MoveSubcommand(reg, a, g))
      BY <1>15 DEF PlaceSubcommand
    <2>. QED
      BY <1>1, <2>1, MoveSubcommandBonded, CallingBonded
  <1>16. CASE LinkOptions
    <2>1. PICK o \in Declared, p \in Declared :
            \/ Calling("link", "links", Needs(reg, o, p))
            \/ Calling("link", "links", Excludes(reg, o, p))
            \/ Calling("link", "links", RemoveNeeds(reg, o, p))
            \/ Calling("link", "links", RemoveExcludes(reg, o, p))
      BY <1>16 DEF LinkOptions
    <2>. QED
      BY <1>1, <2>1, OptionLinksBonds, BondsKept, CallingBonded
  <1>17. CASE LinkApps
    <2>1. PICK a \in Existing, b \in Existing :
            \/ Calling("link", "links", AppNeeds(reg, a, b))
            \/ Calling("link", "links", AppExcludes(reg, a, b))
            \/ Calling("link", "links", AppRemoveNeeds(reg, a, b))
            \/ Calling("link", "links", AppRemoveExcludes(reg, a, b))
      BY <1>17 DEF LinkApps
    <2>. QED
      BY <1>1, <2>1, LinkAppsBonded, CallingBonded
  <1>18. CASE LinkAppToOption
    <2>1. PICK a \in Existing, o \in Declared :
            \/ Calling("link", "links", AppNeedsOption(reg, a, o))
            \/ Calling("link", "links", AppExcludesOption(reg, a, o))
            \/ Calling("link", "links", AppRemoveOptionLinks(reg, a, o))
      BY <1>18 DEF LinkAppToOption
    <2>. QED
      BY <1>1, <2>1, OptionLinksBonds, BondsKept, CallingBonded
  <1>19. CASE BeginParse
    <2>1. Calling("parse", "startup", Returns(Configured(reg)))
      BY <1>19 DEF BeginParse
    <2>2. Returns(Configured(reg)).reg = Configured(reg)
      BY DEF Returns
    <2>. QED
      BY <1>1, <2>1, <2>2, ConfiguredBonds, BondsKept, CallingBonded
  <1>20. CASE UNCHANGED vars
    BY <1>20 DEF vars
  <1>. QED
    BY <1>2, <1>3, <1>4, <1>5, <1>6, <1>7, <1>8, <1>9, <1>10, <1>11, <1>12, <1>13,
       <1>14, <1>15, <1>16, <1>17, <1>18, <1>19, <1>20 DEF Next

\* While two Apps exist, exclusion between them is mutual, through the moves
\* into groups, removals and refusals that forget links on one side or both
\* (App::excludes, App::remove_excludes, App::remove_subcommand).
THEOREM ExclusionStaysMutual == Spec => []AppExclusionMutual
  <1>. DEFINE Bound == Bonded(reg)
  <1>1. Init => Bound
    BY InitBonded
  <1>2. RegistryInv /\ Bound /\ [Next]_vars => Bound'
    BY StepBonded
  <1>3. RegistryInv /\ Bound => AppExclusionMutual
    <2>1. RegistryInv => \A a \in Existing : a \in Apps /\ Lives(reg, a)
      BY BoundsType DEF RegistryInv, Good, RegistryType, Existing, Apps
    <2>. QED
      BY <2>1 DEF AppExclusionMutual, Bonded, Mutual
  <1>. HIDE DEF Bound
  <1>. QED
    BY <1>1, <1>2, <1>3, RegistryKept, PTL DEF Spec

-----------------------------------------------------------------------------
(* The levels of the tree.                                                 *)

\* The way up goes on through x.
Open(r, x) == Nameless(r, x) /\ r.parent[x] # Nobody

\* The way up from u does not leave C.
Upward(r, u, C) ==
    /\ r.parent[u] # Nobody => r.parent[u] \in C
    /\ \A x \in C : Open(r, x) => r.parent[x] \in C

\* The Apps on the way up from u, to the first that has a name or no parent.
Passed(r, u) == {x \in Apps : \A C \in SUBSET Apps : Upward(r, u, C) => x \in C}

LEMMA PassedIs ==
    ASSUME NEW r, Good(r), NEW u \in Apps
    PROVE  /\ Passed(r, u) \in SUBSET Apps
           /\ Upward(r, u, Passed(r, u))
           /\ \A C \in SUBSET Apps : Upward(r, u, C) => Passed(r, u) \subseteq C
           /\ r.parent[u] = Nobody => Passed(r, u) = {}
  <1>1. \A x \in Apps : r.parent[x] \in Apps \cup {Nobody}
    BY DEF Good, RegistryType
  <1>2. Upward(r, u, Passed(r, u))
    <2>1. r.parent[u] # Nobody => r.parent[u] \in Passed(r, u)
      BY <1>1 DEF Passed, Upward
    <2>2. ASSUME NEW x \in Passed(r, u), Open(r, x)
          PROVE  r.parent[x] \in Passed(r, u)
      <3>1. x \in Apps /\ r.parent[x] \in Apps
        BY <1>1, <2>2 DEF Passed, Open
      <3>. QED
        BY <2>2, <3>1 DEF Passed, Upward
    <2>. QED
      BY <2>1, <2>2 DEF Upward
  <1>3. r.parent[u] = Nobody => Passed(r, u) = {}
    <2>1. r.parent[u] = Nobody => Upward(r, u, {})
      BY DEF Upward
    <2>2. {} \in SUBSET Apps
      OBVIOUS
    <2>. QED
      BY <2>1, <2>2 DEF Passed
  <1>. QED
    BY <1>2, <1>3 DEF Passed

\* The way goes on from an App of it that is open.
LEMMA PassedAbove ==
    ASSUME NEW r, Good(r), NEW u \in Apps, NEW x \in Passed(r, u), Open(r, x)
    PROVE  x \in Apps /\ Passed(r, x) \subseteq Passed(r, u)
  <1>1. x \in Apps /\ Upward(r, u, Passed(r, u)) /\ Passed(r, u) \in SUBSET Apps
    BY PassedIs
  <1>2. Upward(r, x, Passed(r, u))
    BY <1>1 DEF Upward
  <1>. QED
    BY <1>1, <1>2, PassedIs

\* It begins at the parent.
LEMMA PassedFrom ==
    ASSUME NEW r, Good(r), NEW u \in Apps, NEW x \in Passed(r, u)
    PROVE  /\ r.parent[u] \in Apps
           /\ x = r.parent[u] \/ (Open(r, r.parent[u]) /\ x \in Passed(r, r.parent[u]))
  <1>1. PICK p : p = r.parent[u]
    OBVIOUS
  <1>2. p \in Apps
    BY <1>1, PassedIs DEF Good, RegistryType
  <1>. DEFINE C == {p} \cup {y \in Passed(r, p) : Open(r, p)}
  <1>3. Passed(r, p) \in SUBSET Apps /\ Upward(r, p, Passed(r, p))
    BY <1>2, PassedIs
  <1>4. C \in SUBSET Apps
    BY <1>2, <1>3
  <1>5. Upward(r, u, C)
    BY <1>1, <1>3 DEF Upward, Open
  <1>6. x \in C
    <2>. HIDE DEF C
    <2>. QED
      BY <1>4, <1>5, PassedIs
  <1>. QED
    BY <1>1, <1>2, <1>6

\* It does not come back.
LEMMA PassedOnward ==
    ASSUME NEW r, Good(r), Rooted(r), NEW u \in Apps
    PROVE  u \notin Passed(r, u)
  <1>. SUFFICES ASSUME u \in Passed(r, u) PROVE FALSE
    OBVIOUS
  <1>. DEFINE T == {x \in Apps : u \in Passed(r, x)}
  <1>1. \A x \in T : r.parent[x] \in T
    BY PassedFrom
  <1>2. T # {} /\ T \in SUBSET Apps
    OBVIOUS
  <1>. HIDE DEF T
  <1>. QED
    BY <1>1, <1>2 DEF Rooted

\* It ends, at one App.
LEMMA PassedEnds ==
    ASSUME NEW r, Good(r), Rooted(r), NEW u \in Apps, r.parent[u] # Nobody
    PROVE  \E x \in Passed(r, u) : ~Open(r, x)
  <1>1. Passed(r, u) \in SUBSET Apps /\ Passed(r, u) # {} /\ Upward(r, u, Passed(r, u))
    BY PassedIs DEF Upward
  <1>2. PICK x \in Passed(r, u) : r.parent[x] \notin Passed(r, u)
    BY <1>1 DEF Rooted
  <1>. QED
    BY <1>1, <1>2 DEF Upward

LEMMA PassedEndsOnce ==
    ASSUME NEW r, Good(r), NEW u \in Apps, NEW x \in Passed(r, u), NEW y \in Passed(r, u),
           ~Open(r, x), ~Open(r, y)
    PROVE  x = y
  <1>. DEFINE C == {x} \cup {z \in Apps : Open(r, z) /\ x \in Passed(r, z)}
  <1>1. Passed(r, u) \in SUBSET Apps
    BY PassedIs
  <1>2. C \in SUBSET Apps
    BY <1>1
  <1>3. r.parent[u] # Nobody => r.parent[u] \in C
    BY PassedFrom
  <1>4. \A z \in C : Open(r, z) => r.parent[z] \in C
    BY PassedFrom
  <1>5. y \in C
    <2>1. Upward(r, u, C)
      BY <1>3, <1>4 DEF Upward
    <2>. HIDE DEF C
    <2>. QED
      BY <1>2, <2>1, PassedIs
  <1>. QED
    BY <1>5

\* It comes to b along one of the subcommands of b.
LEMMA PassedBy ==
    ASSUME NEW r, Good(r), NEW u \in Apps, NEW b \in Passed(r, u)
    PROVE  \E s \in Subcommands(r, b) : u = s \/ (Open(r, s) /\ s \in Passed(r, u))
  <1>1. Passed(r, u) \in SUBSET Apps /\ Upward(r, u, Passed(r, u))
    BY PassedIs
  <1>. SUFFICES ASSUME \A s \in Subcommands(r, b) :
                           u # s /\ ~(Open(r, s) /\ s \in Passed(r, u))
                PROVE  FALSE
    OBVIOUS
  <1>2. Upward(r, u, Passed(r, u) \ {b})
    BY <1>1 DEF Upward, Subcommands
  <1>. QED
    BY <1>1, <1>2, PassedIs

\* The end of the way is what App::_get_fallthrough_parent returns.
LEMMA TopLevelIs ==
    ASSUME NEW r, Good(r), Rooted(r), NEW a \in Apps
    PROVE  /\ TopLevel(r, a) \in Apps /\ ~Open(r, TopLevel(r, a))
           /\ \A u \in Apps : r.parent[u] = a => TopLevel(r, a) \in Passed(r, u)
           /\ TopLevel(r, a) = IF Open(r, a) THEN TopLevel(r, r.parent[a]) ELSE a
  <1>. DEFINE Up == [b \in Apps |-> IF Open(r, b) THEN {r.parent[b]} ELSE {}]
              F == [f \in [Apps -> Apps] |->
                      [b \in Apps |->
                          IF Nameless(r, b) /\ r.parent[b] # Nobody THEN f[r.parent[b]] ELSE b]]
              up == CHOOSE f : f = [b \in Apps |->
                          IF Nameless(r, b) /\ r.parent[b] # Nobody THEN f[r.parent[b]] ELSE b]
  <1>1. /\ \A b \in Apps : Open(r, b) => r.parent[b] \in Apps
        /\ Nobody \notin Apps
    BY BoundsType DEF Good, RegistryType, Open
  <1>2. /\ Up \in [Apps -> SUBSET Apps]
        /\ \A b \in Apps : Up[b] = IF Open(r, b) THEN {r.parent[b]} ELSE {}
    BY <1>1
  <1>3. WellFounded(Apps, Up)
    <2>1. ASSUME NEW T \in SUBSET Apps, T # {}
          PROVE  \E b \in T : Up[b] \cap T = {}
      <3>1. PICK b \in T : r.parent[b] \notin T
        BY <2>1 DEF Rooted
      <3>. QED
        BY <1>2, <3>1
    <2>. HIDE DEF Up
    <2>. QED
      BY <2>1 DEF WellFounded
  <1>4. F \in [[Apps -> Apps] -> [Apps -> Apps]]
    BY <1>1 DEF Open
  <1>5. Local(Apps, Up, Apps, F)
    <2>1. ASSUME NEW f \in [Apps -> Apps], NEW g \in [Apps -> Apps], NEW b \in Apps,
                 \A x \in Up[b] : f[x] = g[x]
          PROVE  F[f][b] = F[g][b]
      BY <1>2, <2>1 DEF Open
    <2>. HIDE DEF F, Up
    <2>. QED
      BY <2>1 DEF Local
  <1>6. PICK f \in [Apps -> Apps] : f = F[f]
    <2>1. Apps # {}
      BY BoundsType
    <2>. HIDE DEF F, Up
    <2>2. Recursion(Apps, Up, Apps, F)
      BY <1>2, <1>3, <1>4, <1>5, <2>1 DEF Recursion
    <2>. QED
      BY <2>2, RecursionSolved
  <1>7. up = [b \in Apps |->
                 IF Nameless(r, b) /\ r.parent[b] # Nobody THEN up[r.parent[b]] ELSE b]
    <2>1. f = [b \in Apps |->
                 IF Nameless(r, b) /\ r.parent[b] # Nobody THEN f[r.parent[b]] ELSE b]
      BY <1>6
    <2>. QED
      BY ONLY <2>1 DEF up
  <1>8. \A b \in Apps : TopLevel(r, b) = up[b]
    BY DEF TopLevel
  <1>9. \A b \in Apps : up[b] = IF Open(r, b) THEN up[r.parent[b]] ELSE b
    BY <1>7 DEF Open
  <1>. HIDE DEF up
  <1>. DEFINE Fine(b) == /\ up[b] \in Apps /\ ~Open(r, up[b])
                         /\ up[b] = b \/ (Open(r, b) /\ up[b] \in Passed(r, b))
              Found == {b \in Apps : Fine(b)}
  <1>10. ASSUME NEW b \in Apps, Open(r, b) => Fine(r.parent[b])
         PROVE  Fine(b)
    <2>1. CASE ~Open(r, b)
      BY <1>9, <2>1
    <2>2. CASE Open(r, b)
      <3>1. up[b] = up[r.parent[b]] /\ r.parent[b] \in Apps
        BY <1>1, <1>9, <2>2
      <3>2. r.parent[b] \in Passed(r, b)
        BY <2>2, PassedIs DEF Upward, Open
      <3>3. Open(r, r.parent[b]) => Passed(r, r.parent[b]) \subseteq Passed(r, b)
        BY <3>2, PassedAbove
      <3>. QED
        BY <1>10, <2>2, <3>1, <3>2, <3>3
    <2>. QED
      BY <2>1, <2>2
  <1>11. Found \in SUBSET Apps /\ \A b \in Apps : Up[b] \subseteq Found => b \in Found
    <2>. HIDE DEF Fine, Up
    <2>. QED
      BY <1>2, <1>10
  <1>12. Found = Apps
    <2>. HIDE DEF Found, Up
    <2>. QED
      BY <1>2, <1>3, <1>11, InductionAlong
  <1>13. Fine(a)
    BY <1>12
  <1>14. ASSUME NEW u \in Apps, r.parent[u] = a
         PROVE  up[a] \in Passed(r, u)
    <2>1. a \in Passed(r, u)
      BY <1>1, <1>14, PassedIs DEF Upward
    <2>2. Open(r, a) => Passed(r, a) \subseteq Passed(r, u)
      BY <2>1, PassedAbove
    <2>. QED
      BY <1>13, <2>1, <2>2
  <1>. QED
    BY <1>1, <1>8, <1>9, <1>13, <1>14

\* The level of a: what comes by it on the way up, as long as no App is
\* disabled.
Enabled(r) == \A a \in Apps : ~r.app[a].disabled

\* Going down from an App to its subcommands ends.
LEMMA SubcommandsEnd ==
    ASSUME NEW r, Rooted(r), NEW Down, Down = [b \in Apps |-> Subcommands(r, b)]
    PROVE  /\ Down \in [Apps -> SUBSET Apps]
           /\ \A b \in Apps : Down[b] = Subcommands(r, b)
           /\ WellFounded(Apps, Down)
  <1>1. /\ Down \in [Apps -> SUBSET Apps]
        /\ \A b \in Apps : Down[b] = Subcommands(r, b)
    BY DEF Subcommands
  <1>2. PICK parent : parent = r.parent
    OBVIOUS
  <1>3. \A b \in Apps : \A s \in Down[b] : parent[s] = b
    BY <1>1, <1>2 DEF Subcommands
  <1>4. \A T \in SUBSET Apps : T # {} => \E b \in T : parent[b] \notin T
    BY <1>2 DEF Rooted
  <1>5. IsFiniteSet(Apps)
    BY BoundsType, FS_Interval DEF Apps
  <1>6. WellFounded(Apps, Down)
    BY ONLY <1>1, <1>3, <1>4, <1>5, WayDownWellFounded
  <1>. QED
    BY <1>1, <1>6

LEMMA LevelUnfolds ==
    ASSUME NEW r, Good(r), Rooted(r), Enabled(r)
    PROVE  \A a \in Apps :
              Level(r, a) = {a} \cup IF Nameless(r, a)
                                     THEN UNION {Level(r, s) : s \in Subcommands(r, a)} ELSE {}
  <1>. DEFINE On(b) == {t \in Subcommands(r, b) : ~r.app[t].disabled}
              Down == [b \in Apps |-> Subcommands(r, b)]
              V == SUBSET Apps
              F == [f \in [Apps -> V] |->
                      [b \in Apps |-> {b} \cup IF Nameless(r, b)
                                               THEN UNION {f[s] : s \in On(b)} ELSE {}]]
              level == CHOOSE f : f =
                      [b \in Apps |-> {b} \cup IF Nameless(r, b)
                                               THEN UNION {f[s] : s \in On(b)} ELSE {}]
  <1>1. /\ \A b \in Apps : Subcommands(r, b) = {s \in Apps : r.parent[s] = b}
        /\ Down \in [Apps -> SUBSET Apps]
        /\ \A b \in Apps : Down[b] = Subcommands(r, b)
        /\ \A b \in Apps : On(b) = Subcommands(r, b)
    BY DEF Subcommands, Enabled
  <1>2. WellFounded(Apps, Down)
    BY SubcommandsEnd
  <1>3. F \in [[Apps -> V] -> [Apps -> V]]
    BY <1>1
  <1>4. Local(Apps, Down, V, F)
    <2>1. ASSUME NEW f \in [Apps -> V], NEW g \in [Apps -> V], NEW b \in Apps,
                 \A s \in Down[b] : f[s] = g[s]
          PROVE  F[f][b] = F[g][b]
      <3>1. {f[s] : s \in On(b)} = {g[s] : s \in On(b)}
        <4>. HIDE DEF On
        <4>. QED
          BY <1>1, <2>1
      <3>. HIDE DEF On
      <3>. QED
        BY <3>1
    <2>. HIDE DEF F, V, Down
    <2>. QED
      BY <2>1 DEF Local
  <1>5. PICK f \in [Apps -> V] : f = F[f]
    <2>1. V # {}
      OBVIOUS
    <2>. HIDE DEF V, F, Down
    <2>2. Recursion(Apps, Down, V, F)
      BY <2>1, <1>1, <1>2, <1>3, <1>4 DEF Recursion
    <2>. QED
      BY <2>2, RecursionSolved
  <1>6. level = [b \in Apps |-> {b} \cup IF Nameless(r, b)
                                         THEN UNION {level[s] : s \in On(b)} ELSE {}]
    <2>1. f = [b \in Apps |-> {b} \cup IF Nameless(r, b)
                                       THEN UNION {f[s] : s \in On(b)} ELSE {}]
      BY <1>5
    <2>. QED
      BY ONLY <2>1 DEF level
  <1>7. \A b \in Apps : Level(r, b) = level[b]
    BY DEF Level
  <1>. HIDE DEF level, On
  <1>8. ASSUME NEW a \in Apps
        PROVE  level[a] = {a} \cup IF Nameless(r, a)
                                   THEN UNION {level[s] : s \in Subcommands(r, a)} ELSE {}
    BY <1>1, <1>6
  <1>9. ASSUME NEW a \in Apps
        PROVE  {level[s] : s \in Subcommands(r, a)} = {Level(r, s) : s \in Subcommands(r, a)}
    BY <1>1, <1>7
  <1>. QED
    BY <1>7, <1>8, <1>9

LEMMA LevelInApps ==
    ASSUME NEW r, Good(r), Rooted(r), Enabled(r), NEW a \in Apps
    PROVE  Level(r, a) \subseteq Apps
  <1>. DEFINE Down   == [b \in Apps |-> Subcommands(r, b)]
              Inside == {b \in Apps : Level(r, b) \subseteq Apps}
  <1>1. /\ Down \in [Apps -> SUBSET Apps] /\ WellFounded(Apps, Down)
        /\ \A b \in Apps : Down[b] = Subcommands(r, b)
    BY SubcommandsEnd
  <1>. HIDE DEF Down
  <1>2. ASSUME NEW b \in Apps, Down[b] \subseteq Inside
        PROVE  b \in Inside
    <2>1. Level(r, b) = {b} \cup IF Nameless(r, b)
                                 THEN UNION {Level(r, s) : s \in Subcommands(r, b)} ELSE {}
      BY LevelUnfolds
    <2>2. \A s \in Subcommands(r, b) : Level(r, s) \subseteq Apps
      BY <1>1, <1>2
    <2>. QED
      BY <2>1, <2>2
  <1>3. Inside \in SUBSET Apps
    OBVIOUS
  <1>4. a \in Inside
    <2>. HIDE DEF Inside
    <2>. QED
      BY <1>1, <1>2, <1>3, InductionAlong
  <1>. QED
    BY <1>4

LEMMA LevelIs ==
    ASSUME NEW r, Good(r), Rooted(r), Enabled(r), NEW a \in Apps, NEW u \in Apps
    PROVE  u \in Level(r, a) <=> u = a \/ (Nameless(r, a) /\ a \in Passed(r, u))
  <1>1. \A b \in Apps :
            Level(r, b) = {b} \cup IF Nameless(r, b)
                                   THEN UNION {Level(r, s) : s \in Subcommands(r, b)} ELSE {}
    BY LevelUnfolds
  <1>2. /\ \A b \in Apps : Subcommands(r, b) = {s \in Apps : r.parent[s] = b}
        /\ \A b \in Apps : r.parent[b] \in Apps \cup {Nobody}
        /\ Nobody \notin Apps
    BY BoundsType DEF Subcommands, Good, RegistryType
  <1>3. Upward(r, u, Passed(r, u)) /\ Passed(r, u) \in SUBSET Apps
    BY PassedIs
  <1>4. ASSUME a \in Passed(r, u), Nameless(r, a)
        PROVE  u \in Level(r, a)
    <2>. DEFINE C == {x \in Apps : Nameless(r, x) => u \in Level(r, x)}
    <2>1. ASSUME NEW y \in Apps, NEW x \in Apps, r.parent[y] = x, Nameless(r, x),
                 u \in Level(r, y)
          PROVE  u \in Level(r, x)
      BY <1>1, <1>2, <2>1
    <2>2. u \in Level(r, u)
      BY <1>1
    <2>3. Upward(r, u, C)
      BY <1>2, <2>1, <2>2 DEF Upward, Open
    <2>4. C \in SUBSET Apps
      OBVIOUS
    <2>5. a \in C
      <3>. HIDE DEF C
      <3>. QED
        BY <1>4, <2>3, <2>4, PassedIs
    <2>. QED
      BY <1>4, <2>5
  <1>. DEFINE Down == [b \in Apps |-> Subcommands(r, b)]
              Found == {b \in Apps : u \in Level(r, b) =>
                                        u = b \/ (Nameless(r, b) /\ b \in Passed(r, u))}
  <1>5. /\ Down \in [Apps -> SUBSET Apps]
        /\ \A b \in Apps : Down[b] = Subcommands(r, b)
    BY <1>2
  <1>6. WellFounded(Apps, Down)
    BY SubcommandsEnd
  <1>7. ASSUME NEW b \in Apps, Down[b] \subseteq Found
        PROVE  b \in Found
    <2>. SUFFICES ASSUME u \in Level(r, b), u # b
                  PROVE  Nameless(r, b) /\ b \in Passed(r, u)
      OBVIOUS
    <2>1. PICK s \in Subcommands(r, b) : Nameless(r, b) /\ u \in Level(r, s)
      BY <1>1
    <2>2. s \in Found /\ r.parent[s] = b /\ s \in Apps
      BY <1>2, <1>5, <1>7, <2>1
    <2>3. b \in Passed(r, u)
      BY <1>2, <1>3, <2>1, <2>2 DEF Upward, Open
    <2>. QED
      BY <2>1, <2>3
  <1>8. Found = Apps
    <2>1. Found \in SUBSET Apps
      OBVIOUS
    <2>. HIDE DEF Found, Down
    <2>. QED
      BY <1>5, <1>6, <1>7, <2>1, InductionAlong
  <1>9. u \in Level(r, u)
    BY <1>1
  <1>. QED
    BY <1>4, <1>8, <1>9

-----------------------------------------------------------------------------
(* Whole names at one level.                                               *)

\* The ways up from u and v end at the same App; v is a group that holds u.
Meet(r, u, v) == \E b \in Passed(r, u) \cap Passed(r, v) : ~Open(r, b)
Within(r, u, v) == Open(r, v) /\ v \in Passed(r, u)

\* Apps at one level of which none holds the other have no name in common.
Apart(r) ==
    \A u, v \in Apps :
        u # v /\ Meet(r, u, v) /\ SameName(r.app[u], r.app[v])
            => Within(r, u, v) \/ Within(r, v, u)

\* Only a is changed or moved.
SameBut(s, r, a) ==
    \A x \in Apps : x # a => s.parent[x] = r.parent[x] /\ s.app[x] = r.app[x]

\* A way up that does not come by a stays as it is.
LEMMA PassedKept ==
    ASSUME NEW r, Good(r), NEW s, Good(s), NEW a \in Apps, SameBut(s, r, a),
           NEW u \in Apps, u # a \/ s.parent[a] = r.parent[a], a \notin Passed(r, u)
    PROVE  Passed(s, u) = Passed(r, u)
  <1>1. ASSUME NEW x, NEW y, Good(x), Good(y), SameBut(x, y, a), a \notin Passed(y, u),
               u # a \/ x.parent[a] = y.parent[a]
        PROVE  Passed(x, u) \subseteq Passed(y, u)
    <2>1. Passed(y, u) \in SUBSET Apps /\ Upward(y, u, Passed(y, u))
      BY <1>1, PassedIs
    <2>2. Upward(x, u, Passed(y, u))
      BY <1>1, <2>1 DEF SameBut, Upward, Open, Nameless
    <2>. QED
      BY <1>1, <2>1, <2>2, PassedIs
  <1>2. SameBut(r, s, a)
    BY DEF SameBut
  <1>3. Passed(s, u) \subseteq Passed(r, u)
    BY <1>1
  <1>4. Passed(r, u) \subseteq Passed(s, u)
    BY <1>1, <1>2, <1>3
  <1>. QED
    BY <1>3, <1>4

LEMMA PassingKept ==
    ASSUME NEW r, Good(r), NEW s, Good(s), NEW a \in Apps, SameBut(s, r, a),
           NEW u \in Apps, u # a
    PROVE  a \in Passed(s, u) <=> a \in Passed(r, u)
  <1>1. SameBut(r, s, a)
    BY DEF SameBut
  <1>. QED
    BY <1>1, PassedKept

\* What holds v on its way up from below a holds it still.
LEMMA WithinKept ==
    ASSUME NEW r, Good(r), Rooted(r), NEW s, Good(s), NEW a \in Apps, SameBut(s, r, a),
           NEW u \in Apps, NEW v \in Apps, u # a, v # a, Within(r, u, v), a \in Passed(r, v)
    PROVE  Within(s, u, v)
  <1>1. Open(s, v)
    BY DEF Within, SameBut, Open, Nameless
  <1>2. /\ Passed(s, u) \in SUBSET Apps /\ Upward(s, u, Passed(s, u))
        /\ Passed(r, a) \in SUBSET Apps /\ Upward(r, a, Passed(r, a))
    BY PassedIs
  <1>. DEFINE C == Passed(s, u) \cup {a} \cup Passed(r, a)
  <1>3. Upward(r, u, C)
    BY <1>2 DEF Upward, SameBut, Open, Nameless
  <1>4. v \in C
    <2>1. C \in SUBSET Apps
      BY <1>2
    <2>. HIDE DEF C
    <2>. QED
      BY <1>3, <2>1, PassedIs DEF Within
  <1>5. v \notin Passed(r, a)
    <2>. SUFFICES ASSUME v \in Passed(r, a) PROVE FALSE
      OBVIOUS
    <2>1. a \in Passed(r, a)
      BY PassedAbove DEF Within
    <2>. QED
      BY <2>1, PassedOnward
  <1>. QED
    BY <1>1, <1>4, <1>5 DEF Within

LEMMA SameNameSymmetric ==
    ASSUME NEW x, NEW y, SameName(x, y)
    PROVE  SameName(y, x)
  BY DEF SameName

\* a is renamed or moved, and what comes with it to its level was compared
\* with what is there.
LEMMA RejoinedApart ==
    ASSUME NEW r, Good(r), Rooted(r), Apart(r), NEW s, Good(s), Rooted(s),
           NEW a \in Apps, SameBut(s, r, a),
           \A u, v \in Apps :
              /\ u = a \/ Within(s, u, a)
              /\ v # a /\ ~Within(s, v, a) /\ Meet(s, u, v)
              => ~SameName(s.app[u], s.app[v])
    PROVE  Apart(s)
  <1>. SUFFICES ASSUME NEW u \in Apps, NEW v \in Apps, u # v, Meet(s, u, v),
                       SameName(s.app[u], s.app[v])
                PROVE  Within(s, u, v) \/ Within(s, v, u)
    BY DEF Apart
  <1>1. Meet(s, v, u) /\ SameName(s.app[v], s.app[u])
    BY SameNameSymmetric DEF Meet
  <1>2. CASE u = a \/ v = a
    BY <1>1, <1>2
  <1>3. CASE u # a /\ v # a
    <2>1. Within(s, u, a) <=> Within(s, v, a)
      BY <1>1, <1>3
    <2>2. PICK b \in Passed(s, u) \cap Passed(s, v) : ~Open(s, b)
      BY DEF Meet
    <2>3. a \in Passed(s, u) <=> a \in Passed(s, v)
      BY <2>1, <2>2, PassedEndsOnce DEF Within
    <2>4. r.app[u] = s.app[u] /\ r.app[v] = s.app[v]
      BY <1>3 DEF SameBut
    <2>5. CASE a \in Passed(s, u)
      <3>1. a \in Passed(r, u) /\ a \in Passed(r, v)
        BY <1>3, <2>3, <2>5, PassingKept
      <3>2. Meet(r, u, v)
        <4>1. CASE ~Open(r, a)
          BY <3>1, <4>1 DEF Meet
        <4>2. CASE Open(r, a)
          <5>1. PICK c \in Passed(r, a) : ~Open(r, c)
            BY <4>2, PassedEnds DEF Open
          <5>2. c \in Passed(r, u) /\ c \in Passed(r, v)
            BY <3>1, <4>2, PassedAbove
          <5>. QED
            BY <5>1, <5>2 DEF Meet
        <4>. QED
          BY <4>1, <4>2
      <3>3. Within(r, u, v) \/ Within(r, v, u)
        BY <2>4, <3>2 DEF Apart
      <3>. QED
        BY <1>3, <3>1, <3>3, WithinKept
    <2>6. CASE a \notin Passed(s, u)
      <3>1. Passed(r, u) = Passed(s, u) /\ Passed(r, v) = Passed(s, v)
        BY <1>3, <2>3, <2>6, PassedKept, PassingKept
      <3>2. \A x \in Passed(s, u) \cup Passed(s, v) : x # a /\ (Open(r, x) <=> Open(s, x))
        <4>1. Passed(s, u) \in SUBSET Apps /\ Passed(s, v) \in SUBSET Apps
          BY PassedIs
        <4>. QED
          BY <2>3, <2>6, <4>1 DEF SameBut, Open, Nameless
      <3>3. Meet(r, u, v)
        BY <2>2, <3>1, <3>2 DEF Meet
      <3>4. Within(r, u, v) \/ Within(r, v, u)
        BY <2>4, <3>3 DEF Apart
      <3>. QED
        BY <3>1, <3>2, <3>4 DEF Within
    <2>. QED
      BY <2>5, <2>6
  <1>. QED
    BY <1>2, <1>3

\* Names are lost, and no App is moved.
LEMMA CalmedApart ==
    ASSUME NEW r, Good(r), Apart(r), NEW s, Good(s), s.parent = r.parent,
           \A x \in Apps : s.app[x].name = r.app[x].name,
           \A x, y \in Apps : SameName(s.app[x], s.app[y]) => SameName(r.app[x], r.app[y])
    PROVE  Apart(s)
  <1>1. \A x \in Apps : Open(s, x) <=> Open(r, x)
    BY DEF Open, Nameless
  <1>2. \A u \in Apps : \A C \in SUBSET Apps : Upward(s, u, C) <=> Upward(r, u, C)
    BY <1>1 DEF Upward
  <1>3. \A u \in Apps : Passed(s, u) = Passed(r, u)
    BY <1>2 DEF Passed
  <1>4. \A u \in Apps : Passed(r, u) \in SUBSET Apps
    BY PassedIs
  <1>. QED
    BY <1>1, <1>3, <1>4 DEF Apart, Meet, Within

LEMMA SameNameCollides ==
    ASSUME NEW x, NEW y, SameName(x, y)
    PROVE  Collide(x, y)
  BY DEF SameName, Collide, CheckAppName

\* App::_compare_subcommand_names finds nothing: off is the tree it looks at,
\* in which a may not be listed yet.
LEMMA ComparedApart ==
    ASSUME NEW r, Good(r), Rooted(r), Apart(r),
           NEW s, Good(s), Rooted(s), Enabled(s),
           NEW a \in Apps, s.parent[a] # Nobody, SameBut(s, r, a),
           NEW off, Good(off), Rooted(off), off.app = s.app,
           off.parent \in {s.parent, [s.parent EXCEPT ![a] = Nobody]},
           ~Taken(off, a, TopLevel(s, s.parent[a]))
    PROVE  Apart(s)
  <1>1. PICK base : base = TopLevel(s, s.parent[a])
    OBVIOUS
  <1>2. /\ s.parent \in [Apps -> Apps \cup {Nobody}] /\ s.parent[a] \in Apps
        /\ Enabled(off)
    BY DEF Good, RegistryType, Enabled
  <1>3. base \in Passed(s, a) /\ ~Open(s, base) /\ base # a
    BY <1>1, <1>2, TopLevelIs, PassedOnward
  <1>4. SameBut(off, s, a)
    BY <1>2 DEF SameBut
  <1>5. ASSUME NEW u \in Apps, NEW v \in Apps, u = a \/ Within(s, u, a),
               v # a, ~Within(s, v, a), Meet(s, u, v)
        PROVE  ~SameName(s.app[u], s.app[v])
    <2>1. base \in Passed(s, u)
      BY <1>3, <1>5, PassedAbove DEF Within
    <2>2. base \in Passed(s, v)
      BY <1>3, <1>5, <2>1, PassedEndsOnce DEF Meet
    <2>3. a \notin Passed(s, v)
      BY <1>3, <1>5, <2>2, PassedEndsOnce DEF Within
    <2>4. Passed(off, v) = Passed(s, v)
      BY <1>4, <1>5, <2>3, PassedKept
    <2>5. PICK y \in Subcommands(off, base) : v = y \/ (Open(off, y) /\ y \in Passed(off, v))
      BY <2>2, <2>4, PassedBy
    <2>6. y \in Apps /\ y # a
      BY <1>5, <2>3, <2>4, <2>5 DEF Subcommands
    <2>7. v \in Level(off, y)
      BY <1>2, <2>5, <2>6, LevelIs DEF Open
    <2>8. u \in Level(off, a)
      <3>1. CASE u = a
        BY <1>2, <3>1, LevelIs
      <3>2. CASE u # a
        <4>1. a \in Passed(off, u) /\ Nameless(off, a)
          BY <1>4, <1>5, <3>2, PassingKept DEF Within, Open, Nameless
        <4>. QED
          BY <1>2, <4>1, LevelIs
      <3>. QED
        BY <3>1, <3>2
    <2>9. u # v
      BY <1>5
    <2>10. ~Collide(off.app[u], off.app[v])
      BY <1>1, <1>2, <2>5, <2>6, <2>7, <2>8, <2>9 DEF Taken, Enabled
    <2>. QED
      BY <2>10, SameNameCollides
  <1>. QED
    BY <1>5, RejoinedApart

\* The names of an App at the top of its tree are at no level.
LEMMA TopApart ==
    ASSUME NEW r, Good(r), Rooted(r), Apart(r), NEW s, Good(s), Rooted(s),
           NEW a \in Apps, s.parent[a] = Nobody, SameBut(s, r, a)
    PROVE  Apart(s)
  <1>1. Passed(s, a) = {}
    BY PassedIs
  <1>2. \A u, v \in Apps : (u = a \/ Within(s, u, a)) => ~Meet(s, u, v)
    BY <1>1 DEF Within, Open, Meet
  <1>. QED
    BY <1>2, RejoinedApart

-----------------------------------------------------------------------------
(* What every call keeps of the levels, as long as no App was disabled.    *)

Leveled(r) == ~r.switched => Enabled(r) /\ Apart(r)

\* Other parts of the registry do not matter.
LEMMA LeveledKept ==
    ASSUME NEW r, Good(r), Leveled(r), NEW s, Good(s),
           s.app = r.app, s.parent = r.parent, s.switched = r.switched
    PROVE  Leveled(s)
  BY CalmedApart DEF Leveled, Enabled

\* The level that an App is compared with.
LEMMA LevelOfIs ==
    ASSUME NEW r, NEW a, r.parent[a] # Nobody
    PROVE  LevelOf(r, a) = TopLevel(r, r.parent[a]) /\ OwnLevel(r, a) = TopLevel(r, r.parent[a])
  BY DEF LevelOf, OwnLevel, FallthroughParent

\* It stays when only a gets another name.
LEMMA TopKept ==
    ASSUME NEW r, Good(r), Rooted(r), NEW s, Good(s), Rooted(s), NEW a \in Apps,
           SameBut(s, r, a), s.parent[a] = r.parent[a], r.parent[a] # Nobody
    PROVE  TopLevel(s, s.parent[a]) = TopLevel(r, r.parent[a])
  <1>1. r.parent[a] \in Apps /\ s.parent[a] \in Apps
    BY DEF Good, RegistryType
  <1>2. a \notin Passed(r, a) /\ Passed(s, a) = Passed(r, a) /\ Passed(r, a) \in SUBSET Apps
    BY PassedOnward, PassedKept, PassedIs
  <1>3. PICK x, y : x = TopLevel(r, r.parent[a]) /\ y = TopLevel(s, s.parent[a])
    OBVIOUS
  <1>4. x \in Passed(r, a) /\ ~Open(r, x) /\ y \in Passed(r, a) /\ ~Open(s, y)
    BY <1>1, <1>2, <1>3, TopLevelIs
  <1>5. ~Open(s, x)
    BY <1>2, <1>4 DEF SameBut, Open, Nameless
  <1>. QED
    BY <1>2, <1>3, <1>4, <1>5, PassedEndsOnce

\* An App gets another record: one that was compared, or one with less to
\* compare.
LEMMA AppAtIs ==
    ASSUME NEW r, Good(r), Rooted(r), NEW a \in Apps, NEW app \in AppType,
           NEW s, s = [r EXCEPT !.app[a] = app]
    PROVE  /\ Good(s) /\ Rooted(s) /\ SameBut(s, r, a)
           /\ s.parent = r.parent /\ s.switched = r.switched
           /\ s.app = [r.app EXCEPT ![a] = app]
  <1>1. Good(s)
    BY AppAtGood
  <1>2. /\ s.parent = r.parent /\ s.switched = r.switched /\ s.apps = r.apps
        /\ s.app = [r.app EXCEPT ![a] = app]
        /\ r.app \in [Apps -> AppType]
    BY DEF Good, RegistryType
  <1>3. Rooted(s)
    BY <1>2 DEF Rooted
  <1>4. SameBut(s, r, a)
    BY <1>2 DEF SameBut
  <1>. QED
    BY <1>1, <1>2, <1>3, <1>4

LEMMA RenamedLeveled ==
    ASSUME NEW r, Good(r), Rooted(r), Leveled(r), NEW a \in Apps, NEW app \in AppType,
           app.disabled = r.app[a].disabled,
           NEW base, r.parent[a] # Nobody => base = TopLevel(r, r.parent[a])
    PROVE  Leveled(Renamed(r, a, app, base).reg)
  <1>1. PICK s : s = [r EXCEPT !.app[a] = app]
    OBVIOUS
  <1>2. /\ Good(s) /\ Rooted(s) /\ SameBut(s, r, a)
        /\ s.parent = r.parent /\ s.switched = r.switched
        /\ s.app = [r.app EXCEPT ![a] = app]
    <2>1. r.app \in [Apps -> AppType]
      BY DEF Good, RegistryType
    <2>2. Rooted(r) /\ Good(r) /\ a \in Apps /\ app \in AppType
      OBVIOUS
    <2>. QED
      BY ONLY <1>1, <2>1, <2>2, AppAtIs
  <1>3. \/ Renamed(r, a, app, base).reg = r
        \/ /\ Renamed(r, a, app, base).reg = s
           /\ base # Nobody => ~Taken(s, a, base)
    BY <1>1 DEF Renamed, Throws, Returns
  <1>4. ASSUME ~s.switched, base # Nobody => ~Taken(s, a, base)
        PROVE  Enabled(s) /\ Apart(s)
    <2>1. Enabled(r) /\ Apart(r)
      BY <1>2, <1>4 DEF Leveled
    <2>2. Enabled(s)
      BY <1>2, <2>1 DEF Enabled, Good, RegistryType
    <2>3. CASE r.parent[a] = Nobody
      BY <1>2, <2>1, <2>2, <2>3, TopApart
    <2>4. CASE r.parent[a] # Nobody
      <3>1. base = TopLevel(s, s.parent[a])
        BY <1>2, <2>4, TopKept
      <3>2. r.parent[a] \in Apps /\ Nobody \notin Apps
        BY <2>4, BoundsType DEF Good, RegistryType
      <3>3. base # Nobody
        BY <2>4, <3>2, TopLevelIs
      <3>. QED
        BY <1>2, <1>4, <2>1, <2>2, <2>4, <3>1, <3>3, ComparedApart
    <2>. QED
      BY <2>2, <2>3, <2>4
  <1>. QED
    BY <1>3, <1>4 DEF Leveled

LEMMA CalmerNames ==
    ASSUME NEW x \in AppType, NEW y \in AppType, NEW p \in AppType, NEW q \in AppType,
           Known(x) \subseteq Known(p), Known(y) \subseteq Known(q),
           x.ignoreCase => p.ignoreCase, x.ignoreUnderscore => p.ignoreUnderscore,
           y.ignoreCase => q.ignoreCase, y.ignoreUnderscore => q.ignoreUnderscore,
           SameName(x, y)
    PROVE  SameName(p, q)
  <1>1. ASSUME NEW w \in AppType, NEW z \in AppType, Known(w) \subseteq Known(z),
               w.ignoreCase => z.ignoreCase, w.ignoreUnderscore => z.ignoreUnderscore,
               NEW n \in Names, ExactMatch(w, n)
        PROVE  ExactMatch(z, n)
    <2>1. /\ Known(w) \in SUBSET Names
          /\ w.ignoreCase \in BOOLEAN /\ w.ignoreUnderscore \in BOOLEAN
          /\ z.ignoreCase \in BOOLEAN /\ z.ignoreUnderscore \in BOOLEAN
      BY AliasesType DEF AppType, Known
    <2>2. FindMember(n, Known(w), z.ignoreCase, z.ignoreUnderscore)
      BY <1>1, <2>1, FoldingFindsMore DEF ExactMatch
    <2>. QED
      BY <1>1, <2>2 DEF ExactMatch, FindMember
  <1>2. Known(x) \subseteq Names /\ Known(y) \subseteq Names
    BY AliasesType DEF AppType, Known
  <1>. QED
    BY <1>1, <1>2 DEF SameName

\* The record has no more names than the one before and folds no more.
Calmer(app, old) ==
    /\ app.name = old.name /\ ToSet(app.aliases) \subseteq ToSet(old.aliases)
    /\ app.ignoreCase => old.ignoreCase
    /\ app.ignoreUnderscore => old.ignoreUnderscore

LEMMA CalmedLeveled ==
    ASSUME NEW r, Good(r), Leveled(r), NEW s, Good(s), s.parent = r.parent,
           \A x \in Apps : Calmer(s.app[x], r.app[x]),
           ~s.switched => ~r.switched,
           ~s.switched /\ Enabled(r) => Enabled(s)
    PROVE  Leveled(s)
  <1>1. \A x \in Apps : s.app[x] \in AppType /\ r.app[x] \in AppType
    BY DEF Good, RegistryType
  <1>2. \A x \in Apps : /\ Known(s.app[x]) \subseteq Known(r.app[x])
                        /\ s.app[x].name = r.app[x].name
    BY DEF Calmer, Known
  <1>3. \A x, y \in Apps : SameName(s.app[x], s.app[y]) => SameName(r.app[x], r.app[y])
    BY <1>1, <1>2, CalmerNames DEF Calmer
  <1>. QED
    BY <1>2, <1>3, CalmedApart DEF Leveled

LEMMA CalmedAtLeveled ==
    ASSUME NEW r, Good(r), Rooted(r), Leveled(r), NEW a \in Apps, NEW app \in AppType,
           Calmer(app, r.app[a]), app.disabled = r.app[a].disabled
    PROVE  Leveled([r EXCEPT !.app[a] = app])
  <1>1. PICK s : s = [r EXCEPT !.app[a] = app]
    OBVIOUS
  <1>2. /\ Good(s) /\ s.parent = r.parent /\ s.switched = r.switched
        /\ s.app = [r.app EXCEPT ![a] = app]
        /\ r.app \in [Apps -> AppType]
    <2>1. r.app \in [Apps -> AppType]
      BY DEF Good, RegistryType
    <2>2. Rooted(r) /\ Good(r) /\ a \in Apps /\ app \in AppType
      OBVIOUS
    <2>. QED
      BY ONLY <1>1, <2>1, <2>2, AppAtIs
  <1>3. \A x \in Apps : Calmer(s.app[x], r.app[x])
    BY <1>2 DEF Calmer
  <1>4. Enabled(r) => Enabled(s)
    BY <1>2 DEF Enabled
  <1>. QED
    BY <1>1, <1>2, <1>3, <1>4, CalmedLeveled

-----------------------------------------------------------------------------
(* The calls on Apps keep the levels.                                      *)

LEMMA NamingLeveled ==
    ASSUME NEW r, Good(r), Rooted(r), Leveled(r), NEW a \in Apps
    PROVE  /\ \A n \in AppNamesGiven : Leveled(SetName(r, a, n).reg)
           /\ \A n \in AliasesGiven : Leveled(AddAlias(r, a, n).reg)
           /\ \A v \in BOOLEAN : /\ Leveled(IgnoreCase(r, a, v).reg)
                                 /\ Leveled(IgnoreUnderscore(r, a, v).reg)
  <1>1. r.app[a] \in AppType
    BY DEF Good, RegistryType
  <1>2. r.parent[a] # Nobody => /\ LevelOf(r, a) = TopLevel(r, r.parent[a])
                                /\ OwnLevel(r, a) = TopLevel(r, r.parent[a])
    BY LevelOfIs
  <1>3. ASSUME NEW n \in AppNamesGiven
        PROVE  Leveled(SetName(r, a, n).reg)
    <2>1. PICK app : app = [r.app[a] EXCEPT !.name = n]
      OBVIOUS
    <2>2. app \in AppType /\ app.disabled = r.app[a].disabled
      BY <1>1, <2>1, RegistryAssumption DEF AppType
    <2>. QED
      BY <1>2, <2>1, <2>2, RenamedLeveled, SetNameRestores DEF Good
  <1>4. ASSUME NEW n \in AliasesGiven
        PROVE  Leveled(AddAlias(r, a, n).reg)
    <2>1. PICK app : app = [r.app[a] EXCEPT !.aliases = Append(r.app[a].aliases, n)]
      OBVIOUS
    <2>2. n \in Names /\ app \in AppType /\ app.disabled = r.app[a].disabled
      <3>1. n \in Names /\ Append(r.app[a].aliases, n) \in Seq(Names)
        BY <1>1, RegistryAssumption, AliasesType
      <3>. QED
        BY <1>1, <2>1, <3>1 DEF AppType
    <2>3. AddAlias(r, a, n) = Renamed(r, a, app, LevelOf(r, a))
      BY <2>1, <2>2, AddAliasRestores DEF Good
    <2>. QED
      BY <1>2, <2>2, <2>3, RenamedLeveled
  <1>5. ASSUME NEW app \in AppType, app.disabled = r.app[a].disabled, NEW again \in BOOLEAN,
               ~again => Calmer(app, r.app[a])
        PROVE  Leveled(Renamed(r, a, app, IF again THEN OwnLevel(r, a) ELSE Nobody).reg)
    <2>1. CASE again
      <3>1. PICK base : base = OwnLevel(r, a)
        OBVIOUS
      <3>2. Leveled(Renamed(r, a, app, base).reg)
        BY <1>2, <1>5, <3>1, RenamedLeveled
      <3>. QED
        BY <2>1, <3>1, <3>2
    <2>2. CASE ~again
      <3>1. Leveled([r EXCEPT !.app[a] = app])
        BY <1>5, <2>2, CalmedAtLeveled
      <3>. QED
        BY <2>2, <3>1 DEF Renamed, Returns
    <2>. QED
      BY <2>1, <2>2
  <1>6. ASSUME NEW v \in BOOLEAN
        PROVE  Leveled(IgnoreCase(r, a, v).reg)
    <2>1. PICK app : app = [r.app[a] EXCEPT !.ignoreCase = v]
      OBVIOUS
    <2>2. PICK again : again = (v /\ ~r.app[a].ignoreCase)
      OBVIOUS
    <2>3. /\ app \in AppType /\ app.disabled = r.app[a].disabled /\ again \in BOOLEAN
          /\ ~again => Calmer(app, r.app[a])
      BY <1>1, <2>1, <2>2 DEF AppType, Calmer
    <2>4. IgnoreCase(r, a, v) = Renamed(r, a, app, IF again THEN OwnLevel(r, a) ELSE Nobody)
      BY <2>1, <2>2, IgnoreCaseRestores DEF Good
    <2>. QED
      BY <1>5, <2>3, <2>4
  <1>7. ASSUME NEW v \in BOOLEAN
        PROVE  Leveled(IgnoreUnderscore(r, a, v).reg)
    <2>1. PICK app : app = [r.app[a] EXCEPT !.ignoreUnderscore = v]
      OBVIOUS
    <2>2. PICK again : again = (v /\ ~r.app[a].ignoreUnderscore)
      OBVIOUS
    <2>3. /\ app \in AppType /\ app.disabled = r.app[a].disabled /\ again \in BOOLEAN
          /\ ~again => Calmer(app, r.app[a])
      BY <1>1, <2>1, <2>2 DEF AppType, Calmer
    <2>4. IgnoreUnderscore(r, a, v)
            = Renamed(r, a, app, IF again THEN OwnLevel(r, a) ELSE Nobody)
      BY <2>1, <2>2, IgnoreUnderscoreRestores DEF Good
    <2>. QED
      BY <1>5, <2>3, <2>4
  <1>. QED
    BY <1>3, <1>4, <1>6, <1>7

LEMMA ByDefaultLeveled ==
    ASSUME NEW r, Good(r), Rooted(r), Leveled(r), NEW a \in Apps,
           NEW mode \in {"enabled", "disabled"}, NEW v \in BOOLEAN
    PROVE  Leveled(ByDefault(r, a, mode, v).reg)
  <1>1. r \in RegistryType /\ r.app[a] \in AppType
    BY DEF Good, RegistryType
  <1>2. PICK t : t = IF v THEN mode
                     ELSE IF r.app[a].startup = mode THEN "stable" ELSE r.app[a].startup
    OBVIOUS
  <1>3. PICK app : app = [r.app[a] EXCEPT !.startup = t]
    OBVIOUS
  <1>4. app \in AppType /\ Calmer(app, r.app[a]) /\ app.disabled = r.app[a].disabled
    BY <1>1, <1>2, <1>3 DEF AppType, Startups, Calmer
  <1>5. ByDefault(r, a, mode, v) = Returns([r EXCEPT !.app[a] = [r.app[a] EXCEPT !.startup = t]])
    BY <1>1, <1>2 DEF ByDefault, RegistryType, AppType
  <1>6. Leveled([r EXCEPT !.app[a] = app])
    BY <1>4, CalmedAtLeveled
  <1>7. ByDefault(r, a, mode, v).reg = [r EXCEPT !.app[a] = app]
    BY <1>3, <1>5 DEF Returns
  <1>. QED
    BY <1>6, <1>7

LEMMA SwitchLeveled ==
    ASSUME NEW r, Good(r), Rooted(r), Leveled(r), NEW a \in Apps, NEW v \in BOOLEAN
    PROVE  Leveled(Disabled(r, a, v).reg) /\ Leveled(Trigger(r, a, v).reg)
  <1>1. r \in RegistryType /\ r.app[a] \in AppType
    BY DEF Good, RegistryType
  <1>2. Leveled(Disabled(r, a, v).reg)
    <2>1. PICK s : s = [r EXCEPT !.app[a].disabled = v, !.switched = @ \/ v]
      OBVIOUS
    <2>2. /\ s.parent = r.parent /\ s.switched = (r.switched \/ v)
          /\ s.app = [r.app EXCEPT ![a] = [r.app[a] EXCEPT !.disabled = v]]
      BY <1>1, <2>1 DEF RegistryType
    <2>3. \A x \in Apps : Calmer(s.app[x], r.app[x]) /\ (x # a => s.app[x] = r.app[x])
      BY <1>1, <2>2 DEF RegistryType, AppType, Calmer
    <2>4. s.app[a].disabled = v
      BY <1>1, <2>2 DEF RegistryType, AppType
    <2>5. ~s.switched => ~r.switched /\ ~v
      BY <1>1, <2>2 DEF RegistryType
    <2>6. ~s.switched /\ Enabled(r) => Enabled(s)
      BY <2>3, <2>4, <2>5 DEF Enabled
    <2>7. Disabled(r, a, v).reg = s
      BY <2>1 DEF Disabled, Returns
    <2>8. Good(s)
      BY <2>7, SwitchGood, OutcomeGood
    <2>. QED
      BY <2>2, <2>3, <2>5, <2>6, <2>7, <2>8, CalmedLeveled
  <1>3. PICK mode \in {"enabled", "disabled"}, other \in {"enabled", "disabled"} :
            Trigger(r, a, v) = ByDefault(ByDefault(r, a, other, FALSE).reg, a, mode, TRUE)
    BY DEF Trigger
  <1>4. PICK once : once = ByDefault(r, a, other, FALSE).reg
    OBVIOUS
  <1>5. Good(once) /\ Leveled(once)
    BY <1>4, SwitchGood, OutcomeGood, ByDefaultLeveled
  <1>6. Rooted(once)
    <2>1. SameBonds(once, r)
      BY <1>1, <1>4, ByDefaultBonds
    <2>. QED
      BY <2>1 DEF SameBonds, Rooted
  <1>7. Leveled(ByDefault(once, a, mode, TRUE).reg)
    BY <1>5, <1>6, ByDefaultLeveled
  <1>. QED
    BY <1>2, <1>3, <1>4, <1>7

LEMMA ConfiguredLeveled ==
    ASSUME NEW r, Good(r), Leveled(r)
    PROVE  Leveled(Configured(r))
  <1>. DEFINE off(a) == IF r.app[a].startup = "stable" THEN r.app[a].disabled
                        ELSE r.app[a].startup = "disabled"
  <1>1. PICK s : s = Configured(r)
    OBVIOUS
  <1>2. /\ s.parent = r.parent
        /\ s.switched = (r.switched \/ \E a \in Apps : Lives(r, a) /\ off(a))
        /\ s.app = [a \in Apps |->
                        IF ~Lives(r, a) THEN r.app[a]
                        ELSE [r.app[a] EXCEPT !.disabled = off(a),
                                !.fallthrough = @ /\ (a = Root \/ ~Nameless(r, a))]]
    BY <1>1 DEF Configured, Good, RegistryType
  <1>3. ASSUME NEW x \in Apps
        PROVE  /\ Calmer(s.app[x], r.app[x])
               /\ s.app[x].disabled = IF Lives(r, x) THEN off(x) ELSE r.app[x].disabled
    <2>1. r.app[x] \in AppType
      BY DEF Good, RegistryType
    <2>2. PICK d, w : d = off(x) /\ w = (r.app[x].fallthrough /\ (x = Root \/ ~Nameless(r, x)))
      OBVIOUS
    <2>. HIDE DEF off
    <2>3. s.app[x] = IF ~Lives(r, x) THEN r.app[x]
                     ELSE [r.app[x] EXCEPT !.disabled = d, !.fallthrough = w]
      BY <1>2, <2>2
    <2>4. CASE Lives(r, x)
      <3>1. s.app[x] = [r.app[x] EXCEPT !.disabled = d, !.fallthrough = w]
        BY <2>3, <2>4
      <3>2. /\ s.app[x].disabled = d /\ s.app[x].name = r.app[x].name
            /\ s.app[x].aliases = r.app[x].aliases
            /\ s.app[x].ignoreCase = r.app[x].ignoreCase
            /\ s.app[x].ignoreUnderscore = r.app[x].ignoreUnderscore
        BY <2>1, <3>1 DEF AppType
      <3>. QED
        BY <2>2, <2>4, <3>2 DEF Calmer
    <2>5. CASE ~Lives(r, x)
      BY <2>3, <2>5 DEF Calmer
    <2>. QED
      BY <2>4, <2>5
  <1>4. Good(s)
    BY <1>1, ConfiguredGood
  <1>5. ~s.switched => ~r.switched
    BY <1>2
  <1>6. ~s.switched /\ Enabled(r) => Enabled(s)
    <2>. HIDE DEF off
    <2>. QED
      BY <1>2, <1>3 DEF Enabled
  <1>. QED
    BY <1>1, <1>2, <1>3, <1>4, <1>5, <1>6, CalmedLeveled

-----------------------------------------------------------------------------
(* The calls on the tree keep the levels.                                  *)

\* An App comes to p, unless it is refused there.
LEMMA AttachedLeveled ==
    ASSUME NEW r, Good(r), Rooted(r), Leveled(r), NEW lost, Leveled(lost),
           NEW s, Good(s), Rooted(s), s.switched = r.switched, Enabled(r) => Enabled(s),
           NEW a \in Apps, SameBut(s, r, a), NEW p \in Apps, s.parent[a] = p
    PROVE  Leveled(Attached(lost, s, a, p).reg)
  <1>1. PICK base : base = IF Nameless(s, p) /\ s.parent[p] # Nobody
                           THEN FallthroughParent(s, p) ELSE p
    OBVIOUS
  <1>2. base = TopLevel(s, s.parent[a])
    BY <1>1, TopLevelIs DEF FallthroughParent, Open
  <1>3. PICK off : off = [s EXCEPT !.parent[a] = Nobody]
    OBVIOUS
  <1>4. /\ off \in RegistryType /\ off.app = s.app
        /\ off.parent = [s.parent EXCEPT ![a] = Nobody]
        /\ off.apps = s.apps /\ off.options = s.options /\ off.home = s.home
        /\ off.owner = s.owner /\ off.opt = s.opt /\ off.pointer = s.pointer
    BY <1>3 DEF Good, RegistryType
  <1>5. Good(off)
    BY <1>4, KeptGood DEF Good
  <1>6. Rooted(off)
    <2>1. s.parent \in [Apps -> Apps \cup {Nobody}]
      BY DEF Good, RegistryType
    <2>2. \A x \in Apps : off.parent[x] \in {s.parent[x], Nobody}
      BY <1>4, <2>1
    <2>. QED
      BY <1>4, <2>2, FewerRooted
  <1>7. \/ Attached(lost, s, a, p).reg = lost
        \/ ~Taken(off, a, base) /\ Attached(lost, s, a, p).reg = s
    BY <1>1, <1>3 DEF Attached, Throws, Returns
  <1>8. ASSUME ~Taken(off, a, base), ~s.switched
        PROVE  Enabled(s) /\ Apart(s)
    <2>1. Enabled(r) /\ Apart(r) /\ Enabled(s)
      BY <1>8 DEF Leveled
    <2>2. s.parent[a] # Nobody
      BY BoundsType
    <2>. QED
      BY <1>2, <1>4, <1>5, <1>6, <1>8, <2>1, <2>2, ComparedApart
  <1>. QED
    BY <1>7, <1>8 DEF Leveled

\* The registry with a new App in it.
LEMMA ConstructedLeveled ==
    ASSUME NEW r, Good(r), Bonded(r), NEW p \in Apps, p <= r.apps,
           NEW n \in Names \cup {NoName}, NEW a, a = r.apps + 1, a \in Apps,
           r.options + Repeated(r, p, "help") + Repeated(r, p, "helpAll") <= MaxOptions
    PROVE  \/ Constructed(r, p, n) = Throws(r)
           \/ \E s : /\ Good(s) /\ Rooted(s) /\ s.switched = r.switched
                     /\ Enabled(r) => Enabled(s)
                     /\ SameBut(s, r, a) /\ s.parent[a] = p
                     /\ Constructed(r, p, n).reg = s
  <1>1. PICK s : s = Constructed(r, p, n).reg
    OBVIOUS
  <1>2. Good(s) /\ Rooted(s)
    BY <1>1, ConstructedGood, OutcomeGood, ConstructedBonded DEF Bonded
  <1>3. PICK app : app = [NewApp EXCEPT !.name = n]
    OBVIOUS
  <1>4. CASE /\ SameBonds(s, Grown(r, p, n))
             /\ s.switched = r.switched
             /\ s.app = [r.app EXCEPT ![a] = Inheriting(app, r.app[p])]
    <2>1. r.app \in [Apps -> AppType] /\ r.parent \in [Apps -> Apps \cup {Nobody}]
      BY DEF Good, RegistryType
    <2>2. s.parent = [r.parent EXCEPT ![a] = p]
      BY <1>4 DEF SameBonds, Grown, Good, RegistryType
    <2>3. app \in AppType /\ app.disabled = FALSE
      BY <1>3, AliasesType DEF NewApp, AppType, Startups
    <2>4. Inheriting(app, r.app[p]).disabled = FALSE
      BY <2>1, <2>3 DEF Inheriting, AppType
    <2>5. SameBut(s, r, a) /\ s.parent[a] = p
      BY <1>4, <2>1, <2>2 DEF SameBut
    <2>6. Enabled(r) => Enabled(s)
      BY <1>4, <2>1, <2>4 DEF Enabled
    <2>. QED
      BY <1>1, <1>2, <1>4, <2>5, <2>6
  <1>. QED
    BY <1>1, <1>3, <1>4, ConstructedGood

LEMMA AddSubcommandLeveled ==
    ASSUME NEW r, Good(r), Bonded(r), Leveled(r), NEW p \in Apps, p <= r.apps,
           NEW n \in Names \cup {NoName}, r.apps + 1 \in Apps,
           r.options + Repeated(r, p, "help") + Repeated(r, p, "helpAll") <= MaxOptions
    PROVE  Leveled(AddSubcommand(r, p, n).reg)
  <1>1. PICK a : a = r.apps + 1
    OBVIOUS
  <1>2. PICK new : new = Constructed(r, p, n)
    OBVIOUS
  <1>3. AddSubcommand(r, p, n) = IF new.thrown THEN new ELSE Attached(r, new.reg, a, p)
    BY <1>1, <1>2 DEF AddSubcommand, ThenAttached
  <1>4. Outcome(new)
    BY <1>2, ConstructedGood
  <1>5. CASE new = Throws(r)
    BY <1>3, <1>5 DEF Throws
  <1>6. CASE new # Throws(r)
    <2>1. PICK s : /\ Good(s) /\ Rooted(s) /\ s.switched = r.switched
                   /\ Enabled(r) => Enabled(s)
                   /\ SameBut(s, r, a) /\ s.parent[a] = p
                   /\ new.reg = s
      BY <1>1, <1>2, <1>6, ConstructedLeveled
    <2>2. Leveled(Attached(r, s, a, p).reg)
      BY <1>1, <2>1, AttachedLeveled DEF Bonded
    <2>3. ~new.thrown
      BY <1>2, <1>6 DEF Constructed, ThenInherit, Returns
    <2>. QED
      BY <1>3, <2>1, <2>2, <2>3
  <1>. QED
    BY <1>5, <1>6

LEMMA AddOptionGroupLeveled ==
    ASSUME NEW r, Good(r), Bonded(r), Leveled(r), NEW p \in Apps, p <= r.apps,
           NEW a, a = r.apps + 1, a \in Apps,
           r.options + Repeated(r, p, "help") + Repeated(r, p, "helpAll") <= MaxOptions
    PROVE  Leveled(AddOptionGroup(r, p).reg)
  <1>1. PICK new : new = Constructed(r, p, NoName)
    OBVIOUS
  <1>2. Outcome(new)
    BY <1>1, ConstructedGood
  <1>3. CASE new = Throws(r)
    <2>1. AddOptionGroup(r, p).reg = r
      BY <1>1, <1>3 DEF AddOptionGroup, ThenAttached, ThenGroup, Throws
    <2>. QED
      BY <2>1
  <1>4. CASE new # Throws(r)
    <2>1. PICK s : /\ Good(s) /\ Rooted(s) /\ s.switched = r.switched
                   /\ Enabled(r) => Enabled(s)
                   /\ SameBut(s, r, a) /\ s.parent[a] = p
                   /\ new.reg = s
      BY <1>1, <1>4, ConstructedLeveled
    <2>2. ~new.thrown
      BY <1>1, <1>4 DEF Constructed, ThenInherit, Returns
    <2>3. PICK app : app = [s.app[a] EXCEPT !.fallthrough = FALSE, !.group = TRUE]
      OBVIOUS
    <2>4. s \in RegistryType /\ s.app[a] \in AppType
      BY <2>1 DEF Good, RegistryType
    <2>5. app \in AppType /\ app.disabled = s.app[a].disabled
      BY <2>3, <2>4 DEF AppType
    <2>6. PICK plain : plain = [s EXCEPT !.app[a] = app]
      OBVIOUS
    <2>7. /\ Good(plain) /\ Rooted(plain) /\ plain.parent = s.parent
          /\ plain.switched = s.switched /\ plain.app = [s.app EXCEPT ![a] = app]
          /\ s.app \in [Apps -> AppType]
      <3>1. s.app \in [Apps -> AppType]
        BY <2>4 DEF RegistryType
      <3>. QED
        BY ONLY <2>1, <2>5, <2>6, <3>1, AppAtIs, a \in Apps
    <2>8. plain = [s EXCEPT !.app[a].fallthrough = FALSE, !.app[a].group = TRUE]
      BY <2>3, <2>4, <2>6 DEF RegistryType, AppType
    <2>9. PICK built : built = SetSpecial(plain, a, "help", NoOption).reg
      OBVIOUS
    <2>10. Good(built) /\ SameTree(built, plain)
      <3>1. NoOption \in OptionNames /\ "help" \in Special
        BY DEF NoOption, Declaration, OptionNames, Special
      <3>. QED
        BY <2>7, <2>9, <3>1, SetSpecialGood
    <2>11. AddOptionGroup(r, p) = Attached(r, built, a, p)
      BY <1>1, <2>1, <2>2, <2>8, <2>9
         DEF AddOptionGroup, ThenAttached, ThenGroup, SetSpecial, Returns
    <2>12. /\ built.parent = s.parent /\ built.app = [s.app EXCEPT ![a] = app]
           /\ built.switched = r.switched
      BY <2>1, <2>7, <2>10 DEF SameTree
    <2>13. Rooted(built)
      BY <2>7, <2>10 DEF SameTree, Rooted
    <2>14. SameBut(built, r, a) /\ built.parent[a] = p
      BY <2>1, <2>7, <2>12 DEF SameBut
    <2>15. Enabled(r) => Enabled(built)
      BY <2>1, <2>5, <2>7, <2>12 DEF Enabled
    <2>. QED
      BY <2>10, <2>11, <2>12, <2>13, <2>14, <2>15, AttachedLeveled DEF Bonded
  <1>. QED
    BY <1>3, <1>4

\* What is under a removed App goes with it; no way up from elsewhere comes
\* by it.
LEMMA PrunedLeveled ==
    ASSUME NEW r, Good(r), Leveled(r), NEW S \in SUBSET Apps,
           \A x \in S : Subcommands(r, x) \subseteq S,
           NEW s, Good(s), s.app = r.app, s.switched = r.switched,
           \A x \in Apps : s.parent[x] = IF x \in S THEN Nobody ELSE r.parent[x]
    PROVE  Leveled(s)
  <1>1. ASSUME NEW u \in Apps \ S
        PROVE  Passed(s, u) = Passed(r, u) /\ Passed(r, u) \cap S = {}
    <2>1. \A x \in Apps \ S : r.parent[x] \notin S
      BY DEF Subcommands
    <2>2. \A x \in Apps : r.parent[x] \in Apps \cup {Nobody}
      BY DEF Good, RegistryType
    <2>3. Upward(r, u, Apps \ S)
      BY <2>1, <2>2 DEF Upward, Open
    <2>4. Passed(r, u) \subseteq Apps \ S
      BY <2>3, PassedIs
    <2>5. \A x \in Apps \ S : (Open(s, x) <=> Open(r, x)) /\ s.parent[x] = r.parent[x]
      BY DEF Open, Nameless
    <2>6. Upward(s, u, Passed(r, u))
      BY <2>4, <2>5, PassedIs DEF Upward
    <2>7. Passed(s, u) \subseteq Passed(r, u)
      BY <2>4, <2>6, PassedIs
    <2>8. Upward(r, u, Passed(s, u))
      BY <2>4, <2>5, <2>7, PassedIs DEF Upward
    <2>9. Passed(s, u) \in SUBSET Apps
      BY PassedIs
    <2>10. Passed(r, u) \subseteq Passed(s, u)
      BY <2>8, <2>9, PassedIs
    <2>. QED
      BY <2>4, <2>7, <2>10
  <1>2. \A u \in S : Passed(s, u) = {}
    BY PassedIs
  <1>3. \A x \in Apps \ S : Open(s, x) <=> Open(r, x)
    BY DEF Open, Nameless
  <1>4. Enabled(r) => Enabled(s)
    BY DEF Enabled
  <1>5. ASSUME Apart(r), NEW u \in Apps, NEW v \in Apps, u # v, Meet(s, u, v),
               SameName(s.app[u], s.app[v])
        PROVE  Within(s, u, v) \/ Within(s, v, u)
    <2>1. u \notin S /\ v \notin S
      BY <1>2, <1>5 DEF Meet
    <2>2. \A x \in Passed(r, u) : x \in Apps \ S
      BY <1>1, <2>1, PassedIs
    <2>3. Meet(r, u, v)
      BY <1>1, <1>3, <1>5, <2>1, <2>2 DEF Meet
    <2>4. Within(r, u, v) \/ Within(r, v, u)
      BY <1>5, <2>3 DEF Apart
    <2>. QED
      BY <1>1, <1>3, <2>1, <2>4 DEF Within
  <1>6. Apart(r) => Apart(s)
    BY <1>5 DEF Apart
  <1>. QED
    BY <1>4, <1>6 DEF Leveled

\* The App taken out, with all that is under it destroyed.
LEMMA LostLeveled ==
    ASSUME NEW r, Good(r), Bonded(r), Leveled(r), NEW a \in Apps
    PROVE  Leveled(Destroyed(TakenOut(r, a), Under(r, a)))
  <1>1. PICK out : out = TakenOut(r, a)
    OBVIOUS
  <1>2. PICK s : s = Destroyed(out, Under(r, a))
    OBVIOUS
  <1>3. Good(out) /\ Good(s)
    BY <1>1, <1>2, TakenOutGood, DestroyedGood
  <1>4. /\ out.app = r.app /\ out.switched = r.switched
        /\ out.parent = [r.parent EXCEPT ![a] = Nobody]
    BY <1>1 DEF TakenOut, Good, RegistryType
  <1>5. /\ s.app = out.app /\ s.switched = out.switched
        /\ s.parent = [x \in Apps |-> IF x \in Under(r, a) THEN Nobody ELSE out.parent[x]]
    BY <1>2, <1>3 DEF Destroyed, Good, RegistryType
  <1>6. /\ Under(r, a) \in SUBSET Apps /\ a \in Under(r, a)
        /\ \A x \in Under(r, a) : Subcommands(r, x) \subseteq Under(r, a)
    BY UnderIs DEF Bonded
  <1>7. r.parent \in [Apps -> Apps \cup {Nobody}]
    BY DEF Good, RegistryType
  <1>8. \A x \in Apps : s.parent[x] = IF x \in Under(r, a) THEN Nobody ELSE r.parent[x]
    BY <1>4, <1>5, <1>6, <1>7
  <1>9. PICK S \in SUBSET Apps : S = Under(r, a)
    BY <1>6
  <1>10. s.app = r.app /\ s.switched = r.switched
    BY <1>4, <1>5
  <1>11. /\ \A x \in S : Subcommands(r, x) \subseteq S
         /\ \A x \in Apps : s.parent[x] = IF x \in S THEN Nobody ELSE r.parent[x]
    BY <1>6, <1>8, <1>9
  <1>12. Leveled(s)
    BY <1>3, <1>10, <1>11, PrunedLeveled
  <1>. QED
    BY <1>1, <1>2, <1>12

LEMMA MoveSubcommandLeveled ==
    ASSUME NEW r, Good(r), Bonded(r), Leveled(r), NEW a \in Apps, NEW g \in Apps, a # Root,
           Lives(r, a), Lives(r, g), g <= r.apps, g \notin Under(r, a)
    PROVE  Leveled(MoveSubcommand(r, a, g).reg)
  <1>1. PICK out : out = TakenOut(r, a)
    OBVIOUS
  <1>2. /\ Good(out) /\ out.apps = r.apps /\ out.app = r.app /\ out.switched = r.switched
        /\ out.parent = [r.parent EXCEPT ![a] = Nobody]
    <2>1. Good(out) /\ out.apps = r.apps
      BY <1>1, TakenOutGood
    <2>2. /\ out.app = r.app /\ out.switched = r.switched
          /\ out.parent = [r.parent EXCEPT ![a] = Nobody]
      BY <1>1 DEF TakenOut, Good, RegistryType
    <2>. QED
      BY <2>1, <2>2
  <1>3. PICK n : n = LastSeat(out, g)
    OBVIOUS
  <1>4. PICK s : s = [out EXCEPT !.parent[a] = g, !.seat[a] = n]
    OBVIOUS
  <1>5. r.parent \in [Apps -> Apps \cup {Nobody}] /\ out \in RegistryType /\ n \in Nat
    BY <1>2, <1>3, CountsType DEF Good, RegistryType
  <1>6. /\ s \in RegistryType
        /\ s.apps = r.apps /\ s.app = r.app /\ s.switched = r.switched
        /\ s.parent = [r.parent EXCEPT ![a] = g]
        /\ s.options = out.options /\ s.home = out.home
        /\ s.owner = out.owner /\ s.opt = out.opt /\ s.pointer = out.pointer
    <2>1. s \in RegistryType
      BY <1>4, <1>5, SeatedType
    <2>2. /\ s.apps = out.apps /\ s.app = out.app /\ s.switched = out.switched
          /\ s.parent = [out.parent EXCEPT ![a] = g]
          /\ s.options = out.options /\ s.home = out.home
          /\ s.owner = out.owner /\ s.opt = out.opt /\ s.pointer = out.pointer
      BY <1>4, <1>5 DEF RegistryType
    <2>3. [out.parent EXCEPT ![a] = g] = [r.parent EXCEPT ![a] = g]
      BY <1>2, <1>5
    <2>. QED
      BY <1>2, <2>1, <2>2, <2>3
  <1>7. Good(s)
    BY <1>2, <1>6, KeptGood DEF Good
  <1>8. Rooted(s)
    BY <1>6, MovedRooted DEF Bonded
  <1>9. SameBut(s, r, a) /\ s.parent[a] = g
    BY <1>5, <1>6 DEF SameBut
  <1>10. Enabled(r) => Enabled(s)
    BY <1>6 DEF Enabled
  <1>11. Leveled(Destroyed(out, Under(r, a)))
    BY <1>1, LostLeveled
  <1>12. MoveSubcommand(r, a, g) = Attached(Destroyed(out, Under(r, a)), s, a, g)
    BY <1>1, <1>3, <1>4 DEF MoveSubcommand
  <1>13. PICK lost : lost = Destroyed(out, Under(r, a))
    OBVIOUS
  <1>14. Leveled(Attached(lost, s, a, g).reg)
    BY <1>6, <1>7, <1>8, <1>9, <1>10, <1>11, <1>13, AttachedLeveled DEF Bonded
  <1>. QED
    BY <1>12, <1>13, <1>14

-----------------------------------------------------------------------------
(* Every step keeps the levels.                                            *)

LEMMA CallingLeveled ==
    ASSUME NEW op, NEW family, NEW result, Calling(op, family, result), Leveled(result.reg)
    PROVE  Leveled(reg')
  BY DEF Calling

LEMMA SettingLeveled ==
    ASSUME NEW op, NEW family, NEW result, Setting(op, family, result),
           Outcome(result), Leveled(result.reg)
    PROVE  Leveled(reg')
  <1>1. PICK s : Good(s) /\ result \in {Returns(s), Throws(s)}
    BY DEF Outcome
  <1>2. s \in RegistryType /\ result.reg = s
    BY <1>1 DEF Good, Returns, Throws
  <1>3. CASE result.thrown
    BY <1>3 DEF Setting, Calling
  <1>4. CASE ~result.thrown
    <2>1. PICK n \in Nat : n = s.changes + 1
      BY <1>2 DEF RegistryType
    <2>2. PICK t : t = [s EXCEPT !.changes = n]
      OBVIOUS
    <2>3. reg' = t
      BY <1>1, <1>2, <1>4, <2>1, <2>2 DEF Setting, Calling, Returns, Throws
    <2>4. Good(t)
      BY <1>1, <2>2, CountedGood
    <2>5. t.app = s.app /\ t.parent = s.parent /\ t.switched = s.switched
      BY <1>2, <2>2 DEF RegistryType
    <2>6. Leveled(t)
      BY <1>1, <1>2, <2>4, <2>5, LeveledKept
    <2>. QED
      BY <2>3, <2>6
  <1>. QED
    BY <1>3, <1>4

LEMMA TreeLeveled ==
    ASSUME NEW r, Good(r), Leveled(r), NEW s, Good(s), SameTree(s, r)
    PROVE  Leveled(s)
  BY LeveledKept DEF SameTree

LEMMA MoveOptionLeveled ==
    ASSUME NEW r, Good(r), Leveled(r), NEW o \in Options, NEW g \in Apps,
           r.home[o] # Nobody
    PROVE  Leveled(MoveOption(r, o, g).reg)
  <1>1. PICK s : s = MoveOption(r, o, g).reg
    OBVIOUS
  <1>2. Good(s)
    BY <1>1, MoveOptionGood
  <1>3. s.app = r.app /\ s.parent = r.parent /\ s.switched = r.switched
    BY <1>1 DEF MoveOption, Throws, Returns, Good, RegistryType
  <1>. QED
    BY <1>1, <1>2, <1>3, LeveledKept

LEMMA RetireOptionLeveled ==
    ASSUME NEW r, Good(r), Leveled(r), NEW a \in Apps, NEW o \in Options, r.options < MaxOptions
    PROVE  Leveled(RetireOption(r, a, o).reg)
  <1>1. PICK removed : removed = RemoveOption(r, a, o).reg
    OBVIOUS
  <1>2. Good(removed) /\ SameTree(removed, r) /\ removed.options < MaxOptions
    BY <1>1, RemoveOptionGood
  <1>3. AllNames(r.opt[o]) \in OptionNames
    BY DEF Good, RegistryType, AllNames, OptionNames, Declaration
  <1>4. PICK s : s = AddOption(removed, a, AllNames(r.opt[o])).reg
    OBVIOUS
  <1>5. Good(s) /\ SameTree(s, removed)
    BY <1>2, <1>3, <1>4, AddOptionGood
  <1>6. Leveled(removed)
    BY <1>2, TreeLeveled
  <1>7. Leveled(s)
    BY <1>2, <1>5, <1>6, TreeLeveled
  <1>. QED
    BY <1>1, <1>4, <1>7 DEF RetireOption

\* Links are on no level.
LEMMA LinksLeveled ==
    ASSUME NEW r, Good(r), Leveled(r), NEW result, Outcome(result),
           result.reg.app = r.app, result.reg.parent = r.parent,
           result.reg.switched = r.switched
    PROVE  Leveled(result.reg)
  BY OutcomeGood, LeveledKept

LEMMA LinkOptionsLeveled ==
    ASSUME NEW r, Good(r), Leveled(r), NEW o \in Options, NEW p \in Options
    PROVE  /\ Leveled(Needs(r, o, p).reg) /\ Leveled(Excludes(r, o, p).reg)
           /\ Leveled(RemoveNeeds(r, o, p).reg) /\ Leveled(RemoveExcludes(r, o, p).reg)
  <1>1. /\ Outcome(Needs(r, o, p)) /\ Outcome(Excludes(r, o, p))
        /\ Outcome(RemoveNeeds(r, o, p)) /\ Outcome(RemoveExcludes(r, o, p))
    BY LinkOptionsGood
  <1>2. \A result \in {Needs(r, o, p), Excludes(r, o, p),
                       RemoveNeeds(r, o, p), RemoveExcludes(r, o, p)} :
            /\ result.reg.app = r.app /\ result.reg.parent = r.parent
            /\ result.reg.switched = r.switched
    BY DEF Needs, Excludes, RemoveNeeds, RemoveExcludes, Throws, Returns, Good, RegistryType
  <1>. QED
    BY <1>1, <1>2, LinksLeveled

LEMMA LinkAppsLeveled ==
    ASSUME NEW r, Good(r), Leveled(r), NEW a \in Apps, NEW b \in Apps
    PROVE  /\ Leveled(AppNeeds(r, a, b).reg) /\ Leveled(AppExcludes(r, a, b).reg)
           /\ Leveled(AppRemoveNeeds(r, a, b).reg) /\ Leveled(AppRemoveExcludes(r, a, b).reg)
  <1>1. /\ Outcome(AppNeeds(r, a, b)) /\ Outcome(AppExcludes(r, a, b))
        /\ Outcome(AppRemoveNeeds(r, a, b)) /\ Outcome(AppRemoveExcludes(r, a, b))
    BY LinkAppsGood
  <1>2. \A result \in {AppNeeds(r, a, b), AppExcludes(r, a, b),
                       AppRemoveNeeds(r, a, b), AppRemoveExcludes(r, a, b)} :
            /\ result.reg.app = r.app /\ result.reg.parent = r.parent
            /\ result.reg.switched = r.switched
    BY DEF AppNeeds, AppExcludes, AppRemoveNeeds, AppRemoveExcludes, Throws, Returns,
           Good, RegistryType
  <1>. QED
    BY <1>1, <1>2, LinksLeveled

LEMMA LinkAppToOptionLeveled ==
    ASSUME NEW r, Good(r), Leveled(r), NEW a \in Apps, NEW o \in Options
    PROVE  /\ Leveled(AppNeedsOption(r, a, o).reg) /\ Leveled(AppExcludesOption(r, a, o).reg)
           /\ Leveled(AppRemoveOptionLinks(r, a, o).reg)
  <1>1. /\ Outcome(AppNeedsOption(r, a, o)) /\ Outcome(AppExcludesOption(r, a, o))
        /\ Outcome(AppRemoveOptionLinks(r, a, o))
    BY LinkAppToOptionGood
  <1>2. \A result \in {AppNeedsOption(r, a, o), AppExcludesOption(r, a, o),
                       AppRemoveOptionLinks(r, a, o)} :
            /\ result.reg.app = r.app /\ result.reg.parent = r.parent
            /\ result.reg.switched = r.switched
    <2>1. /\ AppNeedsOption(r, a, o).reg.app = r.app
          /\ AppNeedsOption(r, a, o).reg.parent = r.parent
          /\ AppNeedsOption(r, a, o).reg.switched = r.switched
      BY DEF AppNeedsOption, Returns, Good, RegistryType
    <2>2. /\ AppExcludesOption(r, a, o).reg.app = r.app
          /\ AppExcludesOption(r, a, o).reg.parent = r.parent
          /\ AppExcludesOption(r, a, o).reg.switched = r.switched
      BY DEF AppExcludesOption, Returns, Good, RegistryType
    <2>3. /\ AppRemoveOptionLinks(r, a, o).reg.app = r.app
          /\ AppRemoveOptionLinks(r, a, o).reg.parent = r.parent
          /\ AppRemoveOptionLinks(r, a, o).reg.switched = r.switched
      BY DEF AppRemoveOptionLinks, Returns, Good, RegistryType
    <2>. QED
      BY <2>1, <2>2, <2>3
  <1>. QED
    BY <1>1, <1>2, LinksLeveled

LEMMA InitLeveled == Init => Leveled(reg)
  <1>. SUFFICES ASSUME Init PROVE Leveled(reg)
    OBVIOUS
  <1>1. Good(reg) /\ \A a \in Apps : reg.parent[a] = Nobody
    BY InitRegistry DEF Init, RegistryInv
  <1>2. \A a \in Apps : Passed(reg, a) = {}
    BY <1>1, PassedIs
  <1>3. Enabled(reg)
    BY DEF Init, Enabled, NewApp
  <1>. QED
    BY <1>2, <1>3 DEF Leveled, Apart, Meet

LEMMA StepLeveled == RegistryInv /\ Bonded(reg) /\ Leveled(reg) /\ [Next]_vars => Leveled(reg')
  <1>. SUFFICES ASSUME RegistryInv, Bonded(reg), Leveled(reg), [Next]_vars PROVE Leveled(reg')
    OBVIOUS
  <1>1. /\ Good(reg) /\ reg \in RegistryType /\ Rooted(reg) /\ Existing \subseteq Apps /\ Declared \subseteq Options
        /\ \A a \in Existing : a <= reg.apps /\ Lives(reg, a)
        /\ \A o \in Declared : reg.home[o] # Nobody
    <2>1. /\ reg.apps \in 1..MaxApps /\ reg.options \in Nat /\ reg.options <= MaxOptions
          /\ MaxApps \in Nat /\ MaxOptions \in Nat
      BY BoundsType DEF RegistryInv, Good, RegistryType, Apps
    <2>2. Existing \subseteq Apps /\ \A a \in Existing : a <= reg.apps /\ Lives(reg, a)
      BY <2>1 DEF Existing, Apps
    <2>3. Declared \subseteq Options
      BY <2>1 DEF Declared, Options
    <2>. QED
      BY <2>2, <2>3 DEF RegistryInv, Declared, Good, Bonded
  <1>2. CASE NameApp
    <2>1. PICK a \in Existing, n \in AppNamesGiven :
            Calling("app", "names", SetName(reg, a, n))
      BY <1>2 DEF NameApp
    <2>. QED
      BY <1>1, <2>1, NamingLeveled, CallingLeveled
  <1>3. CASE AliasApp
    <2>1. PICK a \in Existing :
            \/ \E n \in AliasesGiven : Setting("app", "aliases", AddAlias(reg, a, n))
            \/ Setting("app", "aliases", Returns([reg EXCEPT !.app[a].aliases = <<>>]))
      BY <1>3 DEF AliasApp
    <2>2. CASE \E n \in AliasesGiven : Setting("app", "aliases", AddAlias(reg, a, n))
      <3>1. PICK n \in AliasesGiven : Setting("app", "aliases", AddAlias(reg, a, n))
        BY <2>2
      <3>2. Outcome(AddAlias(reg, a, n)) /\ Leveled(AddAlias(reg, a, n).reg)
        BY <1>1, NamingGood, NamingLeveled
      <3>. QED
        BY <3>1, <3>2, SettingLeveled
    <2>3. CASE Setting("app", "aliases", Returns([reg EXCEPT !.app[a].aliases = <<>>]))
      <3>1. PICK app : app = [reg.app[a] EXCEPT !.aliases = <<>>]
        OBVIOUS
      <3>2. app \in AppType
        <4>1. reg.app[a] \in AppType
          BY <1>1 DEF RegistryType
        <4>. QED
          BY <3>1, <4>1, AliasesType DEF AppType
      <3>3. PICK s : s = [reg EXCEPT !.app[a] = app]
        OBVIOUS
      <3>4. s = [reg EXCEPT !.app[a].aliases = <<>>]
        BY <3>1, <3>3
      <3>5. Outcome(Returns(s))
        BY <1>1, <3>2, <3>3, AppAtGood DEF Outcome
      <3>6. Leveled(s) /\ Returns(s).reg = s
        <4>1. Calmer(app, reg.app[a]) /\ app.disabled = reg.app[a].disabled
          BY <1>1, <3>1, AliasesType DEF Calmer, RegistryType, AppType
        <4>. QED
          BY <1>1, <3>2, <3>3, <4>1, CalmedAtLeveled DEF Returns
      <3>. QED
        BY <2>3, <3>4, <3>5, <3>6, SettingLeveled
    <2>. QED
      BY <2>1, <2>2, <2>3
  <1>4. CASE FoldApp
    <2>1. PICK a \in Existing, v \in BOOLEAN :
            \/ Setting("app", "folding", IgnoreCase(reg, a, v))
            \/ Setting("app", "folding", IgnoreUnderscore(reg, a, v))
      BY <1>4 DEF FoldApp
    <2>2. Outcome(IgnoreCase(reg, a, v)) /\ Outcome(IgnoreUnderscore(reg, a, v))
      BY <1>1, NamingGood
    <2>3. Leveled(IgnoreCase(reg, a, v).reg) /\ Leveled(IgnoreUnderscore(reg, a, v).reg)
      BY <1>1, NamingLeveled
    <2>. QED
      BY <2>1, <2>2, <2>3, SettingLeveled
  <1>5. CASE SwitchApp
    <2>1. PICK a \in Existing, v \in BOOLEAN :
            \/ Setting("app", "startup", Disabled(reg, a, v))
            \/ \E mode \in {"enabled", "disabled"} :
                   Setting("app", "startup", ByDefault(reg, a, mode, v))
            \/ Setting("app", "startup", Trigger(reg, a, v))
      BY <1>5 DEF SwitchApp
    <2>2. /\ Outcome(Disabled(reg, a, v)) /\ Outcome(Trigger(reg, a, v))
          /\ \A mode \in {"enabled", "disabled"} : Outcome(ByDefault(reg, a, mode, v))
      BY <1>1, SwitchGood
    <2>3. /\ Leveled(Disabled(reg, a, v).reg) /\ Leveled(Trigger(reg, a, v).reg)
          /\ \A mode \in {"enabled", "disabled"} : Leveled(ByDefault(reg, a, mode, v).reg)
      BY <1>1, SwitchLeveled, ByDefaultLeveled
    <2>. QED
      BY <2>1, <2>2, <2>3, SettingLeveled
  <1>6. CASE SetApp
    <2>1. PICK a \in Existing, new \in Settings :
            Setting("app", "settings",
                Returns([reg EXCEPT !.app[a] =
                    [@ EXCEPT !.fallthrough = new.fallthrough, !.prefix = new.prefix,
                              !.optCase = new.optCase, !.optUnderscore = new.optUnderscore]]))
      BY <1>6 DEF SetApp
    <2>2. PICK app : app = [reg.app[a] EXCEPT
                               !.fallthrough = new.fallthrough, !.prefix = new.prefix,
                               !.optCase = new.optCase, !.optUnderscore = new.optUnderscore]
      OBVIOUS
    <2>3. /\ new.fallthrough \in BOOLEAN /\ new.prefix \in BOOLEAN
          /\ new.optCase \in BOOLEAN /\ new.optUnderscore \in BOOLEAN
      BY RegistryAssumption
    <2>4. app \in AppType
      <3>1. reg.app[a] \in AppType
        BY <1>1 DEF RegistryType
      <3>. QED
        BY <2>2, <2>3, <3>1 DEF AppType
    <2>5. PICK s : s = [reg EXCEPT !.app[a] = app]
      OBVIOUS
    <2>6. Outcome(Returns(s))
      BY <1>1, <2>4, <2>5, AppAtGood DEF Outcome
    <2>7. Setting("app", "settings", Returns(s))
      BY <2>1, <2>2, <2>5
    <2>8. Leveled(s) /\ Returns(s).reg = s
      <3>1. Calmer(app, reg.app[a]) /\ app.disabled = reg.app[a].disabled
        BY <1>1, <2>2 DEF Calmer, RegistryType, AppType
      <3>. QED
        BY <1>1, <2>4, <2>5, <3>1, CalmedAtLeveled DEF Returns
    <2>. QED
      BY <2>6, <2>7, <2>8, SettingLeveled
  <1>7. CASE DeclareOption
    <2>1. PICK a \in Existing, names \in Declarations :
            /\ reg.options < MaxOptions
            /\ \/ Calling("declare", "options", AddOption(reg, a, names))
               \/ Calling("declare", "options", AddFlag(reg, a, names))
      BY <1>7 DEF DeclareOption
    <2>2. names \in OptionNames
      BY RegistryAssumption
    <2>3. /\ SameTree(AddOption(reg, a, names).reg, reg) /\ Good(AddOption(reg, a, names).reg)
          /\ SameTree(AddFlag(reg, a, names).reg, reg) /\ Good(AddFlag(reg, a, names).reg)
      BY <1>1, <2>1, <2>2, AddOptionGood, AddFlagGood
    <2>4. /\ Leveled(AddOption(reg, a, names).reg)
          /\ Leveled(AddFlag(reg, a, names).reg)
      BY <1>1, <2>3, TreeLeveled
    <2>. QED
      BY <2>1, <2>4, CallingLeveled
  <1>8. CASE NameOption
    <2>1. PICK o \in Declared, v \in BOOLEAN :
            \/ Calling("option", "renaming", OptionIgnoreCase(reg, o, v))
            \/ Setting("option", "folding", OptionIgnoreUnderscore(reg, o, v))
            \/ Setting("option", "folding", Returns([reg EXCEPT !.opt[o].configurable = v]))
            \/ \E n \in EnvironmentGiven :
                Setting("option", "folding", Returns([reg EXCEPT !.opt[o].env = n]))
      BY <1>8 DEF NameOption
    <2>2. /\ Leveled(OptionIgnoreCase(reg, o, v).reg)
          /\ Leveled(OptionIgnoreUnderscore(reg, o, v).reg)
      BY <1>1, OptionFoldingFrame, OptionFoldingGood, TreeLeveled
    <2>3. CASE Setting("option", "folding", OptionIgnoreUnderscore(reg, o, v))
      BY <1>1, <2>2, <2>3, FoldingOutcome, SettingLeveled
    <2>4. CASE Setting("option", "folding", Returns([reg EXCEPT !.opt[o].configurable = v]))
      <3>1. PICK s : s = [reg EXCEPT !.opt[o].configurable = v]
        OBVIOUS
      <3>2. Outcome(Returns(s))
        BY <1>1, <3>1, OptionFoldingGood DEF Outcome
      <3>3. SameTree(s, reg) /\ Returns(s).reg = s
        BY <1>1, <3>1 DEF SameTree, RegistryType, Returns
      <3>4. Leveled(s)
        BY <1>1, <3>1, <3>3, OptionFoldingGood, TreeLeveled
      <3>. QED
        BY <2>4, <3>1, <3>2, <3>3, <3>4, SettingLeveled
    <2>5. ASSUME NEW n \in EnvironmentGiven,
                 Setting("option", "folding", Returns([reg EXCEPT !.opt[o].env = n]))
          PROVE  Leveled(reg')
      <3>1. PICK s : s = [reg EXCEPT !.opt[o].env = n]
        OBVIOUS
      <3>2. Outcome(Returns(s))
        BY <1>1, <3>1, OptionFoldingGood DEF Outcome
      <3>3. SameTree(s, reg) /\ Returns(s).reg = s
        BY <1>1, <3>1 DEF SameTree, RegistryType, Returns
      <3>4. Leveled(s)
        BY <1>1, <3>1, <3>3, OptionFoldingGood, TreeLeveled
      <3>. QED
        BY <2>5, <3>1, <3>2, <3>3, <3>4, SettingLeveled
    <2>. QED
      BY <2>1, <2>2, <2>3, <2>4, <2>5, CallingLeveled
  <1>9. CASE DropOption
    <2>1. PICK o \in Declared, a \in Existing :
            Calling("option", "removal", RemoveOption(reg, a, o))
      BY <1>9 DEF DropOption
    <2>2. SameTree(RemoveOption(reg, a, o).reg, reg) /\ Good(RemoveOption(reg, a, o).reg)
      BY <1>1, RemoveOptionGood
    <2>3. Leveled(RemoveOption(reg, a, o).reg)
      BY <1>1, <2>2, TreeLeveled
    <2>. QED
      BY <2>1, <2>3, CallingLeveled
  <1>10. CASE PlaceOption
    <2>1. PICK o \in Declared, g \in Existing :
            Calling("option", "groups", MoveOption(reg, o, g))
      BY <1>10 DEF PlaceOption
    <2>. QED
      BY <1>1, <2>1, MoveOptionLeveled, CallingLeveled
  <1>11. CASE ReplaceOption
    <2>1. PICK o \in Declared, a \in Existing :
            /\ reg.options < MaxOptions
            /\ Calling("retire", "removal", RetireOption(reg, a, o))
      BY <1>11 DEF ReplaceOption
    <2>. QED
      BY <1>1, <2>1, RetireOptionLeveled, CallingLeveled
  <1>12. CASE SetFlag
    <2>1. PICK a \in Existing, s \in Special, names \in Declarations \cup {NoOption} :
            /\ reg.options < MaxOptions
            /\ Calling("special", "special", SetSpecial(reg, a, s, names))
      BY <1>12 DEF SetFlag
    <2>2. names \in OptionNames
      <3>1. NoOption \in OptionNames
        BY DEF NoOption, Declaration, OptionNames
      <3>. QED
        BY <3>1, RegistryAssumption
    <2>3. SameTree(SetSpecial(reg, a, s, names).reg, reg) /\ Good(SetSpecial(reg, a, s, names).reg)
      BY <1>1, <2>1, <2>2, SetSpecialGood
    <2>4. Leveled(SetSpecial(reg, a, s, names).reg)
      BY <1>1, <2>3, TreeLeveled
    <2>. QED
      BY <2>1, <2>4, CallingLeveled
  <1>13. CASE GrowTree
    <2>1. PICK p \in Existing :
            /\ reg.apps < MaxApps
            /\ reg.options + Repeated(reg, p, "help") + Repeated(reg, p, "helpAll") <= MaxOptions
            /\ \/ \E n \in AppNamesGiven : Calling("tree", "tree", AddSubcommand(reg, p, n))
               \/ Calling("tree", "groups", AddOptionGroup(reg, p))
      BY <1>13 DEF GrowTree
    <2>2. /\ p \in Apps /\ p <= reg.apps /\ reg.apps + 1 \in Apps
          /\ AppNamesGiven \subseteq Names \cup {NoName}
      BY <1>1, <2>1, RegistryAssumption, BoundsType DEF Good, Apps
    <2>3. \A n \in AppNamesGiven : Leveled(AddSubcommand(reg, p, n).reg)
      BY <1>1, <2>1, <2>2, AddSubcommandLeveled
    <2>4. Leveled(AddOptionGroup(reg, p).reg)
      BY <1>1, <2>1, <2>2, AddOptionGroupLeveled
    <2>. QED
      BY <2>1, <2>3, <2>4, CallingLeveled
  <1>14. CASE PruneTree
    <2>1. PICK a \in Existing \ {Root} : Calling("tree", "removal", RemoveSubcommand(reg, a))
      BY <1>14 DEF PruneTree
    <2>2. RemoveSubcommand(reg, a).reg = Destroyed(TakenOut(reg, a), Under(reg, a))
      BY DEF RemoveSubcommand, Returns
    <2>. QED
      BY <1>1, <2>1, <2>2, LostLeveled, CallingLeveled
  <1>15. CASE PlaceSubcommand
    <2>1. PICK a \in Existing \ {Root}, g \in Existing :
            /\ g \notin Under(reg, a)
            /\ Calling("move", "groups", MoveSubcommand(reg, a, g))
      BY <1>15 DEF PlaceSubcommand
    <2>. QED
      BY <1>1, <2>1, MoveSubcommandLeveled, CallingLeveled
  <1>16. CASE LinkOptions
    <2>1. PICK o \in Declared, p \in Declared :
            \/ Calling("link", "links", Needs(reg, o, p))
            \/ Calling("link", "links", Excludes(reg, o, p))
            \/ Calling("link", "links", RemoveNeeds(reg, o, p))
            \/ Calling("link", "links", RemoveExcludes(reg, o, p))
      BY <1>16 DEF LinkOptions
    <2>. QED
      BY <1>1, <2>1, LinkOptionsLeveled, CallingLeveled
  <1>17. CASE LinkApps
    <2>1. PICK a \in Existing, b \in Existing :
            \/ Calling("link", "links", AppNeeds(reg, a, b))
            \/ Calling("link", "links", AppExcludes(reg, a, b))
            \/ Calling("link", "links", AppRemoveNeeds(reg, a, b))
            \/ Calling("link", "links", AppRemoveExcludes(reg, a, b))
      BY <1>17 DEF LinkApps
    <2>. QED
      BY <1>1, <2>1, LinkAppsLeveled, CallingLeveled
  <1>18. CASE LinkAppToOption
    <2>1. PICK a \in Existing, o \in Declared :
            \/ Calling("link", "links", AppNeedsOption(reg, a, o))
            \/ Calling("link", "links", AppExcludesOption(reg, a, o))
            \/ Calling("link", "links", AppRemoveOptionLinks(reg, a, o))
      BY <1>18 DEF LinkAppToOption
    <2>. QED
      BY <1>1, <2>1, LinkAppToOptionLeveled, CallingLeveled
  <1>19. CASE BeginParse
    <2>1. Calling("parse", "startup", Returns(Configured(reg)))
      BY <1>19 DEF BeginParse
    <2>2. Returns(Configured(reg)).reg = Configured(reg)
      BY DEF Returns
    <2>. QED
      BY <1>1, <2>1, <2>2, ConfiguredLeveled, CallingLeveled
  <1>20. CASE UNCHANGED vars
    BY <1>20 DEF vars
  <1>. QED
    BY <1>2, <1>3, <1>4, <1>5, <1>6, <1>7, <1>8, <1>9, <1>10, <1>11, <1>12, <1>13,
       <1>14, <1>15, <1>16, <1>17, <1>18, <1>19, <1>20 DEF Next

\* Two Apps at one level never share a whole name, however they were renamed,
\* aliased, grouped and moved, as long as no App was ever disabled (App::name,
\* alias, ignore_case, add_subcommand).
THEOREM LevelsStayDistinct == Spec => []LevelNamesDistinct
  <1>. DEFINE Bound == Bonded(reg) /\ Leveled(reg)
  <1>1. Init => Bound
    BY InitBonded, InitLeveled
  <1>2. RegistryInv /\ Bound /\ [Next]_vars => Bound'
    BY StepBonded, StepLeveled
  <1>3. RegistryInv /\ Bound => LevelNamesDistinct
    <2>. SUFFICES ASSUME RegistryInv, Bonded(reg), Leveled(reg), ~reg.switched,
                         NEW a \in Existing,
                         NEW s \in Subcommands(reg, a), NEW t \in Subcommands(reg, a),
                         NEW u \in Level(reg, s), NEW v \in Level(reg, t),
                         u \notin Level(reg, v), v \notin Level(reg, u)
                  PROVE  ~SameName(reg.app[u], reg.app[v])
      BY DEF LevelNamesDistinct
    <2>1. Good(reg) /\ Rooted(reg) /\ Enabled(reg) /\ Apart(reg) /\ reg \in RegistryType
      BY DEF RegistryInv, Bonded, Leveled, Good
    <2>2. /\ a \in Apps /\ s \in Apps /\ t \in Apps
          /\ reg.parent[s] = a /\ reg.parent[t] = a /\ a # Nobody
      BY <2>1, BoundsType DEF Existing, Subcommands, Good, RegistryType, Apps, Nobody
    <2>3. \A c \in Apps : reg.parent[c] = a =>
              \A w \in Level(reg, c) : w \in Apps /\ a \in Passed(reg, w)
      <3>. SUFFICES ASSUME NEW c \in Apps, reg.parent[c] = a, NEW w \in Level(reg, c)
                    PROVE  w \in Apps /\ a \in Passed(reg, w)
        OBVIOUS
      <3>1. w \in Apps
        BY <2>1, LevelInApps
      <3>2. w = c \/ (Nameless(reg, c) /\ c \in Passed(reg, w))
        BY <2>1, <3>1, LevelIs
      <3>3. Upward(reg, w, Passed(reg, w))
        BY <2>1, <3>1, PassedIs
      <3>. QED
        BY <2>2, <3>1, <3>2, <3>3 DEF Upward, Open
    <2>4. u \in Apps /\ v \in Apps /\ a \in Passed(reg, u) /\ a \in Passed(reg, v)
      BY <2>2, <2>3
    <2>5. Meet(reg, u, v)
      <3>1. CASE ~Open(reg, a)
        BY <2>4, <3>1 DEF Meet
      <3>2. CASE Open(reg, a)
        <4>1. PICK b \in Passed(reg, a) : ~Open(reg, b)
          BY <2>1, <2>2, <3>2, PassedEnds DEF Open
        <4>2. b \in Passed(reg, u) /\ b \in Passed(reg, v)
          BY <2>1, <2>4, <3>2, <4>1, PassedAbove
        <4>. QED
          BY <4>1, <4>2 DEF Meet
      <3>. QED
        BY <3>1, <3>2
    <2>6. u # v /\ ~Within(reg, u, v) /\ ~Within(reg, v, u)
      BY <2>1, <2>4, LevelIs DEF Within, Open
    <2>. QED
      BY <2>1, <2>4, <2>5, <2>6 DEF Apart
  <1>. HIDE DEF Bound
  <1>. QED
    BY <1>1, <1>2, <1>3, RegistryKept, PTL DEF Spec

-----------------------------------------------------------------------------
(* What a call that throws leaves behind.                                  *)

\* What is spared together with these links, names and pointers.
LEMMA SparedFrame ==
    ASSUME NEW r, NEW s, NEW O,
           s.app = r.app, s.parent = r.parent,
           s.appNeeds = r.appNeeds, s.appExcludes = r.appExcludes,
           s.appNeedsOption = r.appNeedsOption, s.appExcludesOption = r.appExcludesOption,
           \A a \in Apps, x \in Special \ {"version"} :
              r.pointer[a][x] \notin O => s.pointer[a][x] = r.pointer[a][x],
           Nobody \notin O,
           \A o \in Options \ O : r.home[o] # Nobody => s.opt[o] = r.opt[o] /\ s.home[o] = r.home[o],
           \A o, p \in Options \ O :
              /\ <<o, p>> \in r.needs <=> <<o, p>> \in s.needs
              /\ <<o, p>> \in r.excludes <=> <<o, p>> \in s.excludes
    PROVE  Spared(r, s, {}, O)
  BY DEF Spared

LEMMA SparedSame ==
    ASSUME NEW r, NEW A, NEW O
    PROVE  Spared(r, r, A, O)
  BY DEF Spared

\* What two calls spare, where the second only costs what was not there before
\* the first one.
LEMMA SparedTwice ==
    ASSUME NEW r, NEW s, NEW t, NEW O, NEW P, Spared(r, s, {}, O), Spared(s, t, {}, P),
           \A o \in P : o \notin O => o \in Options /\ r.home[o] = Nobody,
           Nobody \notin O
    PROVE  Spared(r, t, {}, O)
  <1>. DEFINE apps == {a \in Apps : Lives(r, a)}
              options == {o \in Options : r.home[o] # Nobody} \ O
  <1>1. \A a \in apps : a \in Apps /\ Lives(s, a) /\ s.app[a] = r.app[a] /\ s.parent[a] = r.parent[a]
    BY DEF Spared, Lives
  <1>2. \A o \in options : /\ o \in Options /\ o \notin P /\ s.home[o] # Nobody
                           /\ s.opt[o] = r.opt[o] /\ s.home[o] = r.home[o]
    BY DEF Spared
  <1>3. \A a \in apps : t.app[a] = r.app[a] /\ t.parent[a] = r.parent[a]
    BY <1>1 DEF Spared
  <1>4. \A o \in options : t.opt[o] = r.opt[o] /\ t.home[o] = r.home[o]
    BY <1>2 DEF Spared
  <1>5. ASSUME NEW a \in apps, NEW x \in Special \ {"version"},
               r.pointer[a][x] \in options \cup {Nobody}
        PROVE  t.pointer[a][x] = r.pointer[a][x]
    <2>1. s.pointer[a][x] = r.pointer[a][x]
      BY <1>5 DEF Spared
    <2>2. s.pointer[a][x] \in ({o \in Options : s.home[o] # Nobody} \ P) \cup {Nobody}
      BY <1>2, <1>5, <2>1
    <2>. QED
      BY <1>1, <2>1, <2>2 DEF Spared
  <1>6. \A o, p \in options : /\ <<o, p>> \in r.needs <=> <<o, p>> \in t.needs
                              /\ <<o, p>> \in r.excludes <=> <<o, p>> \in t.excludes
    <2>1. \A o, p \in options : /\ <<o, p>> \in r.needs <=> <<o, p>> \in s.needs
                                /\ <<o, p>> \in r.excludes <=> <<o, p>> \in s.excludes
      BY DEF Spared
    <2>2. \A o, p \in {o \in Options : s.home[o] # Nobody} \ P :
              /\ <<o, p>> \in s.needs <=> <<o, p>> \in t.needs
              /\ <<o, p>> \in s.excludes <=> <<o, p>> \in t.excludes
      BY DEF Spared
    <2>. QED
      BY <1>2, <2>1, <2>2
  <1>7. \A a, b \in apps : /\ <<a, b>> \in r.appNeeds <=> <<a, b>> \in t.appNeeds
                           /\ <<a, b>> \in r.appExcludes <=> <<a, b>> \in t.appExcludes
    <2>1. \A a, b \in apps : /\ <<a, b>> \in r.appNeeds <=> <<a, b>> \in s.appNeeds
                             /\ <<a, b>> \in r.appExcludes <=> <<a, b>> \in s.appExcludes
      BY DEF Spared
    <2>2. \A a, b \in {x \in Apps : Lives(s, x)} :
              /\ <<a, b>> \in s.appNeeds <=> <<a, b>> \in t.appNeeds
              /\ <<a, b>> \in s.appExcludes <=> <<a, b>> \in t.appExcludes
      BY DEF Spared
    <2>. QED
      BY <1>1, <2>1, <2>2
  <1>8. \A a \in apps, o \in options :
              /\ <<a, o>> \in r.appNeedsOption <=> <<a, o>> \in t.appNeedsOption
              /\ <<a, o>> \in r.appExcludesOption <=> <<a, o>> \in t.appExcludesOption
    <2>1. \A a \in apps, o \in options :
              /\ <<a, o>> \in r.appNeedsOption <=> <<a, o>> \in s.appNeedsOption
              /\ <<a, o>> \in r.appExcludesOption <=> <<a, o>> \in s.appExcludesOption
      BY DEF Spared
    <2>2. \A a \in {x \in Apps : Lives(s, x)}, o \in {p \in Options : s.home[p] # Nobody} \ P :
              /\ <<a, o>> \in s.appNeedsOption <=> <<a, o>> \in t.appNeedsOption
              /\ <<a, o>> \in s.appExcludesOption <=> <<a, o>> \in t.appExcludesOption
      BY DEF Spared
    <2>. QED
      BY <1>1, <1>2, <2>1, <2>2
  <1>. QED
    BY <1>3, <1>4, <1>5, <1>6, <1>7, <1>8 DEF Spared

\* At most one option more is in the lists.
OneMore(r, s) ==
    /\ s.options <= r.options + 1
    /\ \A p \in Options \ {r.options + 1} : s.home[p] \in {r.home[p], Nobody}

\* Only the names of o may be others.
SameRest(s, r, o) ==
    /\ s.app = r.app /\ s.parent = r.parent /\ s.options = r.options
    /\ s.home = r.home /\ s.pointer = r.pointer
    /\ s.needs = r.needs /\ s.excludes = r.excludes
    /\ s.appNeeds = r.appNeeds /\ s.appExcludes = r.appExcludes
    /\ s.appNeedsOption = r.appNeedsOption /\ s.appExcludesOption = r.appExcludesOption
    /\ \A p \in Options \ {o} : s.opt[p] = r.opt[p]

LEMMA FoldingRest ==
    ASSUME NEW r, r \in RegistryType, NEW o \in Options, NEW v,
           NEW s, s = OptionIgnoreCase(r, o, v).reg \/ s = OptionIgnoreUnderscore(r, o, v).reg
    PROVE  SameRest(s, r, o)
  <1>1. PICK names : s = [r EXCEPT !.opt[o] = names]
    BY DEF OptionIgnoreCase, OptionIgnoreUnderscore, ComparedOption, Throws, Returns
  <1>2. s.opt = [r.opt EXCEPT ![o] = names] /\ r.opt \in [Options -> OptionNames]
    BY <1>1 DEF RegistryType
  <1>3. \A p \in Options \ {o} : s.opt[p] = r.opt[p]
    BY <1>2
  <1>4. /\ s.app = r.app /\ s.parent = r.parent /\ s.options = r.options
        /\ s.home = r.home /\ s.pointer = r.pointer
        /\ s.needs = r.needs /\ s.excludes = r.excludes
        /\ s.appNeeds = r.appNeeds /\ s.appExcludes = r.appExcludes
        /\ s.appNeedsOption = r.appNeedsOption /\ s.appExcludesOption = r.appExcludesOption
    BY <1>1 DEF RegistryType
  <1>. QED
    BY <1>3, <1>4 DEF SameRest

LEMMA AddOptionSpares ==
    ASSUME NEW r, Good(r), NEW a \in Apps, NEW names \in OptionNames,
           r.options < MaxOptions,
           NEW o, o = r.options + 1,
           NEW result, result = AddOption(r, a, names)
    PROVE  /\ Spared(r, result.reg, {}, {}) /\ OneMore(r, result.reg)
           /\ ~result.thrown => result.made = o
           /\ o \in Options /\ r.home[o] = Nobody
  <1>. DEFINE added == Placed(r, a, names)
              cased == OptionIgnoreCase(added, o, r.app[a].optCase)
              both  == OptionIgnoreUnderscore(cased.reg, o, r.app[a].optUnderscore)
  <1>1. /\ r \in RegistryType /\ r.options \in Nat
        /\ r.app[a].optCase \in BOOLEAN /\ r.app[a].optUnderscore \in BOOLEAN
    BY DEF Good, RegistryType, AppType
  <1>2. o \in Options /\ r.home[o] = Nobody
    BY <1>1, BoundsType DEF Good, Numbered, Options
  <1>3. CASE \/ \E p \in OptionsOf(r, a) : Matches(r.opt[p], names)
             \/ Ambiguous(r, a, names)
    <2>1. result = Throws(r)
      BY <1>3 DEF AddOption
    <2>. QED
      BY <1>1, <1>2, <2>1, SparedSame DEF Throws, OneMore
  <1>4. CASE ~\/ \E p \in OptionsOf(r, a) : Matches(r.opt[p], names)
              \/ Ambiguous(r, a, names)
    <2>1. result = IF cased.thrown THEN cased
                   ELSE IF both.thrown THEN both ELSE Makes(both.reg, o)
      BY <1>4 DEF AddOption, Placed, ThenUnderscore, ThenMakes
    <2>2. Good(added)
      BY <1>4, PlacedGood
    <2>3. /\ added.app = r.app /\ added.parent = r.parent /\ added.pointer = r.pointer
          /\ added.needs = r.needs /\ added.excludes = r.excludes
          /\ added.appNeeds = r.appNeeds /\ added.appExcludes = r.appExcludes
          /\ added.appNeedsOption = r.appNeedsOption
          /\ added.appExcludesOption = r.appExcludesOption
          /\ added.options = o
          /\ added.home = [r.home EXCEPT ![o] = a] /\ added.opt = [r.opt EXCEPT ![o] = names]
      BY <1>1 DEF Placed, RegistryType
    <2>. HIDE DEF added
    <2>4. Good(cased.reg) /\ SameRest(cased.reg, added, o)
      <3>1. Good(cased.reg)
        BY <1>1, <1>2, <2>2, OptionFoldingGood
      <3>2. SameRest(cased.reg, added, o)
        BY <1>2, <2>2, FoldingRest DEF Good
      <3>. QED
        BY <3>1, <3>2
    <2>. HIDE DEF cased
    <2>5. SameRest(both.reg, added, o)
      <3>1. SameRest(both.reg, cased.reg, o)
        BY <1>2, <2>4, FoldingRest DEF Good
      <3>. QED
        BY <2>4, <3>1 DEF SameRest
    <2>. HIDE DEF both
    <2>6. PICK s : s = result.reg
      OBVIOUS
    <2>7. /\ SameRest(s, added, o)
          /\ ~result.thrown => result.made = o
      BY <2>1, <2>4, <2>5, <2>6 DEF Makes
    <2>8. \A p \in Options \ {o} : s.home[p] = r.home[p] /\ s.opt[p] = r.opt[p]
      BY <1>1, <2>3, <2>7 DEF RegistryType, SameRest
    <2>9. Spared(r, s, {}, {})
      <3>1. \A p \in Options \ {} : r.home[p] # Nobody => s.opt[p] = r.opt[p] /\ s.home[p] = r.home[p]
        BY <1>2, <2>8
      <3>. QED
        BY <2>3, <2>7, <3>1, SparedFrame DEF SameRest
    <2>10. OneMore(r, s)
      BY <1>1, <2>3, <2>7, <2>8 DEF OneMore, SameRest
    <2>. QED
      BY <1>2, <2>6, <2>7, <2>9, <2>10
  <1>. QED
    BY <1>3, <1>4

LEMMA RemoveOptionSpares ==
    ASSUME NEW r, Good(r), NEW a \in Apps, NEW o \in Options,
           NEW s, s = RemoveOption(r, a, o).reg, NEW O, O = {o}
    PROVE  /\ Spared(r, s, {}, O) /\ s.options = r.options
           /\ \A p \in Options : s.home[p] \in {r.home[p], Nobody}
  <1>1. r \in RegistryType
    BY DEF Good
  <1>. DEFINE gone(links) == { l \in links :
                  \/ r.home[o] = a /\ l[1] = o
                  \/ r.home[l[1]] = a /\ l[2] = o }
  <1>2. /\ s.app = r.app /\ s.parent = r.parent
        /\ s.needs = r.needs \ gone(r.needs) /\ s.excludes = r.excludes \ gone(r.excludes)
        /\ s.appNeeds = r.appNeeds /\ s.appExcludes = r.appExcludes
        /\ s.appNeedsOption = r.appNeedsOption /\ s.appExcludesOption = r.appExcludesOption
        /\ s.options = r.options /\ s.opt = r.opt
        /\ s.home = [r.home EXCEPT ![o] = IF @ = a THEN Nobody ELSE @]
        /\ s.pointer = [r.pointer EXCEPT ![a] = [x \in Special |->
                IF x # "version" /\ @[x] = o THEN Nobody ELSE @[x]]]
    BY <1>1 DEF RemoveOption, Returns, RegistryType
  <1>3. /\ \A p \in Options :
              s.home[p] = IF p = o /\ r.home[p] = a THEN Nobody ELSE r.home[p]
        /\ \A b \in Apps, x \in Special :
              s.pointer[b][x] = IF b = a /\ x # "version" /\ r.pointer[b][x] = o
                                THEN Nobody ELSE r.pointer[b][x]
    BY <1>1, <1>2 DEF RegistryType
  <1>4. \A p, q \in Options \ O : /\ <<p, q>> \in r.needs <=> <<p, q>> \in s.needs
                                  /\ <<p, q>> \in r.excludes <=> <<p, q>> \in s.excludes
    BY <1>2
  <1>6. /\ Nobody \notin O /\ \A p \in Options \ O : p \in Options \ {o}
        /\ \A b \in Apps, x \in Special \ {"version"} :
              r.pointer[b][x] \notin O => s.pointer[b][x] = r.pointer[b][x]
        /\ \A p \in Options \ O : s.opt[p] = r.opt[p] /\ s.home[p] = r.home[p]
    BY <1>2, <1>3, BoundsType
  <1>7. /\ s.app = r.app /\ s.parent = r.parent
        /\ s.appNeeds = r.appNeeds /\ s.appExcludes = r.appExcludes
        /\ s.appNeedsOption = r.appNeedsOption /\ s.appExcludesOption = r.appExcludesOption
    BY <1>2
  <1>8. Spared(r, s, {}, O)
    BY ONLY <1>4, <1>6, <1>7, SparedFrame
  <1>. QED
    BY <1>2, <1>3, <1>8

LEMMA AddFlagSpares ==
    ASSUME NEW r, Good(r), NEW a \in Apps, NEW names \in OptionNames,
           r.options < MaxOptions,
           NEW result, result = AddFlag(r, a, names)
    PROVE  Spared(r, result.reg, {}, {}) /\ OneMore(r, result.reg)
  <1>1. PICK new : new = AddOption(r, a, names)
    OBVIOUS
  <1>2. /\ Spared(r, new.reg, {}, {}) /\ OneMore(r, new.reg)
        /\ ~new.thrown => new.made \in Options /\ r.home[new.made] = Nobody
        /\ Good(new.reg)
    BY <1>1, AddOptionSpares, AddOptionGood
  <1>3. CASE ~new.thrown /\ names.positional # NoName
    <2>1. PICK s, o, t, O :
            s = new.reg /\ o = new.made /\ t = RemoveOption(s, a, o).reg /\ O = {o}
      OBVIOUS
    <2>2. o \in Options /\ r.home[o] = Nobody
      BY <1>2, <1>3, <2>1
    <2>3. /\ Spared(s, t, {}, O) /\ t.options = s.options
          /\ \A p \in Options : t.home[p] \in {s.home[p], Nobody}
      <3>1. Good(s) /\ t = RemoveOption(s, a, o).reg /\ O = {o}
        BY <1>2, <2>1
      <3>. QED
        BY ONLY a \in Apps, <2>2, <3>1, RemoveOptionSpares
    <2>4. Spared(r, t, {}, {})
      <3>1. \A p \in O : p \notin {} => p \in Options /\ r.home[p] = Nobody
        BY <2>1, <2>2
      <3>. QED
        BY <1>2, <2>1, <2>3, <3>1, SparedTwice
    <2>5. OneMore(r, t)
      BY <1>2, <2>1, <2>3 DEF OneMore
    <2>6. result.reg = t
      BY <1>1, <1>3, <2>1 DEF AddFlag, ThenNoPositional, Throws
    <2>. QED
      BY <2>4, <2>5, <2>6
  <1>4. CASE ~(~new.thrown /\ names.positional # NoName)
    <2>1. result = new
      BY <1>1, <1>4 DEF AddFlag, ThenNoPositional
    <2>. QED
      BY <1>2, <2>1
  <1>. QED
    BY <1>3, <1>4

\* The former flag may be lost.
LEMMA WithoutSpecialSpares ==
    ASSUME NEW r, Good(r), NEW a \in Apps, NEW x \in Special, Options # {},
           NEW s, s = WithoutSpecial(r, a, x)
    PROVE  /\ \E o \in Options : Spared(r, s, {}, {o})
           /\ s.options = r.options
           /\ \A p \in Options : s.home[p] \in {r.home[p], Nobody}
  <1>1. r \in RegistryType /\ r.pointer[a][x] \in Options \cup {Nobody}
    BY DEF Good, RegistryType
  <1>2. CASE r.pointer[a][x] = Nobody
    <2>1. s = r
      BY <1>2 DEF WithoutSpecial
    <2>. QED
      BY <2>1, SparedSame
  <1>3. CASE r.pointer[a][x] # Nobody
    <2>1. PICK o, t, O : o = r.pointer[a][x] /\ t = RemoveOption(r, a, o).reg /\ O = {o}
      OBVIOUS
    <2>2. o \in Options /\ s = [t EXCEPT !.pointer[a][x] = Nobody]
      BY <1>1, <1>3, <2>1 DEF WithoutSpecial
    <2>3. /\ Spared(r, t, {}, O) /\ t.options = r.options
          /\ \A p \in Options : t.home[p] \in {r.home[p], Nobody}
      <3>1. t = RemoveOption(r, a, o).reg /\ O = {o} /\ o \in Options
        BY <2>1, <2>2
      <3>. QED
        BY ONLY a \in Apps, Good(r), <3>1, RemoveOptionSpares
    <2>4. t \in RegistryType
      BY <2>1, <2>2, RemoveOptionGood DEF Good
    <2>5. /\ s.app = t.app /\ s.parent = t.parent /\ s.options = t.options
          /\ s.home = t.home /\ s.opt = t.opt
          /\ s.needs = t.needs /\ s.excludes = t.excludes
          /\ s.appNeeds = t.appNeeds /\ s.appExcludes = t.appExcludes
          /\ s.appNeedsOption = t.appNeedsOption
          /\ s.appExcludesOption = t.appExcludesOption
          /\ s.pointer = [t.pointer EXCEPT ![a][x] = Nobody]
      BY <2>2, <2>4 DEF RegistryType
    <2>6. \A b \in Apps, y \in Special :
              s.pointer[b][y] = IF b = a /\ y = x THEN Nobody ELSE t.pointer[b][y]
      BY <2>4, <2>5 DEF RegistryType
    <2>7. \A b \in Apps, y \in Special \ {"version"} :
              r.pointer[b][y] \notin O => s.pointer[b][y] \in {t.pointer[b][y], r.pointer[b][y]}
      BY <2>1, <2>6
    <2>8. \A b \in Apps, y \in Special \ {"version"} :
              r.pointer[b][y] \notin O /\ t.pointer[b][y] = r.pointer[b][y]
              => s.pointer[b][y] = r.pointer[b][y]
      BY <2>7
    <2>9. Nobody \notin O
      BY <2>1, <2>2, BoundsType
    <2>10. Spared(r, s, {}, O)
      <3>1. \A b \in {b \in Apps : Lives(r, b)} :
                /\ s.app[b] = r.app[b] /\ s.parent[b] = r.parent[b]
                /\ \A y \in Special \ {"version"} :
                    r.pointer[b][y] \in ({o1 \in Options : r.home[o1] # Nobody} \ O) \cup {Nobody}
                    => s.pointer[b][y] = r.pointer[b][y]
        BY <2>3, <2>5, <2>8, <2>9 DEF Spared
      <3>. QED
        BY <2>3, <2>5, <3>1 DEF Spared
    <2>. QED
      BY <2>1, <2>2, <2>3, <2>5, <2>10
  <1>. QED
    BY <1>2, <1>3

LEMMA SetSpecialSpares ==
    ASSUME NEW r, Good(r), NEW a \in Apps, NEW x \in Special, NEW names \in OptionNames,
           r.options < MaxOptions,
           NEW result, result = SetSpecial(r, a, x, names), result.thrown
    PROVE  /\ \E o \in Options : Spared(r, result.reg, {}, {o})
           /\ OneMore(r, result.reg)
  <1>1. PICK s : s = WithoutSpecial(r, a, x)
    OBVIOUS
  <1>2. PICK new : new = IF x = "config" THEN AddOption(s, a, names) ELSE AddFlag(s, a, names)
    OBVIOUS
  <1>3. result = IF names = NoOption THEN Returns(s)
                 ELSE IF new.thrown THEN new
                 ELSE Returns([new.reg EXCEPT !.pointer[a][x] = new.made,
                                              !.opt[new.made].configurable = FALSE])
    BY <1>1, <1>2 DEF SetSpecial, ThenPointed, ThenFlag, AddFlag
  <1>4. result = new
    BY <1>3 DEF Returns
  <1>5. Good(s) /\ s.options = r.options /\ s.options < MaxOptions
    BY <1>1, WithoutSpecialGood
  <1>6. r.options + 1 \in Options
    BY BoundsType DEF Good, RegistryType, Options
  <1>7. PICK o \in Options : Spared(r, s, {}, {o})
    BY <1>1, <1>6, WithoutSpecialSpares
  <1>8. /\ s.options = r.options /\ \A p \in Options : s.home[p] \in {r.home[p], Nobody}
    BY <1>1, <1>6, WithoutSpecialSpares
  <1>9. Spared(s, new.reg, {}, {}) /\ OneMore(s, new.reg)
    <2>1. PICK n : n = s.options + 1
      OBVIOUS
    <2>2. CASE x = "config"
      BY <1>2, <1>5, <2>1, <2>2, AddOptionSpares
    <2>3. CASE x # "config"
      BY <1>2, <1>5, <2>3, AddFlagSpares
    <2>. QED
      BY <2>2, <2>3
  <1>10. PICK O : O = {o}
    OBVIOUS
  <1>11. Spared(r, new.reg, {}, O)
    <2>1. Nobody \notin O /\ Spared(r, s, {}, O)
      BY <1>7, <1>10, BoundsType
    <2>. QED
      BY <1>9, <2>1, SparedTwice
  <1>12. OneMore(r, new.reg)
    BY <1>8, <1>9 DEF OneMore
  <1>. QED
    BY <1>4, <1>10, <1>11, <1>12

LEMMA RetireOptionSpares ==
    ASSUME NEW r, Good(r), NEW a \in Apps, NEW o \in Options, r.options < MaxOptions,
           NEW result, result = RetireOption(r, a, o)
    PROVE  /\ \E p \in Options : Spared(r, result.reg, {}, {p})
           /\ OneMore(r, result.reg)
  <1>1. PICK s, names, O :
            s = RemoveOption(r, a, o).reg /\ names = AllNames(r.opt[o]) /\ O = {o}
    OBVIOUS
  <1>2. Good(s) /\ s.options < MaxOptions
    BY <1>1, RemoveOptionGood
  <1>3. /\ Spared(r, s, {}, O) /\ s.options = r.options
        /\ \A p \in Options : s.home[p] \in {r.home[p], Nobody}
    BY <1>1, RemoveOptionSpares
  <1>4. names \in OptionNames
    BY <1>1 DEF Good, RegistryType, AllNames, OptionNames, Declaration
  <1>5. result = AddOption(s, a, names)
    BY <1>1 DEF RetireOption
  <1>6. PICK n : n = s.options + 1
    OBVIOUS
  <1>7. Spared(s, result.reg, {}, {}) /\ OneMore(s, result.reg)
    BY <1>2, <1>4, <1>5, <1>6, AddOptionSpares
  <1>8. Nobody \notin O
    BY <1>1, BoundsType
  <1>9. Spared(r, result.reg, {}, O)
    BY <1>3, <1>7, <1>8, SparedTwice
  <1>10. OneMore(r, result.reg)
    BY <1>3, <1>7 DEF OneMore
  <1>. QED
    BY <1>1, <1>9, <1>10

\* Only what is in the App that was to be moved is destroyed with it.
LEMMA MoveSubcommandSpares ==
    ASSUME NEW r, Good(r), Rooted(r), NEW a \in Apps, NEW g \in Apps, a # Root,
           NEW result, result = MoveSubcommand(r, a, g), result.thrown,
           NEW A, A = Under(r, a), NEW O, O = {o \in Options : r.home[o] \in A}
    PROVE  /\ Spared(r, result.reg, A, O) /\ OneMore(r, result.reg)
           /\ result.reg.apps = r.apps
           /\ \A b \in Apps : result.reg.parent[b] \in {r.parent[b], Nobody}
  <1>1. PICK t, s : t = TakenOut(r, a) /\ s = Destroyed(t, A)
    OBVIOUS
  <1>2. r \in RegistryType /\ r.options \in Nat
    BY DEF Good, RegistryType
  <1>3. result.reg = s
    BY <1>1 DEF MoveSubcommand, Attached, Throws, Returns
  <1>4. a \in A /\ Root \notin A
    BY UnderIs
  <1>5. t \in RegistryType
    BY <1>1, TakenOutGood DEF Good
  <1>6. /\ t.app = r.app /\ t.options = r.options /\ t.apps = r.apps
        /\ t.home = r.home /\ t.opt = r.opt /\ t.pointer = r.pointer
        /\ t.needs = r.needs /\ t.excludes = r.excludes
        /\ t.appNeedsOption = r.appNeedsOption /\ t.appExcludesOption = r.appExcludesOption
        /\ t.parent = [r.parent EXCEPT ![a] = Nobody]
        /\ t.appExcludes = r.appExcludes \ Forgotten(r, a)
        /\ t.appNeeds = { l \in r.appNeeds : ~(l[2] = a /\ r.parent[l[1]] = r.parent[a]) }
    BY <1>1, <1>2 DEF TakenOut, RegistryType, Forgotten
  <1>7. /\ s.app = t.app /\ s.options = t.options /\ s.apps = t.apps /\ s.opt = t.opt
        /\ s.parent = [b \in Apps |-> IF b \in A THEN Nobody ELSE t.parent[b]]
        /\ s.home = [o \in Options |-> IF t.home[o] \in A THEN Nobody ELSE t.home[o]]
        /\ s.pointer = [b \in Apps |->
                            IF b \in A THEN [x \in Special |-> Nobody] ELSE t.pointer[b]]
    BY <1>1, <1>5 DEF Destroyed, RegistryType
  <1>8. /\ s.needs = {l \in t.needs : l[1] \notin {o \in Options : t.home[o] \in A}}
        /\ s.excludes = {l \in t.excludes : l[1] \notin {o \in Options : t.home[o] \in A}}
        /\ s.appNeeds = {l \in t.appNeeds : l[1] \notin A}
        /\ s.appExcludes = {l \in t.appExcludes : l[1] \notin A}
        /\ s.appNeedsOption = {l \in t.appNeedsOption : l[1] \notin A}
        /\ s.appExcludesOption = {l \in t.appExcludesOption : l[1] \notin A}
    BY <1>1, <1>5 DEF Destroyed, RegistryType
  <1>9. \A b \in Apps : s.parent[b] = IF b \in A THEN Nobody ELSE r.parent[b]
    BY <1>2, <1>4, <1>6, <1>7 DEF RegistryType
  <1>10. \A o \in Options : s.home[o] = IF r.home[o] \in A THEN Nobody ELSE r.home[o]
    BY <1>6, <1>7
  <1>11. \A b \in Apps \ A : s.pointer[b] = r.pointer[b]
    BY <1>6, <1>7
  <1>12. \A o, p \in Options \ O : /\ <<o, p>> \in r.needs <=> <<o, p>> \in s.needs
                                   /\ <<o, p>> \in r.excludes <=> <<o, p>> \in s.excludes
    BY <1>6, <1>8
  <1>13. \A b, c \in Apps \ A : /\ <<b, c>> \in r.appNeeds <=> <<b, c>> \in s.appNeeds
                                /\ <<b, c>> \in r.appExcludes <=> <<b, c>> \in s.appExcludes
    BY <1>4, <1>6, <1>8 DEF Forgotten
  <1>14. \A b \in Apps \ A, o \in Options :
              /\ <<b, o>> \in r.appNeedsOption <=> <<b, o>> \in s.appNeedsOption
              /\ <<b, o>> \in r.appExcludesOption <=> <<b, o>> \in s.appExcludesOption
    BY <1>6, <1>8
  <1>15. Spared(r, s, A, O)
    BY <1>6, <1>7, <1>9, <1>10, <1>11, <1>12, <1>13, <1>14 DEF Spared
  <1>16. OneMore(r, s)
    BY <1>2, <1>6, <1>7, <1>10 DEF OneMore
  <1>. QED
    BY <1>3, <1>6, <1>7, <1>9, <1>15, <1>16

\* Calls on names that throw have put back what they set, and others have set
\* nothing.
LEMMA NamingPutsBack ==
    ASSUME NEW r \in RegistryType, NEW a \in Apps, NEW n, NEW alias \in Names, NEW v \in BOOLEAN
    PROVE  /\ SetName(r, a, n).thrown => SetName(r, a, n).reg = r
           /\ AddAlias(r, a, alias).thrown => AddAlias(r, a, alias).reg = r
           /\ IgnoreCase(r, a, v).thrown => IgnoreCase(r, a, v).reg = r
           /\ IgnoreUnderscore(r, a, v).thrown => IgnoreUnderscore(r, a, v).reg = r
  <1>1. \A app, base : Renamed(r, a, app, base).thrown => Renamed(r, a, app, base).reg = r
    BY DEF Renamed, Throws, Returns
  <1>2. SetName(r, a, n).thrown => SetName(r, a, n).reg = r
    <2>1. \E app, base : SetName(r, a, n) = Renamed(r, a, app, base)
      BY SetNameRestores
    <2>. QED
      BY <1>1, <2>1
  <1>3. AddAlias(r, a, alias).thrown => AddAlias(r, a, alias).reg = r
    <2>1. \E app, base : AddAlias(r, a, alias) = Renamed(r, a, app, base)
      BY AddAliasRestores
    <2>. QED
      BY <1>1, <2>1
  <1>4. IgnoreCase(r, a, v).thrown => IgnoreCase(r, a, v).reg = r
    <2>1. \E app, base : IgnoreCase(r, a, v) = Renamed(r, a, app, base)
      BY IgnoreCaseRestores
    <2>. QED
      BY <1>1, <2>1
  <1>5. IgnoreUnderscore(r, a, v).thrown => IgnoreUnderscore(r, a, v).reg = r
    <2>1. \E app, base : IgnoreUnderscore(r, a, v) = Renamed(r, a, app, base)
      BY IgnoreUnderscoreRestores
    <2>. QED
      BY <1>1, <2>1
  <1>. QED
    BY <1>2, <1>3, <1>4, <1>5

LEMMA OptionNamingPutsBack ==
    ASSUME NEW r \in RegistryType, NEW o \in Options, NEW v \in BOOLEAN
    PROVE  /\ OptionIgnoreCase(r, o, v).thrown => OptionIgnoreCase(r, o, v).reg = r
           /\ OptionIgnoreUnderscore(r, o, v).thrown => OptionIgnoreUnderscore(r, o, v).reg = r
  <1>1. \A names : RenamedOption(r, o, names).thrown => RenamedOption(r, o, names).reg = r
    BY DEF RenamedOption, Throws, Returns
  <1>2. \A s : Returns(s).thrown = FALSE
    BY DEF Returns
  <1>3. OptionIgnoreCase(r, o, v).thrown => OptionIgnoreCase(r, o, v).reg = r
    <2>1. PICK names : names = [r.opt[o] EXCEPT !.ignoreCase = v]
      OBVIOUS
    <2>2. OptionIgnoreCase(r, o, v) = IF v /\ ~r.opt[o].ignoreCase THEN RenamedOption(r, o, names)
                    ELSE Returns([r EXCEPT !.opt[o] = names])
      BY <2>1, OptionIgnoreCaseRestores
    <2>. QED
      BY <1>1, <1>2, <2>2
  <1>4. OptionIgnoreUnderscore(r, o, v).thrown => OptionIgnoreUnderscore(r, o, v).reg = r
    <2>1. PICK names : names = [r.opt[o] EXCEPT !.ignoreUnderscore = v]
      OBVIOUS
    <2>2. OptionIgnoreUnderscore(r, o, v) = IF v /\ ~r.opt[o].ignoreUnderscore THEN RenamedOption(r, o, names)
                    ELSE Returns([r EXCEPT !.opt[o] = names])
      BY <2>1, OptionIgnoreUnderscoreRestores
    <2>. QED
      BY <1>1, <1>2, <2>2
  <1>. QED
    BY <1>3, <1>4

\* A new App that is refused is lost with all that it brought.
LEMMA GrowthPutsBack ==
    ASSUME NEW r, Good(r), NEW p \in Apps, NEW n \in Names \cup {NoName},
           NEW a, a = r.apps + 1, a \in Apps,
           r.options + Repeated(r, p, "help") + Repeated(r, p, "helpAll") <= MaxOptions
    PROVE  /\ AddSubcommand(r, p, n).thrown => AddSubcommand(r, p, n).reg = r
           /\ AddOptionGroup(r, p).thrown => AddOptionGroup(r, p).reg = r
  <1>1. \A x \in Names \cup {NoName} :
            Constructed(r, p, x).thrown => Constructed(r, p, x).reg = r
    <2>1. \A s, t, u : ThenInherit(s, r, t, u).thrown => ThenInherit(s, r, t, u).reg = r
      BY DEF ThenInherit, Throws, Returns
    <2>. QED
      BY <2>1 DEF Constructed
  <1>2. \A s : Attached(r, s, a, p).thrown => Attached(r, s, a, p).reg = r
    BY DEF Attached, Throws, Returns
  <1>3. ASSUME AddSubcommand(r, p, n).thrown
        PROVE  AddSubcommand(r, p, n).reg = r
    <2>1. PICK new : new = Constructed(r, p, n)
      OBVIOUS
    <2>2. AddSubcommand(r, p, n) = IF new.thrown THEN new ELSE Attached(r, new.reg, a, p)
      BY <2>1 DEF AddSubcommand, ThenAttached
    <2>. QED
      BY <1>1, <1>2, <1>3, <2>1, <2>2
  <1>4. ASSUME AddOptionGroup(r, p).thrown
        PROVE  AddOptionGroup(r, p).reg = r
    <2>1. PICK new, group : new = Constructed(r, p, NoName) /\ group = ThenGroup(new, a)
      OBVIOUS
    <2>2. AddOptionGroup(r, p) = IF group.thrown THEN group ELSE Attached(r, group.reg, a, p)
      BY <2>1 DEF AddOptionGroup, ThenAttached
    <2>3. group.thrown => new.thrown /\ group = new
      BY <2>1 DEF ThenGroup, SetSpecial, Returns
    <2>. QED
      BY <1>1, <1>2, <1>4, <2>1, <2>2, <2>3
  <1>. QED
    BY <1>3, <1>4

\* A setting that throws is an operation that throws.
LEMMA SettingThrows ==
    ASSUME NEW op, NEW family, NEW result, Setting(op, family, result), call'.thrown
    PROVE  result.thrown /\ reg' = result.reg /\ call'.op = op
  <1>1. CASE result.thrown
    BY <1>1 DEF Setting, Calling
  <1>2. CASE ~result.thrown
    <2>1. [result EXCEPT !.reg.changes = @ + 1].thrown = result.thrown
      OBVIOUS
    <2>. QED
      BY <1>2, <2>1 DEF Setting, Calling
  <1>. QED
    BY <1>1, <1>2

\* At most one option more is declared, and no App more exists.
LEMMA OneMoreDeclared ==
    ASSUME Good(reg), Good(reg'), OneMore(reg, reg'), reg'.apps = reg.apps,
           \A a \in Apps : reg'.parent[a] \in {reg.parent[a], Nobody}
    PROVE  Existing' \subseteq Existing /\ Cardinality(Declared' \ Declared) <= 1
  <1>1. /\ reg.apps \in Nat /\ reg.options \in Nat /\ reg'.options \in Nat
        /\ reg.apps <= MaxApps /\ reg'.options <= MaxOptions
    BY BoundsType DEF Good, RegistryType, Apps
  <1>2. Existing' \subseteq Existing
    <2>1. \A a \in 1..reg.apps : a \in Apps
      BY <1>1, BoundsType DEF Apps
    <2>. QED
      BY <2>1 DEF Existing, Lives
  <1>3. Declared' \ Declared \subseteq {reg.options + 1}
    <2>. SUFFICES ASSUME NEW o \in Declared', o # reg.options + 1 PROVE o \in Declared
      OBVIOUS
    <2>1. o \in 1..reg'.options /\ reg'.home[o] # Nobody
      BY DEF Declared
    <2>2. o \in Options /\ o \in 1..reg.options
      BY <1>1, <2>1, BoundsType DEF Options, OneMore
    <2>3. reg.home[o] # Nobody
      BY <2>1, <2>2 DEF OneMore
    <2>. QED
      BY <2>2, <2>3 DEF Declared
  <1>4. IsFiniteSet({reg.options + 1}) /\ Cardinality({reg.options + 1}) = 1
    BY FS_Singleton
  <1>5. Cardinality(Declared' \ Declared) <= Cardinality({reg.options + 1})
    BY <1>3, <1>4, FS_Subset
  <1>. QED
    BY <1>2, <1>4, <1>5

\* A call about names, links or the tree that throws has put back what it set.
PutBack == call'.op \in {"app", "option", "link", "tree"} /\ reg' = reg

LEMMA FailedStep ==
    ASSUME RegistryInv, RegistryInv', Bonded(reg), [Next]_vars, vars' # vars, call'.thrown
    PROVE  /\ \/ PutBack
              \/ call'.op = "declare" /\ Spared(reg, reg', {}, {})
              \/ /\ call'.op \in {"retire", "special"}
                 /\ \E o \in Options : Spared(reg, reg', {}, {o})
              \/ /\ call'.op = "move"
                 /\ \E a \in Existing \ {Root} :
                       LET lost == Under(reg, a)
                       IN  Spared(reg, reg', lost, {o \in Options : reg.home[o] \in lost})
           /\ Existing' \subseteq Existing
           /\ Cardinality(Declared' \ Declared) <= 1
  <1>1. /\ Good(reg) /\ Good(reg') /\ reg \in RegistryType /\ Rooted(reg)
        /\ Existing \subseteq Apps /\ Declared \subseteq Options
    <2>1. /\ reg.apps \in 1..MaxApps /\ reg.options \in Nat /\ reg.options <= MaxOptions
          /\ MaxApps \in Nat /\ MaxOptions \in Nat
      BY BoundsType DEF RegistryInv, Good, RegistryType, Apps
    <2>. QED
      BY <2>1 DEF RegistryInv, Good, Bonded, Existing, Declared, Apps, Options
  <1>2. \A op, family, result : Calling(op, family, result) =>
            result.thrown /\ reg' = result.reg /\ call'.op = op
    BY DEF Calling
  <1>3. \A op, family, result : Setting(op, family, result) =>
            result.thrown /\ reg' = result.reg /\ call'.op = op
    BY SettingThrows
  <1>4. \A s : Returns(s).thrown = FALSE
    BY DEF Returns
  <1>5. CASE PutBack
    <2>1. OneMore(reg, reg') /\ Existing' = Existing /\ Declared' = Declared
      BY <1>1, <1>5 DEF PutBack, OneMore, Existing, Declared, Good, RegistryType
    <2>. QED
      BY <1>1, <1>5, <2>1, OneMoreDeclared DEF PutBack
  <1>6. ASSUME NEW s, reg' = s, OneMore(reg, s), s.apps = reg.apps, s.parent = reg.parent
        PROVE  Existing' \subseteq Existing /\ Cardinality(Declared' \ Declared) <= 1
    BY <1>1, <1>6, OneMoreDeclared
  <1>7. CASE NameApp
    <2>1. PICK a \in Existing, n \in AppNamesGiven :
            Calling("app", "names", SetName(reg, a, n))
      BY <1>7 DEF NameApp
    <2>2. reg' = SetName(reg, a, n).reg /\ SetName(reg, a, n).thrown /\ call'.op = "app"
      BY <1>2, <2>1
    <2>3. SetName(reg, a, n).thrown => SetName(reg, a, n).reg = reg
      <3>1. \E app, base : SetName(reg, a, n) = Renamed(reg, a, app, base)
        BY <1>1, SetNameRestores
      <3>. QED
        BY <3>1 DEF Renamed, Throws, Returns
    <2>4. PutBack
      BY <2>2, <2>3 DEF PutBack
    <2>. QED
      BY <1>5, <2>4
  <1>8. CASE AliasApp
    <2>1. PICK a \in Existing :
            \/ \E n \in AliasesGiven : Setting("app", "aliases", AddAlias(reg, a, n))
            \/ Setting("app", "aliases", Returns([reg EXCEPT !.app[a].aliases = <<>>]))
      BY <1>8 DEF AliasApp
    <2>2. PICK n \in AliasesGiven : Setting("app", "aliases", AddAlias(reg, a, n))
      BY <1>3, <1>4, <2>1
    <2>3. AddAlias(reg, a, n).thrown => AddAlias(reg, a, n).reg = reg
      <3>1. n \in Names /\ TRUE \in BOOLEAN
        BY RegistryAssumption
      <3>. QED
        BY <1>1, <3>1, NamingPutsBack
    <2>4. PutBack
      BY <1>3, <2>2, <2>3 DEF PutBack
    <2>. QED
      BY <1>5, <2>4
  <1>9. CASE FoldApp
    <2>1. PICK a \in Existing, v \in BOOLEAN :
            \/ Setting("app", "folding", IgnoreCase(reg, a, v))
            \/ Setting("app", "folding", IgnoreUnderscore(reg, a, v))
      BY <1>9 DEF FoldApp
    <2>2. /\ IgnoreCase(reg, a, v).thrown => IgnoreCase(reg, a, v).reg = reg
          /\ IgnoreUnderscore(reg, a, v).thrown => IgnoreUnderscore(reg, a, v).reg = reg
      <3>1. \A app, base : Renamed(reg, a, app, base).thrown => Renamed(reg, a, app, base).reg = reg
        BY DEF Renamed, Throws, Returns
      <3>2. /\ \E app, base : IgnoreCase(reg, a, v) = Renamed(reg, a, app, base)
            /\ \E app, base : IgnoreUnderscore(reg, a, v) = Renamed(reg, a, app, base)
        <4>1. a \in Apps
          BY <1>1
        <4>2. \E app, base : IgnoreCase(reg, a, v) = Renamed(reg, a, app, base)
          BY <1>1, <4>1, IgnoreCaseRestores
        <4>3. \E app, base : IgnoreUnderscore(reg, a, v) = Renamed(reg, a, app, base)
          BY <1>1, <4>1, IgnoreUnderscoreRestores
        <4>. QED
          BY <4>2, <4>3
      <3>. QED
        BY <3>1, <3>2
    <2>3. PutBack
      BY <1>3, <2>1, <2>2 DEF PutBack
    <2>. QED
      BY <1>5, <2>3
  <1>10. ~SwitchApp /\ ~SetApp
    <2>1. \A a, v, mode : /\ Disabled(reg, a, v).thrown = FALSE
                          /\ ByDefault(reg, a, mode, v).thrown = FALSE
                          /\ Trigger(reg, a, v).thrown = FALSE
      BY DEF Disabled, ByDefault, Trigger, Returns
    <2>. QED
      BY <1>3, <1>4, <2>1 DEF SwitchApp, SetApp
  <1>11. CASE DeclareOption
    <2>1. PICK a \in Existing, names \in Declarations :
            /\ reg.options < MaxOptions
            /\ \/ Calling("declare", "options", AddOption(reg, a, names))
               \/ Calling("declare", "options", AddFlag(reg, a, names))
      BY <1>11 DEF DeclareOption
    <2>2. names \in OptionNames /\ a \in Apps
      BY <1>1, RegistryAssumption
    <2>3. PICK o : o = reg.options + 1
      OBVIOUS
    <2>4. /\ Spared(reg, AddOption(reg, a, names).reg, {}, {})
          /\ OneMore(reg, AddOption(reg, a, names).reg)
          /\ SameTree(AddOption(reg, a, names).reg, reg)
      BY <1>1, <2>1, <2>2, <2>3, AddOptionSpares, AddOptionGood
    <2>5. /\ Spared(reg, AddFlag(reg, a, names).reg, {}, {})
          /\ OneMore(reg, AddFlag(reg, a, names).reg)
          /\ SameTree(AddFlag(reg, a, names).reg, reg)
      BY <1>1, <2>1, <2>2, AddFlagSpares, AddFlagGood
    <2>6. /\ call'.op = "declare" /\ Spared(reg, reg', {}, {})
          /\ OneMore(reg, reg') /\ SameTree(reg', reg)
      BY <1>2, <2>1, <2>4, <2>5
    <2>. QED
      BY <1>6, <2>6 DEF SameTree
  <1>12. CASE NameOption
    <2>1. PICK o \in Declared, v \in BOOLEAN :
            \/ Calling("option", "renaming", OptionIgnoreCase(reg, o, v))
            \/ Setting("option", "folding", OptionIgnoreUnderscore(reg, o, v))
            \/ Setting("option", "folding", Returns([reg EXCEPT !.opt[o].configurable = v]))
            \/ \E n \in EnvironmentGiven :
                Setting("option", "folding", Returns([reg EXCEPT !.opt[o].env = n]))
      BY <1>12 DEF NameOption
    <2>2. /\ OptionIgnoreCase(reg, o, v).thrown => OptionIgnoreCase(reg, o, v).reg = reg
          /\ OptionIgnoreUnderscore(reg, o, v).thrown => OptionIgnoreUnderscore(reg, o, v).reg = reg
      BY <1>1, OptionNamingPutsBack
    <2>3. \/ Calling("option", "renaming", OptionIgnoreCase(reg, o, v))
          \/ Setting("option", "folding", OptionIgnoreUnderscore(reg, o, v))
      BY <1>3, <1>4, <2>1
    <2>4. PutBack
      BY <1>2, <1>3, <2>2, <2>3 DEF PutBack
    <2>. QED
      BY <1>5, <2>4
  <1>13. ~DropOption /\ ~PruneTree
    <2>1. \A a, o : RemoveOption(reg, a, o).thrown = FALSE
      BY DEF RemoveOption, Returns
    <2>2. \A a : RemoveSubcommand(reg, a).thrown = FALSE
      BY DEF RemoveSubcommand, Returns
    <2>. QED
      BY <1>2, <2>1, <2>2 DEF DropOption, PruneTree
  <1>14. CASE PlaceOption
    <2>1. PICK o \in Declared, g \in Existing :
            Calling("option", "groups", MoveOption(reg, o, g))
      BY <1>14 DEF PlaceOption
    <2>2. MoveOption(reg, o, g).thrown => MoveOption(reg, o, g).reg = reg
      BY DEF MoveOption, Throws, Returns
    <2>3. PutBack
      BY <1>2, <2>1, <2>2 DEF PutBack
    <2>. QED
      BY <1>5, <2>3
  <1>15. CASE ReplaceOption
    <2>1. PICK o \in Declared, a \in Existing :
            /\ reg.options < MaxOptions
            /\ Calling("retire", "removal", RetireOption(reg, a, o))
      BY <1>15 DEF ReplaceOption
    <2>2. o \in Options /\ a \in Apps
      BY <1>1
    <2>3. PICK result : result = RetireOption(reg, a, o)
      OBVIOUS
    <2>4. /\ \E p \in Options : Spared(reg, result.reg, {}, {p})
          /\ OneMore(reg, result.reg)
      BY <1>1, <2>1, <2>2, <2>3, RetireOptionSpares
    <2>5. SameBonds(result.reg, reg)
      BY <1>1, <2>1, <2>2, <2>3, RetireOptionBonds
    <2>6. reg' = result.reg /\ call'.op = "retire"
      BY <1>2, <2>1, <2>3
    <2>. QED
      BY <1>6, <2>4, <2>5, <2>6 DEF SameBonds
  <1>16. CASE SetFlag
    <2>1. PICK a \in Existing, x \in Special, names \in Declarations \cup {NoOption} :
            /\ reg.options < MaxOptions
            /\ Calling("special", "special", SetSpecial(reg, a, x, names))
      BY <1>16 DEF SetFlag
    <2>2. names \in OptionNames /\ a \in Apps
      <3>1. NoOption \in OptionNames
        BY DEF NoOption, Declaration, OptionNames
      <3>. QED
        BY <1>1, <3>1, RegistryAssumption
    <2>3. PICK result : result = SetSpecial(reg, a, x, names)
      OBVIOUS
    <2>4. result.thrown /\ reg' = result.reg /\ call'.op = "special"
      BY <1>2, <2>1, <2>3
    <2>5. /\ \E p \in Options : Spared(reg, result.reg, {}, {p})
          /\ OneMore(reg, result.reg)
      BY <1>1, <2>1, <2>2, <2>3, <2>4, SetSpecialSpares
    <2>6. SameTree(result.reg, reg)
      BY <1>1, <2>1, <2>2, <2>3, SetSpecialGood
    <2>. QED
      BY <1>6, <2>4, <2>5, <2>6 DEF SameTree
  <1>17. CASE GrowTree
    <2>1. PICK p \in Existing :
            /\ reg.apps < MaxApps
            /\ reg.options + Repeated(reg, p, "help") + Repeated(reg, p, "helpAll") <= MaxOptions
            /\ \/ \E n \in AppNamesGiven : Calling("tree", "tree", AddSubcommand(reg, p, n))
               \/ Calling("tree", "groups", AddOptionGroup(reg, p))
      BY <1>17 DEF GrowTree
    <2>2. PICK a : a = reg.apps + 1
      OBVIOUS
    <2>3. /\ p \in Apps /\ a \in Apps /\ AppNamesGiven \subseteq Names \cup {NoName}
          /\ NoName \in Names \cup {NoName}
      BY <1>1, <2>1, <2>2, RegistryAssumption, BoundsType DEF Good, Apps
    <2>4. \A n \in Names \cup {NoName} :
            AddSubcommand(reg, p, n).thrown => AddSubcommand(reg, p, n).reg = reg
      BY <1>1, <2>1, <2>2, <2>3, GrowthPutsBack
    <2>5. AddOptionGroup(reg, p).thrown => AddOptionGroup(reg, p).reg = reg
      BY <1>1, <2>1, <2>2, <2>3, GrowthPutsBack
    <2>6. PutBack
      BY <1>2, <2>1, <2>3, <2>4, <2>5 DEF PutBack
    <2>. QED
      BY <1>5, <2>6
  <1>18. CASE PlaceSubcommand
    <2>1. PICK a \in Existing \ {Root}, g \in Existing :
            Calling("move", "groups", MoveSubcommand(reg, a, g))
      BY <1>18 DEF PlaceSubcommand
    <2>2. a \in Apps /\ g \in Apps /\ a # Root
      BY <1>1
    <2>3. PICK result, A, O :
            /\ result = MoveSubcommand(reg, a, g) /\ A = Under(reg, a)
            /\ O = {o \in Options : reg.home[o] \in A}
      OBVIOUS
    <2>4. result.thrown /\ reg' = result.reg /\ call'.op = "move"
      BY <1>2, <2>1, <2>3
    <2>5. /\ Spared(reg, result.reg, A, O) /\ OneMore(reg, result.reg)
          /\ result.reg.apps = reg.apps
          /\ \A b \in Apps : result.reg.parent[b] \in {reg.parent[b], Nobody}
      BY <1>1, <2>2, <2>3, <2>4, MoveSubcommandSpares
    <2>6. Existing' \subseteq Existing /\ Cardinality(Declared' \ Declared) <= 1
      BY <1>1, <2>4, <2>5, OneMoreDeclared
    <2>. QED
      BY <2>1, <2>3, <2>4, <2>5, <2>6
  <1>19. CASE LinkOptions \/ LinkApps \/ LinkAppToOption
    <2>1. ASSUME NEW o, NEW p
          PROVE  /\ ~Needs(reg, o, p).thrown /\ ~RemoveNeeds(reg, o, p).thrown
                 /\ ~RemoveExcludes(reg, o, p).thrown
                 /\ Excludes(reg, o, p).thrown => Excludes(reg, o, p).reg = reg
                 /\ AppNeeds(reg, o, p).thrown => AppNeeds(reg, o, p).reg = reg
                 /\ AppExcludes(reg, o, p).thrown => AppExcludes(reg, o, p).reg = reg
                 /\ ~AppRemoveNeeds(reg, o, p).thrown /\ ~AppRemoveExcludes(reg, o, p).thrown
                 /\ ~AppNeedsOption(reg, o, p).thrown /\ ~AppExcludesOption(reg, o, p).thrown
                 /\ ~AppRemoveOptionLinks(reg, o, p).thrown
      BY DEF Needs, RemoveNeeds, RemoveExcludes, Excludes, AppNeeds, AppExcludes,
             AppRemoveNeeds, AppRemoveExcludes, AppNeedsOption, AppExcludesOption,
             AppRemoveOptionLinks, Throws, Returns
    <2>2. PutBack
      BY <1>2, <1>19, <2>1 DEF LinkOptions, LinkApps, LinkAppToOption, PutBack
    <2>. QED
      BY <1>5, <2>2
  <1>20. ~BeginParse
    BY <1>2, <1>4 DEF BeginParse
  <1>. QED
    BY <1>7, <1>8, <1>9, <1>10, <1>11, <1>12, <1>13, <1>14, <1>15, <1>16, <1>17, <1>18,
       <1>19, <1>20 DEF Next

\* A call that throws leaves the rest of the registry alone: what it has set is
\* put back, and no other App or Option changes its names or its list, or
\* loses a pointer or a link (App::name, alias, ignore_case, add_option,
\* add_subcommand, retire_option, set_help_flag, Option_group::add_subcommand).
THEOREM FailuresSpareTheRest == Spec => FailedCallsSpareTheRest
  <1>. DEFINE Failed ==
              call'.thrown =>
                /\ \/ call'.op \in {"app", "option", "link", "tree"} /\ reg' = reg
                   \/ call'.op = "declare" /\ Spared(reg, reg', {}, {})
                   \/ /\ call'.op \in {"retire", "special"}
                      /\ \E o \in Options : Spared(reg, reg', {}, {o})
                   \/ /\ call'.op = "move"
                      /\ \E a \in Existing \ {Root} :
                            LET lost == Under(reg, a)
                            IN  Spared(reg, reg', lost, {o \in Options : reg.home[o] \in lost})
                /\ Existing' \subseteq Existing
                /\ Cardinality(Declared' \ Declared) <= 1
              Bound == Bonded(reg)
  <1>1. Init => Bound
    BY InitBonded
  <1>2. RegistryInv /\ Bound /\ [Next]_vars => Bound'
    BY StepBonded
  <1>3. RegistryInv /\ RegistryInv' /\ Bound /\ [Next]_vars => [Failed]_vars
    BY FailedStep DEF PutBack
  <1>4. FailedCallsSpareTheRest <=> [][Failed]_vars
    BY DEF FailedCallsSpareTheRest
  <1>. HIDE DEF Bound, Failed
  <1>5. Spec => [][Failed]_vars
    BY <1>1, <1>2, <1>3, RegistryKept, PTL DEF Spec
  <1>. QED
    BY <1>4, <1>5
=============================================================================
