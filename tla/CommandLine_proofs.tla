-------------------------- MODULE CommandLine_proofs --------------------------
(***************************************************************************)
(* Theorems about App::parse, for every tree of Apps and every command     *)
(* line.                                                                   *)
(***************************************************************************)
EXTENDS CommandLine, AppTree_proofs, SequenceTheorems

MissedType == [token : Tokens, mark : BOOLEAN]
Got == Tokens \cup {Flagged}

TreeType ==
    [parsed : [Apps -> Nat], preParsed : [Apps -> BOOLEAN], listed : [Apps -> Seq(Names)],
     missing : [Apps -> Seq(MissedType)], results : [Options -> Seq(Got)]]

-----------------------------------------------------------------------------
(* The calls that change the tree keep its type.                           *)

LEMMA Fields ==
    ASSUME NEW st \in TreeType
    PROVE  /\ st.parsed \in [Apps -> Nat] /\ st.preParsed \in [Apps -> BOOLEAN]
           /\ st.listed \in [Apps -> Seq(Names)] /\ st.missing \in [Apps -> Seq(MissedType)]
           /\ st.results \in [Options -> Seq(Got)]
           /\ \A p \in [Apps -> Nat] : [st EXCEPT !.parsed = p] \in TreeType
           /\ \A p \in [Apps -> BOOLEAN] : [st EXCEPT !.preParsed = p] \in TreeType
           /\ \A l \in [Apps -> Seq(Names)] : [st EXCEPT !.listed = l] \in TreeType
           /\ \A m \in [Apps -> Seq(MissedType)] : [st EXCEPT !.missing = m] \in TreeType
           /\ \A r \in [Options -> Seq(Got)] : [st EXCEPT !.results = r] \in TreeType
  BY DEF TreeType

LEMMA FunctionChange ==
    ASSUME NEW S, NEW V, NEW f \in [S -> V], NEW x \in S, NEW v \in V
    PROVE  [f EXCEPT ![x] = v] \in [S -> V]
  OBVIOUS

LEMMA Longer ==
    ASSUME NEW S, NEW s \in Seq(S), NEW t \in Seq(S), NEW x \in S
    PROVE  /\ s \o t \in Seq(S) /\ Append(s, x) \in Seq(S)
           /\ Len(s \o t) = Len(s) + Len(t) /\ Len(Append(s, x)) = Len(s) + 1
  OBVIOUS

LEMMA Sequence ==
    ASSUME NEW S, NEW n \in Nat, NEW f \in [1..n -> S]
    PROVE  f \in Seq(S) /\ Len(f) = n
  OBVIOUS

\* The first of some places in a sequence.
LEMMA FirstPlace ==
    ASSUME NEW S, NEW s \in Seq(S), NEW T \in SUBSET DOMAIN s, T # {}
    PROVE  /\ Min(T) \in T /\ Min(T) \in 1..Len(s) /\ s[Min(T)] \in S
           /\ \A i \in T : Min(T) <= i
<1>1. T \in SUBSET Nat /\ T \subseteq 1..Len(s)
  OBVIOUS
<1>2. Min(T) \in T /\ \A i \in T : Min(T) <= i
  BY <1>1, MinOfNats
<1> QED
  BY <1>1, <1>2

LEMMA ClearedType ==
    ASSUME NEW st \in TreeType, NEW a \in Apps
    PROVE  Cleared(st, a) \in TreeType
<1>1. /\ st.parsed \in [Apps -> Nat] /\ st.preParsed \in [Apps -> BOOLEAN]
      /\ st.listed \in [Apps -> Seq(Names)] /\ st.missing \in [Apps -> Seq(MissedType)]
      /\ st.results \in [Options -> Seq(Got)]
  BY DEF TreeType
<1>2. <<>> \in Seq(Names) /\ <<>> \in Seq(MissedType) /\ <<>> \in Seq(Got)
  OBVIOUS
<1> QED
  BY <1>1, <1>2 DEF Cleared, TreeType

LEMMA IncrementedType ==
    ASSUME NEW st \in TreeType, NEW a \in Apps
    PROVE  Incremented(st, a) \in TreeType
<1>1. [x \in Apps |-> IF x \in Counted[a] THEN st.parsed[x] + 1 ELSE st.parsed[x]] \in [Apps -> Nat]
  BY Fields
<1> QED
  BY <1>1, Fields DEF Incremented

LEMMA PreParsedType ==
    ASSUME NEW st \in TreeType, NEW a \in Apps
    PROVE  PreParsed(st, a) \in TreeType
<1> DEFINE c == Cleared(st, a)
<1>1. c \in TreeType
  BY ClearedType
<1> HIDE DEF c
<1>2. [st EXCEPT !.preParsed = [st.preParsed EXCEPT ![a] = TRUE]] \in TreeType
  BY Fields
<1>3. [c EXCEPT !.parsed[a] = st.parsed[a], !.preParsed[a] = TRUE, !.missing[a] = st.missing[a]]
        \in TreeType
  <2>1. [c.parsed EXCEPT ![a] = st.parsed[a]] \in [Apps -> Nat]
    BY <1>1, Fields
  <2>2. [c.preParsed EXCEPT ![a] = TRUE] \in [Apps -> BOOLEAN]
    BY <1>1, Fields
  <2>3. [c.missing EXCEPT ![a] = st.missing[a]] \in [Apps -> Seq(MissedType)]
    BY <1>1, Fields, FunctionChange
  <2> QED
    BY <1>1, <2>1, <2>2, <2>3 DEF TreeType
<1> QED
  BY <1>2, <1>3 DEF PreParsed, c

LEMMA BegunType ==
    ASSUME NEW st \in TreeType, NEW a \in Apps
    PROVE  Begun(st, a) \in TreeType
  BY IncrementedType, PreParsedType DEF Begun

LEMMA GroupBegunType ==
    ASSUME NEW st \in TreeType, NEW a \in Apps
    PROVE  GroupBegun(st, a) \in TreeType
  BY PreParsedType DEF GroupBegun

LEMMA ListingType ==
    ASSUME NEW st \in TreeType, NEW a \in Apps, NEW com \in Names
    PROVE  Listing(st, a, com) \in TreeType
<1>1. [st.listed EXCEPT ![a] = Append(st.listed[a], com)] \in [Apps -> Seq(Names)]
  BY Fields, Longer, FunctionChange
<1>2. [st EXCEPT !.listed = [st.listed EXCEPT ![a] = Append(st.listed[a], com)]] \in TreeType
  BY <1>1, Fields
<1> QED
  BY <1>2 DEF Listing

LEMMA GivenType ==
    ASSUME NEW st \in TreeType, NEW o \in Options, NEW got \in Seq(Got)
    PROVE  Given(st, o, got) \in TreeType
<1>1. st.results[o] \o got \in Seq(Got)
  BY Fields
<1>2. [st.results EXCEPT ![o] = st.results[o] \o got] \in [Options -> Seq(Got)]
  BY <1>1, Fields, FunctionChange
<1>3. [st EXCEPT !.results = [st.results EXCEPT ![o] = st.results[o] \o got]] \in TreeType
  BY <1>2, Fields
<1> QED
  BY <1>3 DEF Given

LEMMA ReadyType ==
    ASSUME NEW st \in TreeType, NEW o \in Options
    PROVE  Ready(st, o) \in TreeType
<1>1. <<>> \in Seq(Got)
  OBVIOUS
<1>2. [st.results EXCEPT ![o] = <<>>] \in [Options -> Seq(Got)]
  BY <1>1, Fields, FunctionChange
<1>3. [st EXCEPT !.results = [st.results EXCEPT ![o] = <<>>]] \in TreeType
  BY <1>2, Fields
<1> QED
  BY <1>3 DEF Ready

\* The App that keeps a missing token is one of the Apps.
LEMMA MissingHomeType ==
    ASSUME NEW a \in Apps
    PROVE  MissingHome(a) \in Apps \cup {NoApp}
<1> DEFINE subs == AppOf[a].subs
           nameless == { i \in DOMAIN subs : IsGroup(subs[i]) /\ Captures(subs[i]) }
<1>1. subs \in Seq(Apps) /\ nameless \in SUBSET DOMAIN subs
  BY TreeTypes
<1> HIDE DEF nameless, subs
<1>3. ASSUME nameless # {} PROVE subs[Min(nameless)] \in Apps
  BY <1>1, <1>3, FirstPlace
<1> QED
  BY <1>3 DEF MissingHome, nameless, subs

LEMMA MissingType ==
    ASSUME NEW st \in TreeType, NEW a \in Apps, NEW items \in Seq(MissedType)
    PROVE  Missing(st, a, items) \in TreeType
<1> DEFINE h == MissingHome(a)
<1>1. h \in Apps \cup {NoApp}
  BY MissingHomeType
<1> HIDE DEF h
<1>2. CASE h = NoApp
  BY <1>2 DEF Missing, h
<1>3. CASE h \in Apps
  <2>1. st.missing[h] \o items \in Seq(MissedType)
    BY <1>3, Fields
  <2>2. [st.missing EXCEPT ![h] = st.missing[h] \o items] \in [Apps -> Seq(MissedType)]
    BY <1>3, <2>1, Fields, FunctionChange
  <2>3. [st EXCEPT !.missing = [st.missing EXCEPT ![h] = st.missing[h] \o items]] \in TreeType
    BY <2>2, Fields
  <2> QED
    BY <2>3 DEF Missing, h
<1> QED
  BY <1>1, <1>2, <1>3

LEMMA UnmarkedType ==
    ASSUME NEW ts \in Seq(Tokens)
    PROVE  /\ Unmarked(ts) \in Seq(MissedType) /\ Len(Unmarked(ts)) = Len(ts)
           /\ \A i \in 1..Len(ts) : Unmarked(ts)[i] = Missed(ts[i], FALSE)
<1>1. \A i \in 1..Len(ts) : ts[i] \in Tokens
  OBVIOUS
<1>2. \A i \in 1..Len(ts) : Missed(ts[i], FALSE) \in MissedType
  BY <1>1 DEF Missed, MissedType
<1> HIDE DEF Missed
<1>3. Unmarked(ts) = [i \in 1..Len(ts) |-> Missed(ts[i], FALSE)]
  BY DEF Unmarked
<1>4. Unmarked(ts) \in [1..Len(ts) -> MissedType]
  BY <1>2, <1>3
<1>5. Unmarked(ts) \in Seq(MissedType) /\ Len(Unmarked(ts)) = Len(ts)
  BY <1>4, Sequence
<1> QED
  BY <1>3, <1>5

LEMMA WithRestType ==
    ASSUME NEW st \in TreeType, NEW a \in Apps, NEW rest \in Seq(Tokens)
    PROVE  WithRest(st, a, rest) \in TreeType
<1>1. Unmarked(rest) \in Seq(MissedType)
  BY UnmarkedType
<1>2. st.missing[a] \o Unmarked(rest) \in Seq(MissedType)
  BY <1>1, Fields
<1>3. [st.missing EXCEPT ![a] = st.missing[a] \o Unmarked(rest)] \in [Apps -> Seq(MissedType)]
  BY <1>2, Fields, FunctionChange
<1>4. [st EXCEPT !.missing = [st.missing EXCEPT ![a] = st.missing[a] \o Unmarked(rest)]] \in TreeType
  BY <1>3, Fields
<1> QED
  BY <1>4 DEF WithRest

\* What becomes of the variables when the tree is changed.
LEMMA BecomesType ==
    ASSUME NEW st \in TreeType, Becomes(st)
    PROVE  Tree' \in TreeType /\ Tree' = st
  BY DEF Becomes, Tree, TreeType

-----------------------------------------------------------------------------
(* Who takes a token.                                                      *)

\* What is found is a subcommand, and the one a dotted word names is too.
LEMMA Named ==
    /\ Names \in SUBSET Apps /\ Root \notin Names /\ Names \subseteq Tokens
    /\ \A a \in Names : Parent(a) \in Apps
    /\ \A a, t, u : Finds(a, t, u) => t \in Names
    /\ \A t \in DottedWords : PathOf[t].head \in Names /\ PathOf[t].tail \in Names
    /\ \A t \in OptionTokens :
        /\ TokenOf[t].sub \in Names \cup {NoApp} /\ TokenOf[t].opts \in SUBSET Options
        /\ TokenOf[t].value \in Words \cup {NoValue}
    /\ Mark \in Tokens /\ Terminator \in Tokens
<1>1. \A t \in DottedWords : PathOf[t].head \in Names /\ PathOf[t].tail \in Names
  BY TreeAssumption
<1>2. \A t \in OptionTokens :
        /\ TokenOf[t].sub \in Names \cup {NoApp} /\ TokenOf[t].opts \in SUBSET Options
        /\ TokenOf[t].value \in Words \cup {NoValue}
  <2>1. TokenOf \in [OptionTokens -> TokenType]
    BY TreeAssumption
  <2> QED
    BY <2>1 DEF TokenType
<1>3. \A a, t, u : Finds(a, t, u) => t \in Names
  BY DEF Finds, Reach
<1> QED
  BY <1>1, <1>2, <1>3, Parents DEF Names, Tokens

\* The positional that takes a token is one of the App's.
LEMMA PositionalForType ==
    ASSUME NEW a \in Apps, NEW t, PositionalFor(a, t) # NoOption
    PROVE  PositionalFor(a, t) \in Opts(a) /\ PositionalFor(a, t) \in Options
<1> DEFINE os == AppOf[a].opts
           fitting == { i \in Positionals(a) : AppOf[a].validates => t \in OptionOf[os[i]].accepts }
           urgent == { i \in fitting : /\ AppOf[a].posAtEnd
                                       /\ Len(args) <= Remaining(Tree, a)
                                       /\ OptionOf[os[i]].required /\ Lacking(Tree, os[i]) }
           roomy == { i \in fitting : Roomy(os[i]) }
<1>1. os \in Seq(Options) /\ urgent \in SUBSET DOMAIN os /\ roomy \in SUBSET DOMAIN os
  BY TreeTypes DEF Positionals
<1>2. PositionalFor(a, t) = IF urgent # {} THEN os[Min(urgent)]
                            ELSE IF roomy # {} THEN os[Min(roomy)] ELSE NoOption
  BY DEF PositionalFor
<1> HIDE DEF os, urgent, roomy
<1>3. \E i \in DOMAIN os : PositionalFor(a, t) = os[i]
  <2>1. CASE urgent # {}
    BY <2>1, <1>1, <1>2, FirstPlace
  <2>2. CASE urgent = {} /\ roomy # {}
    BY <2>2, <1>1, <1>2, FirstPlace
  <2> QED
    BY <1>2, <2>1, <2>2
<1> QED
  BY <1>1, <1>3 DEF os, Opts, ToSet

\* Who takes a plain word at one level.
LEMMA TakerType ==
    ASSUME NEW e \in Apps, NEW t
    PROVE  /\ Taker(e, t) \in Apps \cup {NoApp}
           /\ Taker(e, t) # NoApp => Answer(Taker(e, t), t, FALSE) # "refused"
           /\ Taker(e, t) = NoApp =>
                /\ PositionalFor(e, t) = NoOption
                /\ \A i \in Groups(e) : Answer(AppOf[e].subs[i], t, FALSE) = "refused"
<1> DEFINE subs == AppOf[e].subs
           takers == { i \in Groups(e) : Answer(subs[i], t, FALSE) # "refused" }
<1>1. subs \in Seq(Apps) /\ takers \in SUBSET DOMAIN subs
  BY TreeTypes DEF Groups
<1>2. Taker(e, t) = IF PositionalFor(e, t) # NoOption THEN e
                    ELSE IF takers # {} THEN subs[Min(takers)] ELSE NoApp
  BY DEF Taker
<1>3. \A i \in takers : Answer(subs[i], t, FALSE) # "refused"
  OBVIOUS
<1>4. takers = {} => \A i \in Groups(e) : Answer(subs[i], t, FALSE) = "refused"
  OBVIOUS
<1>5. PositionalFor(e, t) # NoOption => Answer(e, t, FALSE) # "refused"
  BY DEF Answer
<1>6. takers # {} => Min(takers) \in takers /\ subs[Min(takers)] \in Apps
  <2> HIDE DEF takers, subs
  <2> QED
    BY <1>1, FirstPlace
<1>7. NoApp \notin Apps
  BY TreeTypes
<1> HIDE DEF takers
<1> QED
  BY <1>2, <1>3, <1>4, <1>5, <1>6, <1>7

\* Who takes a plain word, and what comes of it.
LEMMA PositionalGoesType ==
    ASSUME NEW a \in Apps, NEW t
    PROVE  LET goes == PositionalGoes(a, t)
           IN  /\ goes.at \in Apps
               /\ goes.how = "option" => PositionalFor(goes.at, t) \in Opts(goes.at)
                                         /\ PositionalFor(goes.at, t) \in Options
               /\ goes.how = "subcommand" => t \in Names
<1> DEFINE chain == Chain[a]
           takers == { i \in DOMAIN chain : Taker(chain[i], t) # NoApp }
           taker == Taker(chain[Min(takers)], t)
           halt == Len(chain) > 1 /\ AppOf[chain[Len(chain) - 1]].completes
<1>1. PositionalGoes(a, t) =
        IF takers # {} THEN [how |-> Answer(taker, t, FALSE), at |-> taker]
        ELSE [how |-> Answer(Last(chain), t, halt), at |-> Last(chain)]
  BY DEF PositionalGoes
<1>2. chain \in Seq(Apps) /\ chain # <<>> /\ takers \in SUBSET DOMAIN chain
  BY ChainIs
<1>3. Last(chain) \in Apps
  BY <1>2 DEF Last
<1>4. takers # {} => taker \in Apps
  <2>1. ASSUME takers # {} PROVE Min(takers) \in takers /\ chain[Min(takers)] \in Apps
    <3> HIDE DEF takers, chain
    <3> QED
      BY <1>2, <2>1, FirstPlace
  <2> QED
    BY <2>1, TakerType
<1>5. \A b, h : Answer(b, t, h) = "option" => PositionalFor(b, t) # NoOption
  BY DEF Answer
<1>6. \A b, h : Answer(b, t, h) = "subcommand" => t \in Names
  BY Named DEF Answer, Repeats
<1> DEFINE goes == PositionalGoes(a, t)
<1> HIDE DEF chain, takers, taker, halt
<1>7. /\ goes.at \in Apps
      /\ goes.how = Answer(goes.at, t, FALSE) \/ goes.how = Answer(goes.at, t, halt)
  <2>1. CASE takers # {}
    BY <2>1, <1>1, <1>4
  <2>2. CASE takers = {}
    BY <2>2, <1>1, <1>3
  <2> QED
    BY <2>1, <2>2
<1> HIDE DEF goes
<1> QED
  BY <1>5, <1>6, <1>7, PositionalForType DEF goes

\* Who knows an option at one level.
LEMMA KnowerType ==
    ASSUME NEW e \in Apps, NEW tok
    PROVE  /\ Knower(e, tok) \in Apps \cup {NoApp}
           /\ Knower(e, tok) # NoApp => NamedBy(Knower(e, tok), tok) # {}
<1> DEFINE subs == AppOf[e].subs
           knowers == { i \in Groups(e) : NamedBy(subs[i], tok) # {} }
<1>1. subs \in Seq(Apps) /\ knowers \in SUBSET DOMAIN subs
  BY TreeTypes DEF Groups
<1>2. Knower(e, tok) = IF NamedBy(e, tok) # {} THEN e
                       ELSE IF knowers # {} THEN subs[Min(knowers)] ELSE NoApp
  BY DEF Knower
<1>3. \A i \in knowers : NamedBy(subs[i], tok) # {}
  OBVIOUS
<1>4. knowers # {} => Min(knowers) \in knowers /\ subs[Min(knowers)] \in Apps
  <2> HIDE DEF knowers, subs
  <2> QED
    BY <1>1, FirstPlace
<1> HIDE DEF knowers
<1> QED
  BY <1>2, <1>3, <1>4

\* Where an App of the chain finds an option.
LEMMA PlaceType ==
    ASSUME NEW e \in Apps, NEW tok \in OptionTokens, Place(e, tok).at # NoApp
    PROVE  LET p == Place(e, tok)
           IN  /\ p.at \in Apps /\ NamedBy(p.at, tok) # {}
               /\ p.dot # NoApp => p.dot \in Apps /\ TokenOf[tok].sub \in Names
<1>1. TokenOf[tok].sub = NoApp \/ TokenOf[tok].sub \in Names
  BY Named
<1>2. TokenOf[tok].sub \in Names => TokenOf[tok].sub \in Apps /\ TokenOf[tok].sub # NoApp
  BY Named, TreeTypes
<1>3. CASE TokenOf[tok].sub = NoApp
  BY <1>3, KnowerType DEF Place
<1>4. CASE TokenOf[tok].sub \in Names
  BY <1>2, <1>4, KnowerType DEF Place
<1> QED
  BY <1>1, <1>3, <1>4

\* A dotted option is entered from an App, unless it is found without a dot.
LEMMA FindersType ==
    ASSUME NEW a \in Apps, NEW tok \in OptionTokens, Finders(a, tok) # {}
    PROVE  LET p == Place(Chain[a][Min(Finders(a, tok))], tok)
           IN  /\ p.at \in Apps /\ NamedBy(p.at, tok) # {}
               /\ p.dot # NoApp => p.dot \in Apps /\ TokenOf[tok].sub \in Names
<1> DEFINE chain == Chain[a]
           f == Finders(a, tok)
<1>1. chain \in Seq(Apps) /\ f \in SUBSET DOMAIN chain
  BY ChainIs DEF Finders
<1>2. \A i \in f : Place(chain[i], tok).at # NoApp
  BY DEF Finders
<1>3. Min(f) \in f /\ chain[Min(f)] \in Apps
  <2> HIDE DEF f, chain
  <2> QED
    BY <1>1, FirstPlace DEF f
<1> QED
  BY <1>2, <1>3, PlaceType

\* The option of h that is named.
LEMMA NamedByType ==
    ASSUME NEW h \in Apps, NEW tok \in OptionTokens, NamedBy(h, tok) # {}
    PROVE  LET o == AppOf[h].opts[Min(NamedBy(h, tok))]
           IN  o \in Options /\ HasName(o)
<1>1. AppOf[h].opts \in Seq(Options) /\ NamedBy(h, tok) \in SUBSET DOMAIN AppOf[h].opts
  BY TreeTypes DEF NamedBy
<1>2. \A i \in NamedBy(h, tok) : AppOf[h].opts[i] \in TokenOf[tok].opts
  BY DEF NamedBy
<1>3. /\ Min(NamedBy(h, tok)) \in NamedBy(h, tok)
      /\ AppOf[h].opts[Min(NamedBy(h, tok))] \in Options
  BY <1>1, FirstPlace
<1> QED
  BY <1>2, <1>3 DEF HasName

\* The greatest of some bounded numbers.
LEMMA LastPlace ==
    ASSUME NEW k \in Nat, NEW T \in SUBSET (0..k), T # {}
    PROVE  Max(T) \in T /\ Max(T) \in 0..k
  BY MaxOfRange

LEMMA Parts ==
    ASSUME NEW S, NEW s \in Seq(S), NEW m \in 1..Len(s)+1, NEW n \in 0..Len(s)
    PROVE  /\ SubSeq(s, m, Len(s)) \in Seq(S) /\ SubSeq(s, 1, n) \in Seq(S)
           /\ Len(SubSeq(s, 1, n)) = n /\ Len(SubSeq(s, m, Len(s))) = Len(s) - m + 1
           /\ \A i \in 1..n : SubSeq(s, 1, n)[i] = s[i]
           /\ \A i \in 1..(Len(s) - m + 1) : SubSeq(s, m, Len(s))[i] = s[m - 1 + i]
  BY SubSeqProperties

LEMMA Associative ==
    ASSUME NEW S, NEW a \in Seq(S), NEW b \in Seq(S), NEW c \in Seq(S)
    PROVE  (a \o b) \o c = a \o (b \o c)
  OBVIOUS

LEMMA Joined ==
    ASSUME NEW S, NEW x \in Seq(S), NEW y \in Seq(S), NEW z \in Seq(S),
           Len(z) = Len(x) + Len(y),
           \A i \in 1..Len(x) : z[i] = x[i], \A i \in 1..Len(y) : z[Len(x) + i] = y[i]
    PROVE  x \o y = z
<1>1. /\ x \o y \in Seq(S) /\ Len(x \o y) = Len(x) + Len(y)
      /\ \A i \in 1..Len(x) + Len(y) : (x \o y)[i] = IF i <= Len(x) THEN x[i] ELSE y[i - Len(x)]
  BY ConcatProperties
<1> DEFINE w == x \o y
<1>2. /\ w \in Seq(S) /\ Len(w) = Len(z)
      /\ \A i \in 1..Len(z) : w[i] = IF i <= Len(x) THEN x[i] ELSE y[i - Len(x)]
  BY <1>1
<1> HIDE DEF w
<1>3. ASSUME NEW i \in 1..Len(z) PROVE w[i] = z[i]
  <2>1. CASE i <= Len(x)
    BY <1>2, <2>1
  <2>2. CASE i > Len(x)
    <3>1. i - Len(x) \in 1..Len(y) /\ Len(x) + (i - Len(x)) = i /\ ~(i <= Len(x))
      BY <2>2
    <3> QED
      BY <1>2, <3>1
  <2> QED
    BY <2>1, <2>2
<1> QED
  BY <1>2, <1>3, SeqEqual DEF w

LEMMA Remainder ==
    ASSUME NEW S, NEW rest \in Seq(S), NEW need \in {0, 1}
    PROVE  LET k == Least(need, Len(rest))
               more == SubSeq(rest, need + 1, Len(rest))
           IN  /\ k \in 0..Len(rest) /\ more \in Seq(S) /\ Len(more) = Len(rest) - k
               /\ \A i \in 1..Len(more) : more[i] = rest[k + i]
<1> DEFINE k == Least(need, Len(rest))
           more == SubSeq(rest, need + 1, Len(rest))
<1>1. /\ k \in 0..Len(rest) /\ (k = need \/ (k = 0 /\ need = 1 /\ Len(rest) = 0))
  BY DEF Least
<1>2. \A i \in (need+1)..Len(rest) : rest[i] \in S
  OBVIOUS
<1>3. /\ more \in Seq(S)
      /\ Len(more) = IF need + 1 <= Len(rest) THEN Len(rest) - need ELSE 0
      /\ \A i \in 1..(Len(rest) - need) : more[i] = rest[need + i]
  BY <1>2, SubSeqProperties
<1> HIDE DEF k, more
<1> QED
  BY <1>1, <1>3 DEF k, more

LEMMA TakenInTwo ==
    ASSUME NEW rest \in Seq(Tokens), NEW more \in Seq(Tokens),
           NEW k \in 0..Len(rest), NEW n \in 0..Len(more),
           Len(more) = Len(rest) - k, \A i \in 1..Len(more) : more[i] = rest[k + i]
    PROVE  /\ k + n \in 0..Len(rest)
           /\ SubSeq(rest, 1, k) \in Seq(Tokens) /\ SubSeq(more, 1, n) \in Seq(Tokens)
           /\ SubSeq(rest, 1, k) \o SubSeq(more, 1, n) = SubSeq(rest, 1, k + n)
           /\ SubSeq(more, n + 1, Len(more)) = SubSeq(rest, k + n + 1, Len(rest))
<1>1. k \in Nat /\ n \in Nat /\ Len(rest) \in Nat
  OBVIOUS
<1>2. k + n \in 0..Len(rest)
  BY <1>1
<1> DEFINE x == SubSeq(rest, 1, k)
           y == SubSeq(more, 1, n)
           z == SubSeq(rest, 1, k + n)
           u == SubSeq(more, n + 1, Len(more))
           v == SubSeq(rest, k + n + 1, Len(rest))
<1>3. /\ x \in Seq(Tokens) /\ Len(x) = k /\ \A i \in 1..k : x[i] = rest[i]
      /\ y \in Seq(Tokens) /\ Len(y) = n /\ \A i \in 1..n : y[i] = more[i]
      /\ z \in Seq(Tokens) /\ Len(z) = k + n /\ \A i \in 1..(k+n) : z[i] = rest[i]
  BY <1>1, <1>2, Parts
<1>4. /\ n + 1 \in 1..Len(more)+1 /\ 0 \in 0..Len(more)
      /\ k + n + 1 \in 1..Len(rest)+1 /\ 0 \in 0..Len(rest)
  BY <1>1, <1>2
<1>5. /\ u \in Seq(Tokens) /\ Len(u) = Len(more) - (n + 1) + 1
      /\ \A i \in 1..(Len(more) - (n + 1) + 1) : u[i] = more[n + 1 - 1 + i]
  BY <1>1, <1>4, Parts
<1>6. /\ v \in Seq(Tokens) /\ Len(v) = Len(rest) - (k + n + 1) + 1
      /\ \A i \in 1..(Len(rest) - (k + n + 1) + 1) : v[i] = rest[k + n + 1 - 1 + i]
  BY <1>1, <1>4, Parts
<1> HIDE DEF x, y, z, u, v
<1>7. x \o y = z
  <2>1. ASSUME NEW i \in 1..n PROVE z[k + i] = y[i]
    <3>1. k + i \in 1..(k + n) /\ i \in 1..Len(more)
      BY <1>1
    <3> QED
      BY <1>3, <3>1
  <2>2. /\ x \in Seq(Tokens) /\ y \in Seq(Tokens) /\ z \in Seq(Tokens) /\ Len(z) = Len(x) + Len(y)
        /\ \A i \in 1..Len(x) : z[i] = x[i]
        /\ \A i \in 1..Len(y) : z[Len(x) + i] = y[i]
    BY <1>1, <1>3, <2>1
  <2> QED
    BY <2>2, Joined, Zenon
<1>8. u = v
  <2>1. Len(u) = Len(v)
    BY <1>1, <1>5, <1>6
  <2>2. ASSUME NEW i \in 1..Len(u) PROVE u[i] = v[i]
    <3>1. n + i \in 1..Len(more) /\ k + (n + i) = k + n + 1 - 1 + i /\ n + 1 - 1 + i = n + i
      BY <1>1, <1>5
    <3>2. v[i] = rest[k + n + 1 - 1 + i]
      BY <1>6, <2>1
    <3>3. u[i] = more[n + 1 - 1 + i]
      BY <1>5
    <3> QED
      BY <1>1, <3>1, <3>2, <3>3
  <2> QED
    BY <1>5, <1>6, <2>1, <2>2, SeqEqual
<1> QED
  BY <1>2, <1>3, <1>7, <1>8 DEF x, y, z, u, v

\* What Collected takes from the line, and what it leaves: the arguments are
\* the value the token brings or what stands for a flag, and then the first n
\* tokens of the line; after these the line goes on, perhaps behind a mark.
Took(c, value, rest, inline, n, flag) ==
    /\ inline \in {<<>>, <<Flagged>>} \/ (value \in Words /\ inline = <<value>>)
    /\ flag \in {<<>>, <<Flagged>>}
    /\ c.got = inline \o SubSeq(rest, 1, n) \o flag
    /\ \/ c.left = SubSeq(rest, n + 1, Len(rest))
       \/ /\ SubSeq(rest, n + 1, Len(rest)) # <<>>
          /\ Head(SubSeq(rest, n + 1, Len(rest))) = Mark
          /\ c.left = Tail(SubSeq(rest, n + 1, Len(rest)))
    /\ c.short \/ inline # <<>> \/ n > 0 \/ flag # <<>>

LEMMA CollectedIs ==
    ASSUME NEW h \in Apps, NEW o \in Options, NEW value \in Words \cup {NoValue},
           NEW rest \in Seq(Tokens)
    PROVE  \E inline \in Seq(Got), n \in 0..Len(rest), flag \in Seq(Got) :
                Took(Collected(h, o, value, rest), value, rest, inline, n, flag)
<1> DEFINE d      == OptionOf[o]
           most   == Most(d)
           inline == IF most = 0 THEN <<Flagged>>
                     ELSE IF value # NoValue THEN <<value>> ELSE <<>>
           had    == IF most = 0 THEN 0 ELSE Len(inline)
           need   == IF d.min > 0 /\ had = 0 THEN 1 ELSE 0
           k      == Least(need, Len(rest))
           first  == inline \o SubSeq(rest, 1, k)
           more   == SubSeq(rest, need + 1, Len(rest))
           st     == Given(Ready(Tree, o), o, first)
           open(m) == had + need + m < most \/ d.extra
           eats(i) == /\ open(i - 1)
                      /\ Recognize(h, more[i], FALSE) = "NONE"
                      /\ Remaining(st, h) < Len(more) - (i - 1)
                      /\ AppOf[h].validatesOptional => more[i] \in d.accepts
           eaten  == { m \in 0..Len(more) : \A i \in 1..m : eats(i) }
           n      == Max(eaten)
           after  == SubSeq(more, n + 1, Len(more))
           marked == open(0) /\ after # <<>> /\ Head(after) = Mark
           asFlag == d.min = 0 /\ most > 0 /\ had + n = 0
           flag   == IF asFlag THEN <<Flagged>> ELSE <<>>
           c      == Collected(h, o, value, rest)
<1>1. c = [short |-> need > Len(rest), got |-> first \o SubSeq(more, 1, n) \o flag,
           left |-> IF marked THEN Tail(after) ELSE after]
  BY DEF Collected
<1>2. inline \in {<<>>, <<Flagged>>} \/ (value \in Words /\ inline = <<value>>)
  OBVIOUS
<1>3. <<>> \in Seq(Got) /\ <<Flagged>> \in Seq(Got) /\ \A v \in Words : <<v>> \in Seq(Got)
  BY DEF Got, Tokens
<1>4. flag \in {<<>>, <<Flagged>>}
  OBVIOUS
<1>5. need \in {0, 1}
  OBVIOUS
<1>6. eaten \in SUBSET (0..Len(more))
  OBVIOUS
<1>7. \A i \in 1..0 : eats(i)
  OBVIOUS
<1>8. more \in Seq(Tokens)
  BY <1>5
<1> HIDE DEF inline, flag, need, k, more
<1>9. 0 \in eaten
  <2> HIDE DEF eats
  <2> QED
    BY <1>7, <1>8
<1> HIDE DEF eaten
<1>10. n \in 0..Len(more)
  BY <1>6, <1>8, <1>9, LastPlace
<1> HIDE DEF n
<1> HIDE DEF d, most, had, first, st, open, eats, after, marked, asFlag
<1>11. /\ k + n \in 0..Len(rest)
       /\ SubSeq(rest, 1, k) \in Seq(Tokens) /\ SubSeq(more, 1, n) \in Seq(Tokens)
       /\ SubSeq(rest, 1, k) \o SubSeq(more, 1, n) = SubSeq(rest, 1, k + n)
       /\ after = SubSeq(rest, k + n + 1, Len(rest))
  <2>1. /\ k \in 0..Len(rest) /\ more \in Seq(Tokens) /\ Len(more) = Len(rest) - k
        /\ \A i \in 1..Len(more) : more[i] = rest[k + i]
    BY <1>5, Remainder DEF k, more
  <2>2. /\ k + n \in 0..Len(rest)
        /\ SubSeq(rest, 1, k) \in Seq(Tokens) /\ SubSeq(more, 1, n) \in Seq(Tokens)
        /\ SubSeq(rest, 1, k) \o SubSeq(more, 1, n) = SubSeq(rest, 1, k + n)
        /\ SubSeq(more, n + 1, Len(more)) = SubSeq(rest, k + n + 1, Len(rest))
    BY <1>10, <2>1, TakenInTwo
  <2> QED
    BY <2>2 DEF after
<1>12. first \o SubSeq(more, 1, n) = inline \o SubSeq(rest, 1, k + n)
  <2>1. inline \in Seq(Got)
    BY <1>2, <1>3
  <2>2. SubSeq(rest, 1, k) \in Seq(Got) /\ SubSeq(more, 1, n) \in Seq(Got)
    <3>1. \A q \in Seq(Tokens) : q \in Seq(Got)
      BY DEF Got
    <3> QED
      BY <1>11, <3>1
  <2>3. (inline \o SubSeq(rest, 1, k)) \o SubSeq(more, 1, n)
          = inline \o (SubSeq(rest, 1, k) \o SubSeq(more, 1, n))
    <3> DEFINE x == SubSeq(rest, 1, k)
               y == SubSeq(more, 1, n)
    <3>1. x \in Seq(Got) /\ y \in Seq(Got)
      BY <2>2
    <3> HIDE DEF x, y
    <3>2. (inline \o x) \o y = inline \o (x \o y)
      BY ONLY <2>1, <3>1
    <3> QED
      BY <3>2 DEF x, y
  <2> QED
    BY ONLY <1>11, <2>3 DEF first
<1> HIDE DEF c
<1>13. c.got = inline \o SubSeq(rest, 1, k + n) \o flag
  <2>1. c.got = first \o SubSeq(more, 1, n) \o flag
    BY <1>1
  <2> QED
    BY ONLY <1>12, <2>1
<1>14. c.left = after \/ (after # <<>> /\ Head(after) = Mark /\ c.left = Tail(after))
  <2>1. c.left = IF marked THEN Tail(after) ELSE after
    BY <1>1
  <2> QED
    BY ONLY <2>1 DEF marked
<1>17. c.short \/ inline # <<>> \/ k + n > 0 \/ flag # <<>>
  <2> SUFFICES ASSUME ~c.short, inline = <<>>, ~(k + n > 0) PROVE flag # <<>>
    OBVIOUS
  <2>1. k = 0 /\ n = 0
    BY <1>10, <1>11, Len(rest) \in Nat DEF k, Least
  <2>2. most # 0 /\ had = 0
    BY DEF inline, had
  <2>3. ~(need > Len(rest))
    BY <1>1
  <2>4. need = 0
    BY <1>5, <2>1, <2>3, Len(rest) \in Nat DEF k, Least
  <2>5. d.min \in Nat /\ most \in Nat
    <3>1. OptionOf[o] \in OptionType
      BY TreeAssumption
    <3>2. d.min \in Nat /\ d.max \in Nat
      BY <3>1 DEF d, OptionType
    <3> QED
      BY <3>2 DEF most, Most
  <2>6. d.min = 0
    BY <2>2, <2>4, <2>5 DEF need
  <2> QED
    BY <2>1, <2>2, <2>5, <2>6 DEF flag, asFlag
<1>15. Took(c, value, rest, inline, k + n, flag)
  BY <1>2, <1>4, <1>11, <1>13, <1>14, <1>17 DEF Took
<1>16. inline \in Seq(Got) /\ flag \in Seq(Got)
  BY <1>2, <1>3, <1>4
<1> QED
  BY <1>11, <1>15, <1>16 DEF c

\* Collected keeps to the types.
LEMMA CollectedType ==
    ASSUME NEW h \in Apps, NEW o \in Options, NEW value \in Words \cup {NoValue},
           NEW rest \in Seq(Tokens)
    PROVE  /\ Collected(h, o, value, rest).got \in Seq(Got)
           /\ Collected(h, o, value, rest).left \in Seq(Tokens)
<1> DEFINE c == Collected(h, o, value, rest)
<1>1. PICK inline \in Seq(Got), n \in 0..Len(rest), flag \in Seq(Got) :
        Took(c, value, rest, inline, n, flag)
  BY CollectedIs
<1>2. SubSeq(rest, 1, n) \in Seq(Tokens) /\ SubSeq(rest, n + 1, Len(rest)) \in Seq(Tokens)
  <2>1. n + 1 \in 1..Len(rest)+1
    OBVIOUS
  <2> QED
    BY <2>1, Parts
<1>3. \A q \in Seq(Tokens) : q \in Seq(Got)
  BY DEF Got
<1> DEFINE x == SubSeq(rest, 1, n)
           after == SubSeq(rest, n + 1, Len(rest))
<1> HIDE DEF x, after, c
<1>4. inline \o x \o flag \in Seq(Got)
  BY <1>2, <1>3 DEF x
<1>5. after # <<>> => Tail(after) \in Seq(Tokens)
  BY <1>2 DEF after
<1>6. /\ c.got = inline \o x \o flag
      /\ c.left = after \/ (after # <<>> /\ c.left = Tail(after))
  BY <1>1 DEF Took, x, after
<1>7. after \in Seq(Tokens)
  BY <1>2 DEF after
<1> QED
  BY <1>4, <1>5, <1>6, <1>7 DEF c

\* An option that has what it needs has got something.
LEMMA CollectedSome ==
    ASSUME NEW h \in Apps, NEW o \in Options, NEW value \in Words \cup {NoValue},
           NEW rest \in Seq(Tokens)
    PROVE  Collected(h, o, value, rest).short \/ Collected(h, o, value, rest).got # <<>>
<1> DEFINE c == Collected(h, o, value, rest)
<1>1. PICK inline \in Seq(Got), n \in 0..Len(rest), flag \in Seq(Got) :
        Took(c, value, rest, inline, n, flag)
  BY CollectedIs
<1> DEFINE x == SubSeq(rest, 1, n)
<1>2. x \in Seq(Got) /\ Len(x) = n
  <2>1. x \in Seq(Tokens) /\ Len(x) = n
    BY Parts
  <2> HIDE DEF x
  <2> QED
    BY <2>1 DEF Got
<1> HIDE DEF c, x
<1>3. c.got = inline \o x \o flag
  BY <1>1 DEF Took, x
<1>4. Len(inline \o x \o flag) = Len(inline) + n + Len(flag)
  BY <1>2
<1>5. c.short \/ inline # <<>> \/ n > 0 \/ flag # <<>>
  BY <1>1 DEF Took
<1>6. inline # <<>> \/ n > 0 \/ flag # <<>> => c.got # <<>>
  <2>1. Len(inline) \in Nat /\ Len(flag) \in Nat /\ n \in Nat
    OBVIOUS
  <2>2. (inline # <<>> => Len(inline) > 0) /\ (flag # <<>> => Len(flag) > 0)
    OBVIOUS
  <2>3. SUFFICES ASSUME inline # <<>> \/ n > 0 \/ flag # <<>>, c.got = <<>> PROVE FALSE
    OBVIOUS
  <2>4. Len(c.got) = 0
    BY <2>3
  <2> QED
    BY <1>3, <1>4, <2>1, <2>2, <2>3, <2>4
<1> QED
  BY <1>5, <1>6 DEF c

\* How many tokens are taken along with an option nobody knows.
LEMMA AssumedType ==
    ASSUME NEW a \in Apps, NEW rest \in Seq(Tokens)
    PROVE  Assumed(a, rest) \in 0..Len(rest)
<1> DEFINE fits(i) == Recognize(a, rest[i], FALSE) = "NONE"
           run == { k \in 0..Len(rest) : \A i \in 1..k : fits(i) }
<1>1. 0 \in run /\ run \in SUBSET (0..Len(rest)) /\ Len(rest) \in Nat
  <2> HIDE DEF fits
  <2> QED
    OBVIOUS
<1>2. Max(run) \in 0..Len(rest)
  <2> HIDE DEF run
  <2> QED
    BY <1>1, LastPlace
<1> HIDE DEF run
<1>3. Assumed(a, rest) \in {Len(rest), Least(1, Max(run)), Max(run), 0}
  BY DEF Assumed, run
<1> QED
  BY <1>2, <1>3 DEF Least

-----------------------------------------------------------------------------
(* The stack of activations.                                               *)

\* The root's activation is the first, the others are of subcommands.
Stack(fs) ==
    /\ fs \in Seq(Frame) /\ fs # <<>> /\ fs[1].app = Root
    /\ \A i \in 2..Len(fs) : fs[i].app \in Names

Framed == IF status = "parsing" THEN Stack(frames) ELSE frames = <<>>

LEMMA TopType ==
    ASSUME Stack(frames)
    PROVE  /\ Top \in Frame /\ Top.app \in Apps /\ Top.at \in Apps /\ Top = frames[Len(frames)]
           /\ Len(frames) \in Nat \ {0}
           /\ Len(frames) > 1 => Top.app \in Names
           /\ Len(frames) = 1 => Top.app = Root
<1>1. frames \in Seq(Frame) /\ frames # <<>> /\ Len(frames) \in Nat \ {0}
  BY DEF Stack
<1>2. Top = frames[Len(frames)] /\ Top \in Frame
  BY <1>1 DEF Top, Last
<1>3. \A f \in Frame : f.app \in Apps /\ f.at \in Apps
  BY DEF Frame
<1> QED
  BY <1>1, <1>2, <1>3 DEF Stack

LEMMA RetopStack ==
    ASSUME Stack(frames), NEW f \in Frame, f.app = Top.app
    PROVE  Stack(Retop(f)) /\ Len(Retop(f)) = Len(frames)
           /\ Retop(f)[Len(frames)] = f
           /\ \A i \in 1..Len(frames) : i # Len(frames) => Retop(f)[i] = frames[i]
<1>1. Retop(f) = [frames EXCEPT ![Len(frames)] = f]
  BY DEF Retop
<1>2. frames \in Seq(Frame) /\ Len(frames) \in 1..Len(frames)
  BY DEF Stack
<1>3. /\ Retop(f) \in Seq(Frame) /\ Len(Retop(f)) = Len(frames)
      /\ \A i \in 1..Len(frames) : Retop(f)[i] = IF i = Len(frames) THEN f ELSE frames[i]
  BY <1>1, <1>2, ExceptSeq
<1>4. f.app = frames[Len(frames)].app
  BY TopType
<1>5. \A i \in 1..Len(frames) : Retop(f)[i].app = frames[i].app
  BY <1>3, <1>4
<1> QED
  BY <1>2, <1>3, <1>5 DEF Stack

LEMMA AppendStack ==
    ASSUME NEW fs, Stack(fs), NEW f \in Frame, f.app \in Names
    PROVE  Stack(Append(fs, f)) /\ Append(fs, f)[1] = fs[1]
<1>1. fs \in Seq(Frame) /\ Len(fs) \in Nat \ {0}
  BY DEF Stack
<1>2. /\ Append(fs, f) \in Seq(Frame) /\ Len(Append(fs, f)) = Len(fs) + 1
      /\ \A i \in 1..Len(fs) : Append(fs, f)[i] = fs[i]
      /\ Append(fs, f)[Len(fs) + 1] = f
  BY <1>1, AppendProperties
<1> DEFINE g == Append(fs, f)
<1> HIDE DEF g
<1>3. \A i \in 2..Len(g) : g[i].app \in Names
  BY <1>1, <1>2 DEF Stack, g
<1>4. g[1] = fs[1] /\ g # <<>>
  BY <1>1, <1>2 DEF g
<1> QED
  BY <1>1, <1>2, <1>3, <1>4 DEF Stack, g

LEMMA FrontStack ==
    ASSUME Stack(frames), Len(frames) > 1
    PROVE  Stack(Front(frames)) /\ Front(frames)[1] = frames[1]
           /\ Len(Front(frames)) = Len(frames) - 1
<1>1. frames \in Seq(Frame) /\ Len(frames) - 1 \in 0..Len(frames) /\ 1 \in 1..Len(frames)+1
  BY DEF Stack
<1> DEFINE g == SubSeq(frames, 1, Len(frames) - 1)
<1>2. /\ g \in Seq(Frame) /\ Len(g) = Len(frames) - 1
      /\ \A i \in 1..(Len(frames) - 1) : g[i] = frames[i]
  BY <1>1, Parts
<1>3. Front(frames) = g
  BY DEF Front
<1> HIDE DEF g
<1>4. g[1] = frames[1] /\ g # <<>> /\ \A i \in 2..Len(g) : g[i] = frames[i]
  BY <1>1, <1>2
<1> QED
  BY <1>2, <1>3, <1>4 DEF Stack

LEMMA CalledType ==
    ASSUME NEW a \in Apps, NEW via \in {"command", "positional", "parse"}, NEW at \in Apps
    PROVE  Called(a, via, at) \in Frame /\ Called(a, via, at).app = a
           /\ ~Called(a, via, at).over
  BY DEF Called, Frame

-----------------------------------------------------------------------------
(* TypeOK                                                                  *)

Typed == TypeOK /\ Framed

\* The conjuncts of TypeOK about the tree.
LEMMA TreeTyped == TypeOK => Tree \in TreeType
  BY DEF TypeOK, Tree, TreeType, Got, MissedType

LEMMA TreeTypedAfter ==
    ASSUME Tree' \in TreeType, given' \in Seq(Tokens), args' \in Seq(Tokens),
           status' \in {"idle", "parsing", "done"} \cup Errors,
           IF status' = "parsing" THEN Stack(frames') ELSE frames' = <<>>
    PROVE  Typed'
<1>1. frames' \in Seq(Frame)
  <2>1. CASE status' = "parsing"
    <3>1. Stack(frames')
      BY <2>1
    <3> QED
      BY <3>1 DEF Stack
  <2>2. CASE status' # "parsing"
    <3>1. frames' = <<>>
      BY <2>2
    <3> QED
      BY <3>1
  <2> QED
    BY <2>1, <2>2
<1>2. /\ Tree'.parsed = parsed' /\ Tree'.preParsed = preParsed' /\ Tree'.listed = listed'
      /\ Tree'.missing = missing' /\ Tree'.results = results'
  BY DEF Tree
<1>3. /\ parsed' \in [Apps -> Nat] /\ preParsed' \in [Apps -> BOOLEAN]
      /\ listed' \in [Apps -> Seq(Names)] /\ missing' \in [Apps -> Seq(MissedType)]
      /\ results' \in [Options -> Seq(Got)]
  BY <1>2 DEF TreeType
<1> QED
  BY <1>1, <1>3 DEF Typed, TypeOK, Framed, Got, MissedType

LEMMA TreeKept ==
    ASSUME TypeOK, UNCHANGED tree
    PROVE  Tree' = Tree /\ Tree' \in TreeType
  BY TreeTyped DEF tree, Tree

LEMMA ThrowsTyped ==
    ASSUME NEW error \in Errors, Throws(error), Tree' \in TreeType, given' = given, TypeOK
    PROVE  Typed'
<1>1. status' = error /\ args' = <<>> /\ frames' = <<>>
  BY DEF Throws
<1>2. error # "parsing"
  BY DEF Errors
<1> QED
  BY <1>1, <1>2, TreeTypedAfter DEF TypeOK

\* What a running parser is like.
LEMMA WhileRunning ==
    ASSUME Typed, NEW class, Classified(class)
    PROVE  /\ status = "parsing" /\ Stack(frames) /\ ~Top.over
           /\ args \in Seq(Tokens) /\ args # <<>> /\ Token \in Tokens /\ Tail(args) \in Seq(Tokens)
           /\ Tree \in TreeType /\ given \in Seq(Tokens)
<1>1. status = "parsing" /\ args # <<>> /\ ~Top.over
  BY DEF Classified, Running
<1>2. args \in Seq(Tokens) /\ given \in Seq(Tokens)
  BY DEF Typed, TypeOK
<1> QED
  BY <1>1, <1>2, TreeTyped DEF Typed, Framed, Token

LEMMA BeginParseTyped ==
    ASSUME Typed, BeginParse
    PROVE  Typed'
<1>1. given' \in Seq(Tokens) /\ args' \in Seq(Tokens)
  BY LinesAssumption DEF BeginParse
<1>2. Tree \in TreeType /\ Root \in Apps
  BY TreeTyped, TreeTypes DEF Typed
<1>3. (IF parsed[Root] > 0 THEN Cleared(Tree, Root) ELSE Tree) \in TreeType
  BY <1>2, ClearedType
<1>4. Tree' \in TreeType
  BY <1>2, <1>3, BegunType, BecomesType DEF BeginParse
<1> DEFINE f == Called(Root, "parse", Root)
<1>5. f \in Frame /\ f.app = Root
  BY <1>2, CalledType
<1> HIDE DEF f
<1>6. Stack(<<f>>)
  BY <1>5 DEF Stack
<1>7. status' = "parsing" /\ frames' = <<f>>
  BY DEF BeginParse, f
<1> QED
  BY <1>1, <1>4, <1>6, <1>7, TreeTypedAfter

\* A step of the loop that leaves the activations what they are of.
LEMMA StepTyped ==
    ASSUME Typed, NEW class, Classified(class), given' = given,
           Tree' \in TreeType, args' \in Seq(Tokens), UNCHANGED status, Stack(frames')
    PROVE  Typed'
<1>1. status' = "parsing" /\ given' \in Seq(Tokens)
  BY WhileRunning
<1> QED
  BY <1>1, TreeTypedAfter

LEMMA MissedTyped ==
    ASSUME NEW t \in Tokens, NEW b \in BOOLEAN
    PROVE  Missed(t, b) \in MissedType /\ <<Missed(t, b)>> \in Seq(MissedType)
  BY DEF Missed, MissedType

LEMMA PositionalMarkTyped ==
    ASSUME Typed, PositionalMark
    PROVE  Typed'
<1> DEFINE a == Top.app
           only == [Top EXCEPT !.posOnly = TRUE]
           done == [only EXCEPT !.over = TRUE]
           kept == [Tree EXCEPT !.missing[a] = Append(@, Missed(Mark, TRUE))]
<1>1. Classified("POSITIONAL_MARK") /\ given' = given
  BY DEF PositionalMark
<1>2. /\ Stack(frames) /\ Tree \in TreeType /\ Tail(args) \in Seq(Tokens)
      /\ <<>> \in Seq(Tokens) /\ TypeOK
  BY <1>1, WhileRunning DEF Typed
<1>3. a \in Apps /\ Top \in Frame
  BY <1>2, TopType
<1>4. only \in Frame /\ only.app = Top.app /\ done \in Frame /\ done.app = Top.app
  BY <1>3 DEF Frame
<1>5. Stack(Retop(only)) /\ Stack(Retop(done))
  BY <1>2, <1>4, RetopStack
<1>6. Missed(Mark, TRUE) \in MissedType /\ <<Missed(Mark, TRUE)>> \in Seq(MissedType)
  BY Named, MissedTyped
<1>7. kept \in TreeType
  <2>1. Append(Tree.missing[a], Missed(Mark, TRUE)) \in Seq(MissedType)
    <3>1. Tree.missing[a] \in Seq(MissedType)
      BY <1>2, <1>3, Fields
    <3> QED
      BY <1>6, <3>1, AppendProperties
  <2>2. [Tree.missing EXCEPT ![a] = Append(Tree.missing[a], Missed(Mark, TRUE))]
          \in [Apps -> Seq(MissedType)]
    BY <1>2, <1>3, <2>1, Fields, FunctionChange
  <2> QED
    BY <1>2, <2>2, Fields
<1> HIDE DEF only, done, kept, a
<1>8. CASE Becomes(WithRest(kept, a, Tail(args))) /\ Consumes(<<>>) /\ frames' = Retop(only)
  <2>1. Tree' \in TreeType
    BY <1>2, <1>3, <1>7, <1>8, WithRestType, BecomesType
  <2> QED
    BY <1>1, <1>2, <1>5, <1>8, <2>1, StepTyped DEF Consumes
<1>9. CASE Consumes(Tail(args)) /\ frames' = Retop(done) /\ UNCHANGED tree
  <2>1. Tree' \in TreeType
    BY <1>2, <1>9, TreeKept
  <2> QED
    BY <1>1, <1>2, <1>5, <1>9, <2>1, StepTyped DEF Consumes
<1>10. CASE Throws("ExtrasError") /\ UNCHANGED tree
  <2>1. Tree' \in TreeType
    BY <1>2, <1>10, TreeKept
  <2> QED
    BY <1>1, <1>2, <1>10, <2>1, ThrowsTyped DEF Errors
<1>11. CASE /\ Becomes(Missing(Tree, a, <<Missed(Mark, TRUE)>>))
            /\ Consumes(Tail(args)) /\ frames' = Retop(only)
  <2>1. Tree' \in TreeType
    BY <1>2, <1>3, <1>6, <1>11, MissingType, BecomesType
  <2> QED
    BY <1>1, <1>2, <1>5, <1>11, <2>1, StepTyped DEF Consumes
<1> QED
  BY <1>8, <1>9, <1>10, <1>11 DEF PositionalMark, a, only, done, kept

LEMMA SubcommandTerminatorTyped ==
    ASSUME Typed, SubcommandTerminator
    PROVE  Typed'
<1>1. /\ Classified("SUBCOMMAND_TERMINATOR") /\ given' = given /\ UNCHANGED tree
      /\ args' = Tail(args) /\ UNCHANGED status /\ frames' = Retop(Over)
  BY DEF SubcommandTerminator, Consumes
<1>2. Stack(frames) /\ Tail(args) \in Seq(Tokens) /\ TypeOK
  BY <1>1, WhileRunning DEF Typed
<1>3. Over \in Frame /\ Over.app = Top.app
  BY <1>2, TopType DEF Over, Frame
<1>4. Stack(frames') /\ Tree' \in TreeType
  BY <1>1, <1>2, <1>3, RetopStack, TreeKept
<1> QED
  BY <1>1, <1>2, <1>4, StepTyped

\* A plain word: whoever takes it, the topmost activation stays what it is of.
LEMMA ParsePositionalTyped ==
    ASSUME Typed, NEW class, Classified(class), given' = given,
           NEW accepted \in Frame, NEW declined \in Frame,
           accepted.app = Top.app, declined.app = Top.app,
           ParsePositional(accepted, declined)
    PROVE  Typed'
<1> DEFINE goes == PositionalGoes(Top.app, Token)
<1>1. /\ Stack(frames) /\ Tree \in TreeType /\ Token \in Tokens
      /\ Tail(args) \in Seq(Tokens) /\ TypeOK /\ args \in Seq(Tokens)
  BY WhileRunning DEF Typed
<1>2. Top.app \in Apps /\ Stack(Retop(accepted)) /\ Stack(Retop(declined))
  BY <1>1, TopType, RetopStack
<1>3. /\ goes.at \in Apps
      /\ goes.how = "option" => PositionalFor(goes.at, Token) \in Options
      /\ goes.how = "subcommand" => Token \in Names
  BY <1>2, PositionalGoesType
<1> HIDE DEF goes
<1>4. CASE /\ goes.how = "option"
           /\ \/ /\ Becomes(GroupBegun(Given(Ready(Tree, PositionalFor(goes.at, Token)),
                                           PositionalFor(goes.at, Token), <<Token>>), goes.at))
                 /\ Consumes(Tail(args)) /\ frames' = Retop(accepted)
              \/ /\ Becomes(Given(Ready(Tree, PositionalFor(goes.at, Token)),
                                PositionalFor(goes.at, Token), <<Token>>))
                 /\ Throws("ProcessError")
  <2> DEFINE o == PositionalFor(goes.at, Token)
             st == Given(Ready(Tree, o), o, <<Token>>)
  <2>1. <<Token>> \in Seq(Got)
    BY <1>1 DEF Got
  <2>2. o \in Options
    BY <1>3, <1>4
  <2>3. st \in TreeType /\ GroupBegun(st, goes.at) \in TreeType
    BY <1>1, <1>3, <2>1, <2>2, ReadyType, GivenType, GroupBegunType
  <2> HIDE DEF o, st
  <2>4. \/ Becomes(GroupBegun(st, goes.at)) /\ Consumes(Tail(args)) /\ frames' = Retop(accepted)
        \/ Becomes(st) /\ Throws("ProcessError")
    BY <1>4 DEF o, st
  <2>5. Tree' \in TreeType
    BY <2>3, <2>4, BecomesType
  <2> QED
    BY <1>1, <1>2, <2>4, <2>5, StepTyped, ThrowsTyped DEF Consumes, Errors
<1>5. CASE /\ goes.how = "subcommand"
           /\ Becomes(Begun(Tree, Token)) /\ Consumes(Tail(args))
           /\ frames' = Append(Retop(accepted), Called(Token, "positional", goes.at))
  <2>1. Token \in Names /\ Token \in Apps
    BY <1>3, <1>5, Named
  <2>2. Tree' \in TreeType
    BY <1>1, <1>5, <2>1, BegunType, BecomesType
  <2>3. Stack(frames')
    <3>1. Called(Token, "positional", goes.at) \in Frame
          /\ Called(Token, "positional", goes.at).app = Token
      BY <1>3, <2>1, CalledType
    <3> QED
      BY <1>2, <1>5, <2>1, <3>1, AppendStack
  <2> QED
    BY <1>1, <1>5, <2>2, <2>3, StepTyped DEF Consumes
<1>6. CASE /\ goes.how = "missing"
           /\ LET prefix == AppOf[goes.at].prefix # "Off"
                  st == Missing(Tree, goes.at, <<Missed(Token, FALSE)>>)
              IN  IF RefusesExtras(goes.at)
                  THEN Throws("ExtrasError") /\ UNCHANGED tree
                  ELSE /\ Becomes(IF prefix THEN WithRest(st, goes.at, Tail(args)) ELSE st)
                       /\ Consumes(IF prefix THEN <<>> ELSE Tail(args))
                       /\ frames' = Retop(accepted)
  <2> DEFINE st == Missing(Tree, goes.at, <<Missed(Token, FALSE)>>)
             after == IF AppOf[goes.at].prefix # "Off"
                      THEN WithRest(st, goes.at, Tail(args)) ELSE st
  <2>1. st \in TreeType /\ after \in TreeType
    BY <1>1, <1>3, MissedTyped, MissingType, WithRestType
  <2> HIDE DEF st
  <2>2. CASE Throws("ExtrasError") /\ UNCHANGED tree
    <3>1. Tree' \in TreeType
      BY <1>1, <2>2, TreeKept
    <3> QED
      BY <1>1, <2>2, <3>1, ThrowsTyped DEF Errors
  <2>3. CASE /\ Becomes(after) /\ frames' = Retop(accepted)
             /\ Consumes(IF AppOf[goes.at].prefix # "Off" THEN <<>> ELSE Tail(args))
    <3>1. Tree' \in TreeType
      <4> HIDE DEF after
      <4> QED
        BY <2>1, <2>3, BecomesType
    <3>2. args' \in Seq(Tokens) /\ UNCHANGED status /\ Stack(frames')
      BY <1>1, <1>2, <2>3 DEF Consumes
    <3> QED
      BY <3>1, <3>2, StepTyped
  <2> QED
    BY <1>6, <2>2, <2>3 DEF st
<1>7. CASE goes.how = "refused" /\ frames' = Retop(declined) /\ UNCHANGED <<args, status, tree>>
  <2>1. Tree' \in TreeType
    BY <1>1, <1>7, TreeKept
  <2> QED
    BY <1>1, <1>2, <1>7, <2>1, StepTyped
<1>8. CASE Throws("ExtrasError") /\ UNCHANGED tree
  <2>1. Tree' \in TreeType
    BY <1>1, <1>8, TreeKept
  <2> QED
    BY <1>1, <1>8, <2>1, ThrowsTyped DEF Errors
<1> QED
  BY <1>4, <1>5, <1>6, <1>7, <1>8 DEF ParsePositional, goes

LEMMA PositionalTyped ==
    ASSUME Typed, Positional
    PROVE  Typed'
<1> DEFINE accepted == IF AppOf[Top.app].posAtEnd THEN [Top EXCEPT !.posOnly = TRUE] ELSE Top
<1>1. Classified("NONE") /\ given' = given /\ ParsePositional(accepted, Over)
  BY DEF Positional
<1>2. Top \in Frame
  BY <1>1, WhileRunning, TopType
<1>3. accepted \in Frame /\ accepted.app = Top.app /\ Over \in Frame /\ Over.app = Top.app
  BY <1>2 DEF Frame, Over
<1> HIDE DEF accepted
<1> QED
  BY <1>1, <1>3, ParsePositionalTyped

\* What is called a subcommand is one, or is a dotted word that begins with one.
LEMMA SubcommandToken ==
    ASSUME Classified("SUBCOMMAND")
    PROVE  LET a == Top.app
               dotted == ~Finds(a, Token, TRUE) /\ Token \in DottedWords
           IN  \/ ~dotted /\ Token \in Names
               \/ dotted /\ PathOf[Token].head \in Names /\ PathOf[Token].tail \in Names
<1>1. Recognize(Top.app, Token, TRUE) = "SUBCOMMAND"
  BY DEF Classified
<1>2. ValidSubcommand(Top.app, Token, TRUE) \/ Token \in DottedWords
  BY <1>1 DEF Recognize
<1>3. ValidSubcommand(Top.app, Token, TRUE) => Token \in Names
  BY Named DEF ValidSubcommand
<1>4. Finds(Top.app, Token, TRUE) => Token \in Names
  BY Named
<1> QED
  BY <1>2, <1>3, <1>4, Named

LEMMA SubcommandTyped ==
    ASSUME Typed, Subcommand
    PROVE  Typed'
<1> DEFINE a == Top.app
           dotted == ~Finds(a, Token, TRUE) /\ Token \in DottedWords
           com == IF dotted THEN PathOf[Token].head ELSE Token
           rest == IF dotted THEN <<PathOf[Token].tail>> \o Tail(args) ELSE Tail(args)
<1>1. Classified("SUBCOMMAND") /\ given' = given
  BY DEF Subcommand
<1>2. /\ Stack(frames) /\ Tree \in TreeType /\ Tail(args) \in Seq(Tokens) /\ TypeOK
      /\ args \in Seq(Tokens)
  BY <1>1, WhileRunning DEF Typed
<1>3. a \in Apps /\ Top \in Frame /\ Over \in Frame /\ Over.app = a
  BY <1>2, TopType DEF Over, Frame
<1>4. com \in Names /\ com \in Apps
  BY <1>1, SubcommandToken, Named
<1>5. rest \in Seq(Tokens)
  <2>1. dotted => <<PathOf[Token].tail>> \in Seq(Tokens)
    BY <1>1, SubcommandToken, Named
  <2> HIDE DEF dotted
  <2> QED
    BY <1>2, <2>1
<1>6. \/ ParsePositional(Top, Top)
      \/ /\ Becomes(Begun(Listing(Tree, a, com), com)) /\ Consumes(rest)
         /\ frames' = Append(frames, Called(com, "command", a))
      \/ Throws("HorribleError") /\ UNCHANGED tree
      \/ frames' = Retop(Over) /\ UNCHANGED <<args, status>> /\ UNCHANGED tree
  BY DEF Subcommand
<1> HIDE DEF com, rest, dotted, a
<1>7. CASE ParsePositional(Top, Top)
  BY <1>1, <1>3, <1>7, ParsePositionalTyped
<1>8. CASE /\ Becomes(Begun(Listing(Tree, a, com), com)) /\ Consumes(rest)
           /\ frames' = Append(frames, Called(com, "command", a))
  <2>1. Tree' \in TreeType
    BY <1>2, <1>3, <1>4, <1>8, ListingType, BegunType, BecomesType
  <2>2. Called(com, "command", a) \in Frame /\ Called(com, "command", a).app = com
    BY <1>3, <1>4, CalledType
  <2>3. Stack(frames')
    BY <1>2, <1>4, <1>8, <2>2, AppendStack
  <2> QED
    BY <1>1, <1>5, <1>8, <2>1, <2>3, StepTyped DEF Consumes
<1>9. CASE Throws("HorribleError") /\ UNCHANGED tree
  <2>1. Tree' \in TreeType
    BY <1>2, <1>9, TreeKept
  <2> QED
    BY <1>1, <1>2, <1>9, <2>1, ThrowsTyped DEF Errors
<1>10. CASE frames' = Retop(Over) /\ UNCHANGED <<args, status>> /\ UNCHANGED tree
  <2>1. Tree' \in TreeType /\ Stack(frames')
    BY <1>2, <1>3, <1>10, TreeKept, RetopStack DEF a
  <2> QED
    BY <1>1, <1>2, <1>10, <2>1, StepTyped
<1> QED
  BY <1>6, <1>7, <1>8, <1>9, <1>10

LEMMA UnrecognisedTyped ==
    ASSUME Typed, NEW class, Classified(class), given' = given,
           NEW a \in Apps, NEW n \in 0..Len(Tail(args)), Unrecognised(a, n)
    PROVE  Typed'
<1> DEFINE st == Missing(Tree, a, <<Missed(Token, FALSE)>>)
           more == SubSeq(args, 2, n + 1)
           left == SubSeq(args, n + 2, Len(args))
           after == IF AppOf[a].prefix = "On" THEN WithRest(st, a, more)
                    ELSE Missing(st, a, Unmarked(more))
<1>1. /\ Stack(frames) /\ Tree \in TreeType /\ Token \in Tokens /\ TypeOK
      /\ args \in Seq(Tokens) /\ args # <<>>
  BY WhileRunning DEF Typed
<1>2. more \in Seq(Tokens) /\ left \in Seq(Tokens)
  <2>1. Len(Tail(args)) = Len(args) - 1
    BY <1>1
  <2>2. /\ \A i \in 2..(n + 1) : args[i] \in Tokens
        /\ \A i \in (n + 2)..Len(args) : args[i] \in Tokens
    BY <1>1, <2>1
  <2>3. n + 1 \in Int /\ n + 2 \in Int /\ Len(args) \in Int /\ 2 \in Int
    BY <1>1
  <2> QED
    BY <2>2, <2>3, SubSeqProperties
<1> HIDE DEF more, left
<1>3. st \in TreeType /\ Unmarked(more) \in Seq(MissedType)
  BY <1>1, <1>2, MissedTyped, MissingType, UnmarkedType
<1> HIDE DEF st
<1>4. after \in TreeType
  BY <1>2, <1>3, MissingType, WithRestType
<1> HIDE DEF after
<1>5. CASE Throws("ExtrasError") /\ UNCHANGED tree
  <2>1. Tree' \in TreeType
    BY <1>1, <1>5, TreeKept
  <2> QED
    BY <1>1, <1>5, <2>1, ThrowsTyped DEF Errors
<1>6. CASE Becomes(after) /\ Consumes(left) /\ frames' = frames
  <2>1. Tree' \in TreeType
    BY <1>4, <1>6, BecomesType
  <2> QED
    BY <1>1, <1>2, <1>6, <2>1, StepTyped DEF Consumes
<1> QED
  BY <1>5, <1>6 DEF Unrecognised, st, more, left, after

LEMMA TakeOptionTyped ==
    ASSUME Typed, Classified("OPTION"), given' = given, Token \in OptionTokens,
           NEW h \in Apps, NamedBy(h, Token) # {},
           NEW dot \in Apps \cup {NoApp}, dot # NoApp => TokenOf[Token].sub \in Names,
           TakeOption(h, dot)
    PROVE  Typed'
<1> DEFINE o == AppOf[h].opts[Min(NamedBy(h, Token))]
           sub == TokenOf[Token].sub
           c == Collected(h, o, TokenOf[Token].value, Tail(args))
           st == Given(Ready(Tree, o), o, c.got)
           after == IF dot = NoApp THEN GroupBegun(st, h)
                    ELSE Begun(Listing(GroupBegun(st, h), dot, sub), dot)
<1>1. /\ Stack(frames) /\ Tree \in TreeType /\ Tail(args) \in Seq(Tokens) /\ TypeOK
  BY WhileRunning DEF Typed
<1>2. o \in Options /\ TokenOf[Token].value \in Words \cup {NoValue}
  BY Named, NamedByType
<1> HIDE DEF o
<1>3. c.got \in Seq(Got) /\ c.left \in Seq(Tokens)
  BY <1>1, <1>2, CollectedType
<1> HIDE DEF c
<1>4. st \in TreeType
  BY <1>1, <1>2, <1>3, ReadyType, GivenType
<1> HIDE DEF st
<1>5. after \in TreeType
  <2>1. CASE dot = NoApp
    BY <1>4, <2>1, GroupBegunType
  <2>2. CASE dot # NoApp
    BY <1>4, <2>2, GroupBegunType, ListingType, BegunType
  <2> QED
    BY <2>1, <2>2
<1>6. \/ Becomes(st) /\ (Throws("ArgumentMismatch") \/ Throws("ProcessError"))
      \/ /\ Becomes(after)
         /\ \/ Consumes(c.left) /\ frames' = frames
            \/ Throws("ProcessError")
  BY DEF TakeOption, o, c, st
<1> HIDE DEF after
<1>7. CASE Becomes(st) /\ (Throws("ArgumentMismatch") \/ Throws("ProcessError"))
  BY <1>1, <1>4, <1>7, BecomesType, ThrowsTyped DEF Errors
<1>8. CASE Becomes(after) /\ Consumes(c.left) /\ frames' = frames
  <2>1. Tree' \in TreeType
    BY <1>5, <1>8, BecomesType
  <2> QED
    BY <1>1, <1>3, <1>8, <2>1, StepTyped DEF Consumes
<1>9. CASE Becomes(after) /\ Throws("ProcessError")
  BY <1>1, <1>5, <1>9, BecomesType, ThrowsTyped DEF Errors
<1> QED
  BY <1>6, <1>7, <1>8, <1>9

\* Who has the option is looked for along the chain.
LEMMA ArgumentCases ==
    ASSUME Typed, Argument
    PROVE  /\ Classified("OPTION") /\ given' = given /\ Token \in OptionTokens
           /\ \/ \E a \in Apps, n \in 0..Len(Tail(args)) : Unrecognised(a, n)
              \/ \E h \in Apps, dot \in Apps \cup {NoApp} :
                    /\ NamedBy(h, Token) # {}
                    /\ dot # NoApp => TokenOf[Token].sub \in Names
                    /\ TakeOption(h, dot)
<1>1. Classified("OPTION") /\ given' = given
  BY DEF Argument
<1>2. Top.app \in Apps /\ Tail(args) \in Seq(Tokens)
  BY <1>1, WhileRunning, TopType
<1>3. Token \in OptionTokens
  <2>1. Recognize(Top.app, Token, TRUE) = "OPTION"
    BY <1>1 DEF Classified
  <2> QED
    BY <2>1 DEF Recognize
<1> DEFINE chain == Chain[Top.app]
           finders == Finders(Top.app, Token)
           place == Place(chain[Min(finders)], Token)
<1>4. CASE finders = {}
  <2>0. chain \in Seq(Apps) /\ chain # <<>>
    BY <1>2, ChainIs
  <2>1. Last(chain) \in Apps
    <3> HIDE DEF chain
    <3> QED
      BY <2>0 DEF Last
  <2>2. Assumed(Last(chain), Tail(args)) \in 0..Len(Tail(args))
    BY <1>2, <2>1, AssumedType
  <2>3. Unrecognised(Last(chain), Assumed(Last(chain), Tail(args)))
    BY <1>4 DEF Argument
  <2> QED
    BY <1>1, <1>3, <2>1, <2>2, <2>3
<1>5. CASE finders # {}
  <2>1. /\ place.at \in Apps /\ NamedBy(place.at, Token) # {}
        /\ place.dot # NoApp => place.dot \in Apps /\ TokenOf[Token].sub \in Names
    BY <1>2, <1>3, <1>5, FindersType
  <2>2. TakeOption(place.at, place.dot)
    BY <1>5 DEF Argument
  <2> HIDE DEF place
  <2> QED
    BY <1>1, <1>3, <2>1, <2>2
<1> QED
  BY <1>4, <1>5

LEMMA ArgumentTyped ==
    ASSUME Typed, Argument
    PROVE  Typed'
  BY ArgumentCases, UnrecognisedTyped, TakeOptionTyped

LEMMA EndSubcommandTyped ==
    ASSUME Typed, EndSubcommand
    PROVE  Typed'
<1> DEFINE com == Top.app
           up == Parent(com)
           after == IF Top.via = "positional" THEN GroupBegun(Tree, Top.at)
                    ELSE IF up # Top.at THEN Listing(PreParsed(Tree, up), up, com)
                    ELSE Tree
<1>1. status = "parsing" /\ Len(frames) > 1 /\ given' = given
  BY DEF EndSubcommand, Ended
<1>2. /\ Stack(frames) /\ Tree \in TreeType /\ TypeOK
      /\ given \in Seq(Tokens) /\ args \in Seq(Tokens)
  BY <1>1, TreeTyped DEF Typed, Framed, TypeOK
<1>3. com \in Names /\ Top.at \in Apps /\ up \in Apps
  BY <1>1, <1>2, TopType, Named
<1>4. after \in TreeType
  <2>1. PreParsed(Tree, up) \in TreeType /\ GroupBegun(Tree, Top.at) \in TreeType
    BY <1>2, <1>3, PreParsedType, GroupBegunType
  <2>2. Listing(PreParsed(Tree, up), up, com) \in TreeType
    BY <1>3, <2>1, ListingType
  <2> QED
    BY <1>2, <2>1, <2>2
<1>5. \/ Becomes(after) /\ frames' = Front(frames) /\ UNCHANGED <<args, status>>
      \/ Throws("ProcessError") /\ UNCHANGED tree
  BY DEF EndSubcommand
<1> HIDE DEF after
<1>6. CASE Becomes(after) /\ frames' = Front(frames) /\ UNCHANGED <<args, status>>
  <2>1. Tree' \in TreeType /\ Stack(frames')
    BY <1>1, <1>2, <1>4, <1>6, BecomesType, FrontStack
  <2> QED
    BY <1>1, <1>2, <1>6, <2>1, TreeTypedAfter
<1>7. CASE Throws("ProcessError") /\ UNCHANGED tree
  <2>1. Tree' \in TreeType
    BY <1>2, <1>7, TreeKept
  <2> QED
    BY <1>1, <1>2, <1>7, <2>1, ThrowsTyped DEF Errors
<1> QED
  BY <1>5, <1>6, <1>7

LEMMA EndParseTyped ==
    ASSUME Typed, EndParse
    PROVE  Typed'
<1>1. given' = given /\ UNCHANGED tree
  BY DEF EndParse
<1>2. TypeOK /\ Tree' \in TreeType /\ given \in Seq(Tokens) /\ args \in Seq(Tokens)
  BY <1>1, TreeKept DEF Typed, TypeOK
<1>3. \/ Throws("ProcessError") \/ Throws("ExtrasError")
      \/ status' = "done" /\ frames' = <<>> /\ UNCHANGED args
  BY DEF EndParse
<1>4. CASE Throws("ProcessError") \/ Throws("ExtrasError")
  BY <1>1, <1>2, <1>4, ThrowsTyped DEF Errors
<1>5. CASE status' = "done" /\ frames' = <<>> /\ UNCHANGED args
  BY <1>1, <1>2, <1>5, TreeTypedAfter
<1> QED
  BY <1>3, <1>4, <1>5

LEMMA InitTyped == Init => Typed
<1> SUFFICES ASSUME Init PROVE Typed
  OBVIOUS
<1>1. Untouched \in TreeType
  <2>1. <<>> \in Seq(Names) /\ <<>> \in Seq(MissedType) /\ <<>> \in Seq(Got)
    OBVIOUS
  <2> QED
    BY <2>1 DEF Untouched, TreeType
<1>2. /\ parsed \in [Apps -> Nat] /\ preParsed \in [Apps -> BOOLEAN]
      /\ listed \in [Apps -> Seq(Names)] /\ missing \in [Apps -> Seq(MissedType)]
      /\ results \in [Options -> Seq(Got)]
  BY <1>1, Fields DEF Init
<1>3. /\ given \in Seq(Tokens) /\ args \in Seq(Tokens) /\ frames \in Seq(Frame)
      /\ frames = <<>> /\ status = "idle"
  BY DEF Init
<1> QED
  BY <1>2, <1>3 DEF Typed, TypeOK, Framed, Got, MissedType

LEMMA NextTyped == Typed /\ [Next]_vars => Typed'
<1> SUFFICES ASSUME Typed, [Next]_vars PROVE Typed'
  OBVIOUS
<1>1. CASE UNCHANGED vars
  BY <1>1 DEF vars, Typed, TypeOK, Framed, Stack
<1> QED
  BY <1>1, BeginParseTyped, PositionalMarkTyped, SubcommandTerminatorTyped, SubcommandTyped,
     ArgumentTyped, PositionalTyped, EndSubcommandTyped, EndParseTyped
  DEF Next, ParserStep

\* The type invariant; with it, that while a parse runs the first activation is
\* the root's and all others are of subcommands.
THEOREM CommandLineTyped == Spec => []TypeOK
<1>1. Spec => []Typed
  BY InitTyped, NextTyped, PTL DEF Spec
<1>2. Typed => TypeOK
  BY DEF Typed
<1> QED
  BY <1>1, <1>2, PTL

-----------------------------------------------------------------------------
(* NoHorribleError                                                         *)

\* What the root recognises as a subcommand it finds itself: it has no parent
\* the look could go on to.
LEMMA RootFindsSubcommand ==
    ASSUME Classified("SUBCOMMAND"), Top.app = Root
    PROVE  LET dotted == ~Finds(Root, Token, TRUE) /\ Token \in DottedWords
               com == IF dotted THEN PathOf[Token].head ELSE Token
           IN  Finds(Root, com, TRUE)
<1>1. Recognize(Root, Token, TRUE) = "SUBCOMMAND"
  BY DEF Classified
<1>2. \/ ValidSubcommand(Root, Token, TRUE)
      \/ Token \in DottedWords /\ Finds(Root, PathOf[Token].head, TRUE)
  BY <1>1 DEF Recognize
<1>3. ValidSubcommand(Root, Token, TRUE) => Finds(Root, Token, TRUE)
  BY SubcommandPathIs DEF ValidSubcommand
<1> QED
  BY <1>2, <1>3

\* No activation is of an App without a parent except the root's.
LEMMA OnlyRootHasNoParent ==
    ASSUME NEW a \in Apps, Parent(a) = NoApp
    PROVE  a = Root
  BY Parents, TreeTypes

LEMMA NextNoHorribleError == Typed /\ NoHorribleError /\ [Next]_vars => NoHorribleError'
<1> SUFFICES ASSUME Typed, NoHorribleError, [Next]_vars, status' = "HorribleError"
             PROVE  FALSE
  BY DEF NoHorribleError
<1>1. status' # status
  BY DEF NoHorribleError
<1>2. \A a, b : ~(ParsePositional(a, b) /\ status' = "HorribleError")
  <2> SUFFICES ASSUME NEW a, NEW b, ParsePositional(a, b) PROVE FALSE
    OBVIOUS
  <2> QED
    BY <1>1 DEF ParsePositional, Throws, Consumes
<1>3. ~BeginParse /\ ~PositionalMark /\ ~SubcommandTerminator /\ ~EndSubcommand /\ ~EndParse
  BY <1>1 DEF BeginParse, PositionalMark, SubcommandTerminator, EndSubcommand, EndParse,
              Throws, Consumes
<1>4. ~Positional
  BY <1>2 DEF Positional
<1>5. ~Argument
  BY <1>1 DEF Argument, Unrecognised, TakeOption, Throws, Consumes
<1>6. Subcommand
  BY <1>1, <1>3, <1>4, <1>5 DEF Next, ParserStep, vars
<1>7. Classified("SUBCOMMAND") /\ Top.app \in Apps
  BY <1>6, WhileRunning, TopType DEF Subcommand
<1> DEFINE a == Top.app
           dotted == ~Finds(a, Token, TRUE) /\ Token \in DottedWords
           com == IF dotted THEN PathOf[Token].head ELSE Token
<1>8. ~Finds(a, com, TRUE) /\ Parent(a) = NoApp
  BY <1>1, <1>2, <1>6 DEF Subcommand, Throws, Consumes
<1> QED
  BY <1>7, <1>8, OnlyRootHasNoParent, RootFindsSubcommand

\* _parse_subcommand finds what _recognize called a subcommand, whatever the
\* tree of Apps: HorribleError is never thrown.
THEOREM NeverHorrible == Spec => []NoHorribleError
<1>1. Init => NoHorribleError
  BY DEF Init, NoHorribleError
<1> QED
  BY <1>1, InitTyped, NextTyped, NextNoHorribleError, PTL DEF Spec
=============================================================================
