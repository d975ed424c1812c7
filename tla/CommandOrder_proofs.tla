-------------------------- MODULE CommandOrder_proofs --------------------------
(***************************************************************************)
(* Theorems about who gets the tokens of a command line: the loop over     *)
(* them is not left early, options keep what they were given, positionals  *)
(* fill in the order they were declared, and no plain word is lost or used *)
(* twice.  For the last, books are kept: the occurrences of a word in the  *)
(* line are those in what is left of it and those in the tree, added up    *)
(* over every option and every App (Booked).  Each call that changes the   *)
(* tree adds a number of occurrences to it (Adds), and each step takes     *)
(* that many from what is left (Moves).                                    *)
(***************************************************************************)
EXTENDS CommandLine_proofs

-----------------------------------------------------------------------------
(* TopLevelNeverBreaks                                                     *)

\* Whatever the root is asked to take as a positional it takes, lists as
\* missing or throws at: a subcommand of one of its groups is not left to
\* somebody else, because the group takes it.
LEMMA RootNeverRefuses ==
    ASSUME NEW t
    PROVE  PositionalGoes(Root, t).how # "refused"
<1> DEFINE chain == Chain[Root]
           takers == { i \in DOMAIN chain : Taker(chain[i], t) # NoApp }
           taker == Taker(Root, t)
           halt == Len(chain) > 1 /\ AppOf[chain[Len(chain) - 1]].completes
           goes == PositionalGoes(Root, t)
<1>1. Root \in Apps /\ Parent(Root) = NoApp /\ ~IsGroup(Root)
  BY Parents, TreeTypes
<1>2. chain = <<Root>> /\ Len(chain) = 1 /\ chain[1] = Root /\ Last(chain) = Root
  <2>1. chain = <<Root>>
    BY <1>1, ChainIs
  <2> HIDE DEF chain
  <2> QED
    BY <2>1 DEF Last
<1>3. takers = IF taker # NoApp THEN {1} ELSE {}
  <2> HIDE DEF chain
  <2> QED
    BY <1>2
<1>4. Min({1}) = 1
  BY MinOfNats
<1>5. /\ takers # {} => goes.how = Answer(Taker(chain[Min(takers)], t), t, FALSE)
      /\ takers = {} => goes.how = Answer(Last(chain), t, halt)
  BY DEF PositionalGoes
<1>8. ~halt
  <2> HIDE DEF chain
  <2> QED
    BY <1>2
<1> HIDE DEF chain, takers, halt, goes
<1>7. CASE taker # NoApp
  <2>1. goes.how = Answer(taker, t, FALSE)
    BY <1>2, <1>3, <1>4, <1>5, <1>7 DEF taker
  <2> QED
    BY <1>1, <1>7, <2>1, TakerType DEF taker, goes
<1>6. CASE taker = NoApp
  <2>0. goes.how = Answer(Root, t, halt)
    BY <1>2, <1>3, <1>5, <1>6
  <2> SUFFICES ASSUME Answer(Root, t, halt) = "refused" PROVE FALSE
    BY <2>0 DEF goes
  <2>1. ~Repeats(Root, t) /\ Elsewhere(Root, t)
    BY <1>1, <1>8 DEF Answer
  <2>2. /\ t \in Names /\ ~AppOf[t].disabled /\ Parent(t) \in Level(Root)
        /\ ~Full(Parent(t)) /\ Parent(t) # Root
    BY <1>1, <2>1 DEF Elsewhere, Repeats, Finds, Reach
  <2>3. PICK i \in Groups(Root) : Parent(t) = AppOf[Root].subs[i]
    BY <2>2 DEF Level
  <2>4. Answer(Parent(t), t, FALSE) = "refused"
    BY <1>1, <1>6, <2>3, TakerType DEF taker
  <2>5. Repeats(Parent(t), t)
    BY <2>2 DEF Repeats, Finds, Reach, Level
  <2> QED
    BY <2>4, <2>5 DEF Answer
<1> QED
  BY <1>6, <1>7

\* The first activation is over only if the topmost one is the first.
LEMMA RetopFirst ==
    ASSUME Stack(frames), ~frames[1].over, NEW f \in Frame, f.app = Top.app,
           Top.app = Root => ~f.over
    PROVE  ~Retop(f)[1].over
<1>1. /\ Len(frames) \in Nat \ {0}
      /\ Len(frames) > 1 => Top.app \in Names
      /\ Len(frames) = 1 => Top.app = Root
  BY TopType
<1>2. /\ Retop(f)[Len(frames)] = f
      /\ \A i \in 1..Len(frames) : i # Len(frames) => Retop(f)[i] = frames[i]
  BY RetopStack
<1>3. CASE Len(frames) = 1
  BY <1>1, <1>2, <1>3
<1>4. CASE Len(frames) > 1
  BY <1>1, <1>2, <1>4
<1>5. \A n \in Nat \ {0} : n = 1 \/ n > 1
  OBVIOUS
<1> QED
  BY <1>1, <1>3, <1>4, <1>5

\* A frame that was not over and is still not.
LEMMA NotOver ==
    ASSUME Stack(frames), ~Top.over
    PROVE  /\ Top \in Frame /\ Over \in Frame /\ Over.app = Top.app
           /\ LET only == [Top EXCEPT !.posOnly = TRUE]
              IN  /\ only \in Frame /\ only.app = Top.app /\ ~only.over
                  /\ [only EXCEPT !.over = TRUE] \in Frame
                  /\ [only EXCEPT !.over = TRUE].app = Top.app
  BY TopType DEF Over, Frame

\* What TopLevelNeverBreaks asks of a state, when nothing is done yet.
LEMMA NotYetDone ==
    ASSUME status' # "done", frames' # <<>> => ~frames'[1].over
    PROVE  TopLevelNeverBreaks'
  BY DEF TopLevelNeverBreaks

LEMMA ThrowsNeverBreaks ==
    ASSUME NEW error \in Errors, Throws(error)
    PROVE  TopLevelNeverBreaks'
<1>1. status' # "done" /\ frames' = <<>>
  BY DEF Throws, Errors
<1> QED
  BY <1>1, NotYetDone

LEMMA ParsePositionalNeverBreaks ==
    ASSUME Typed, TopLevelNeverBreaks, NEW class, Classified(class),
           NEW accepted \in Frame, accepted.app = Top.app, ~accepted.over,
           NEW declined \in Frame, declined.app = Top.app,
           ParsePositional(accepted, declined)
    PROVE  TopLevelNeverBreaks'
<1> DEFINE goes == PositionalGoes(Top.app, Token)
<1>1. status = "parsing" /\ Stack(frames) /\ ~Top.over
  BY WhileRunning
<1>2. ~frames[1].over /\ frames # <<>>
  BY <1>1 DEF TopLevelNeverBreaks, Stack
<1>3. ~Retop(accepted)[1].over /\ Stack(Retop(accepted))
  BY <1>1, <1>2, RetopFirst, RetopStack
<1>4. /\ goes.at \in Apps
      /\ goes.how = "subcommand" => Token \in Names /\ Token \in Apps
  BY <1>1, TopType, PositionalGoesType, Named
<1> HIDE DEF goes
<1>5. CASE frames' = Retop(accepted) /\ UNCHANGED status
  BY <1>1, <1>3, <1>5, NotYetDone
<1>6. CASE /\ goes.how = "subcommand" /\ UNCHANGED status
           /\ frames' = Append(Retop(accepted), Called(Token, "positional", goes.at))
  <2>1. Called(Token, "positional", goes.at) \in Frame
        /\ Called(Token, "positional", goes.at).app = Token
    BY <1>4, <1>6, CalledType
  <2>2. frames'[1] = Retop(accepted)[1]
    BY <1>3, <1>4, <1>6, <2>1, AppendStack
  <2> QED
    BY <1>1, <1>3, <1>6, <2>2, NotYetDone
<1>7. CASE goes.how = "refused" /\ frames' = Retop(declined) /\ UNCHANGED status
  <2>1. Top.app # Root
    BY <1>7, RootNeverRefuses DEF goes
  <2>2. ~Retop(declined)[1].over
    BY <1>1, <1>2, <2>1, RetopFirst
  <2> QED
    BY <1>1, <1>7, <2>2, NotYetDone
<1>8. CASE Throws("ExtrasError") \/ Throws("ProcessError")
  BY <1>8, ThrowsNeverBreaks DEF Errors
<1> QED
  BY <1>5, <1>6, <1>7, <1>8 DEF ParsePositional, goes, Consumes

LEMMA NextNeverBreaks == Typed /\ TopLevelNeverBreaks /\ [Next]_vars => TopLevelNeverBreaks'
<1> SUFFICES ASSUME Typed, TopLevelNeverBreaks, [Next]_vars PROVE TopLevelNeverBreaks'
  OBVIOUS
<1>1. CASE UNCHANGED vars
  BY <1>1 DEF vars, TopLevelNeverBreaks
<1>2. CASE BeginParse
  <2>1. status' = "parsing" /\ frames' = <<Called(Root, "parse", Root)>>
    BY <1>2 DEF BeginParse
  <2> QED
    BY <2>1, NotYetDone DEF Called
<1> DEFINE a == Top.app
           only == [Top EXCEPT !.posOnly = TRUE]
           done == [only EXCEPT !.over = TRUE]
<1>3. ASSUME NEW class, Classified(class)
      PROVE  /\ status = "parsing" /\ Stack(frames) /\ ~Top.over /\ ~frames[1].over
             /\ a \in Apps /\ frames # <<>>
             /\ Parent(a) # NoApp => a # Root
    <2>1. status = "parsing" /\ Stack(frames) /\ ~Top.over
      BY <1>3, WhileRunning
    <2>2. frames # <<>>
      BY <2>1 DEF Stack
    <2> QED
      BY <2>1, <2>2, TopType, Parents DEF TopLevelNeverBreaks
<1>4. CASE PositionalMark
  <2>1. Classified("POSITIONAL_MARK")
    BY <1>4 DEF PositionalMark
  <2>2. /\ only \in Frame /\ only.app = Top.app /\ ~only.over
        /\ done \in Frame /\ done.app = Top.app
    BY <1>3, <2>1, NotOver
  <2> HIDE DEF only, done
  <2>3. \/ frames' = Retop(only) /\ UNCHANGED status
        \/ Parent(a) # NoApp /\ frames' = Retop(done) /\ UNCHANGED status
        \/ Throws("ExtrasError")
    BY <1>4 DEF PositionalMark, Consumes, only, done
  <2>4. ~Retop(only)[1].over /\ (Parent(a) # NoApp => ~Retop(done)[1].over)
    BY <1>3, <2>1, <2>2, RetopFirst
  <2> QED
    BY <1>3, <2>1, <2>3, <2>4, NotYetDone, ThrowsNeverBreaks DEF Errors
<1>5. CASE SubcommandTerminator
  <2>1. /\ Classified("SUBCOMMAND_TERMINATOR") /\ frames' = Retop(Over) /\ UNCHANGED status
    BY <1>5 DEF SubcommandTerminator, Consumes
  <2>2. Parent(a) # NoApp
    <3>1. Recognize(a, Token, TRUE) = "SUBCOMMAND_TERMINATOR"
      BY <2>1 DEF Classified
    <3> QED
      BY <3>1 DEF Recognize
  <2>3. ~Retop(Over)[1].over
    BY <1>3, <2>1, <2>2, NotOver, RetopFirst
  <2> QED
    BY <1>3, <2>1, <2>3, NotYetDone
<1>6. CASE Subcommand
  <2> DEFINE dotted == ~Finds(a, Token, TRUE) /\ Token \in DottedWords
             com == IF dotted THEN PathOf[Token].head ELSE Token
  <2>1. Classified("SUBCOMMAND")
    BY <1>6 DEF Subcommand
  <2>2. com \in Names /\ com \in Apps
    BY <2>1, SubcommandToken, Named
  <2>3. \/ ParsePositional(Top, Top)
        \/ frames' = Append(frames, Called(com, "command", a)) /\ UNCHANGED status
        \/ Throws("HorribleError")
        \/ Parent(a) # NoApp /\ frames' = Retop(Over) /\ UNCHANGED status
    BY <1>6 DEF Subcommand, Consumes
  <2> HIDE DEF com
  <2>4. CASE ParsePositional(Top, Top)
    BY <1>3, <2>1, <2>4, NotOver, ParsePositionalNeverBreaks
  <2>5. CASE frames' = Append(frames, Called(com, "command", a)) /\ UNCHANGED status
    <3>1. Called(com, "command", a) \in Frame /\ Called(com, "command", a).app = com
      BY <1>3, <2>1, <2>2, CalledType
    <3>2. frames'[1] = frames[1]
      BY <1>3, <2>1, <2>2, <2>5, <3>1, AppendStack
    <3> QED
      BY <1>3, <2>1, <2>5, <3>2, NotYetDone
  <2>6. CASE Throws("HorribleError")
    BY <2>6, ThrowsNeverBreaks DEF Errors
  <2>7. CASE Parent(a) # NoApp /\ frames' = Retop(Over) /\ UNCHANGED status
    <3>1. ~Retop(Over)[1].over
      BY <1>3, <2>1, <2>7, NotOver, RetopFirst
    <3> QED
      BY <1>3, <2>1, <2>7, <3>1, NotYetDone
  <2> QED
    BY <2>3, <2>4, <2>5, <2>6, <2>7
<1>7. CASE Argument
  <2>1. Classified("OPTION")
    BY <1>7 DEF Argument
  <2>2. \/ frames' = frames /\ UNCHANGED status
        \/ Throws("ExtrasError") \/ Throws("ArgumentMismatch") \/ Throws("ProcessError")
    BY <1>7 DEF Argument, Unrecognised, TakeOption, Consumes
  <2> QED
    BY <1>3, <2>1, <2>2, NotYetDone, ThrowsNeverBreaks DEF Errors
<1>8. CASE Positional
  <2> DEFINE accepted == IF AppOf[a].posAtEnd THEN only ELSE Top
  <2>1. Classified("NONE") /\ ParsePositional(accepted, Over)
    BY <1>8 DEF Positional
  <2>2. accepted \in Frame /\ accepted.app = Top.app /\ ~accepted.over
        /\ Over \in Frame /\ Over.app = Top.app
    <3>1. /\ only \in Frame /\ only.app = Top.app /\ ~only.over /\ Top \in Frame /\ ~Top.over
          /\ Over \in Frame /\ Over.app = Top.app
      BY <1>3, <2>1, NotOver
    <3> HIDE DEF only
    <3> QED
      BY <3>1
  <2> HIDE DEF accepted
  <2> QED
    BY <2>1, <2>2, ParsePositionalNeverBreaks
<1>9. CASE EndSubcommand
  <2>1. /\ status = "parsing" /\ Len(frames) > 1
        /\ \/ frames' = Front(frames) /\ UNCHANGED status
           \/ Throws("ProcessError")
    BY <1>9 DEF EndSubcommand, Ended
  <2>2. Stack(frames) /\ frames # <<>> /\ ~frames[1].over
    BY <2>1 DEF Typed, Framed, Stack, TopLevelNeverBreaks
  <2>3. Front(frames)[1] = frames[1]
    BY <2>1, <2>2, FrontStack
  <2> QED
    BY <2>1, <2>2, <2>3, NotYetDone, ThrowsNeverBreaks DEF Errors
<1>10. CASE EndParse
  <2>1. /\ status = "parsing" /\ Len(frames) = 1 /\ (Top.over \/ args = <<>>)
        /\ \/ status' = "done" /\ frames' = <<>> /\ UNCHANGED args
           \/ Throws("ProcessError")
           \/ Throws("ExtrasError")
    BY <1>10 DEF EndParse, Ended
  <2>2. ~Top.over
    BY <2>1, TopType DEF Typed, Framed, Stack, TopLevelNeverBreaks
  <2> QED
    BY <2>1, <2>2, ThrowsNeverBreaks DEF Errors, TopLevelNeverBreaks
<1> QED
  BY <1>1, <1>2, <1>4, <1>5, <1>6, <1>7, <1>8, <1>9, <1>10 DEF Next, ParserStep

\* _parse_single never returns false at the top level: the loop of the root's
\* _parse is not left before the command line is used up.
THEOREM LoopNotLeftEarly == Spec => []TopLevelNeverBreaks
<1>1. Init => TopLevelNeverBreaks
  BY DEF Init, TopLevelNeverBreaks
<1> QED
  BY <1>1, InitTyped, NextTyped, NextNeverBreaks, PTL DEF Spec

-----------------------------------------------------------------------------
(* What a step does to the results of the options.                         *)

Wiped(r, x) == [o \in Options |-> IF o \in OptionsOf(Subtree[x]) THEN <<>> ELSE r[o]]
\* A trigger that is given anew forgets what it had.
Before(r, o) == IF OptionOf[o].trigger THEN <<>> ELSE r[o]
Extended(r, o, got) == [r EXCEPT ![o] = Before(r, o) \o got]

\* r, perhaps after an immediate App has started anew that had begun before.
Starting(pre) == { b \in Apps : AppOf[b].immediate /\ ~IsGroup(b) /\ pre[b] }
Fresh(pre, r) == {r} \cup { Wiped(r, x) : x \in Starting(pre) }

\* Only what has begun before starts anew.
LEMMA FreshFewer ==
    ASSUME NEW pre, NEW now, \A x \in Apps : ~IsGroup(x) /\ now[x] => pre[x], NEW r
    PROVE  Fresh(now, r) \subseteq Fresh(pre, r)
  BY DEF Fresh, Starting

\* Only an App that starts anew takes results away.
LEMMA TreeResults ==
    ASSUME NEW st \in TreeType, NEW a \in Apps
    PROVE  /\ Cleared(st, a).results = Wiped(st.results, a)
           /\ PreParsed(st, a).results \in Fresh(st.preParsed, st.results)
           /\ Begun(st, a).results \in Fresh(st.preParsed, st.results)
           /\ GroupBegun(st, a).results = st.results
           /\ \A x \in Apps : ~IsGroup(x) => GroupBegun(st, a).preParsed[x] = st.preParsed[x]
           /\ \A com : Listing(st, a, com).preParsed = st.preParsed
           /\ \A com : Listing(st, a, com).results = st.results
           /\ \A items : Missing(st, a, items).results = st.results
           /\ \A rest : WithRest(st, a, rest).results = st.results
           /\ \A o \in Options : \A got :
                /\ Given(Ready(st, o), o, got).results = Extended(st.results, o, got)
                /\ Given(Ready(st, o), o, got).preParsed = st.preParsed
<1>1. ASSUME NEW t \in TreeType
      PROVE  /\ Cleared(t, a).results = Wiped(t.results, a)
             /\ PreParsed(t, a).results \in Fresh(t.preParsed, t.results)
             /\ ~t.preParsed[a] => /\ PreParsed(t, a).results = t.results
                                   /\ PreParsed(t, a).preParsed = [t.preParsed EXCEPT ![a] = TRUE]
  <2>1. DOMAIN t.results = Options
    BY DEF TreeType
  <2>2. Cleared(t, a).results = Wiped(t.results, a)
    BY <2>1 DEF Cleared, Wiped
  <2> DEFINE c == Cleared(t, a)
  <2>3. c \in TreeType
    BY ClearedType
  <2>4. PreParsed(t, a) = IF ~t.preParsed[a] THEN [t EXCEPT !.preParsed[a] = TRUE]
                          ELSE IF AppOf[a].immediate /\ ~IsGroup(a)
                          THEN [c EXCEPT !.parsed[a] = t.parsed[a], !.preParsed[a] = TRUE,
                                         !.missing[a] = t.missing[a]]
                          ELSE t
    BY DEF PreParsed
  <2> HIDE DEF c
  <2>5. /\ [t EXCEPT !.preParsed[a] = TRUE].results = t.results
        /\ [c EXCEPT !.parsed[a] = t.parsed[a], !.preParsed[a] = TRUE,
                     !.missing[a] = t.missing[a]].results = c.results
    BY <2>3 DEF TreeType
  <2>6. AppOf[a].immediate /\ ~IsGroup(a) /\ t.preParsed[a]
            => Wiped(t.results, a) \in Fresh(t.preParsed, t.results)
    BY DEF Fresh, Starting
  <2>7. t.results \in Fresh(t.preParsed, t.results)
    BY DEF Fresh
  <2>8. [t EXCEPT !.preParsed[a] = TRUE].preParsed = [t.preParsed EXCEPT ![a] = TRUE]
    BY DEF TreeType
  <2> QED
    BY <2>2, <2>4, <2>5, <2>6, <2>7, <2>8 DEF c
<1>2. /\ Incremented(st, a) \in TreeType /\ Incremented(st, a).results = st.results
      /\ Incremented(st, a).preParsed = st.preParsed
  BY IncrementedType DEF Incremented, TreeType
<1>3. Begun(st, a).results \in Fresh(st.preParsed, st.results)
  BY <1>1, <1>2 DEF Begun
<1>4. /\ GroupBegun(st, a).results = st.results
      /\ \A x \in Apps : ~IsGroup(x) => GroupBegun(st, a).preParsed[x] = st.preParsed[x]
  <2>1. st.preParsed \in [Apps -> BOOLEAN]
    BY Fields
  <2> QED
    BY <1>1, <2>1 DEF GroupBegun
<1>5. /\ \A com : Listing(st, a, com).results = st.results
      /\ \A com : Listing(st, a, com).preParsed = st.preParsed
      /\ \A items : Missing(st, a, items).results = st.results
      /\ \A rest : WithRest(st, a, rest).results = st.results
  BY DEF TreeType, Listing, Missing, WithRest
<1>6. ASSUME NEW o \in Options, NEW got
      PROVE  /\ Given(Ready(st, o), o, got).results = Extended(st.results, o, got)
             /\ Given(Ready(st, o), o, got).preParsed = st.preParsed
  <2>1. /\ Ready(st, o) \in TreeType /\ Ready(st, o).preParsed = st.preParsed
        /\ Ready(st, o).results = [st.results EXCEPT ![o] = Before(st.results, o)]
    BY ReadyType DEF TreeType, Ready, Before
  <2>2. \A t \in TreeType : /\ Given(t, o, got).results = [t.results EXCEPT ![o] = t.results[o] \o got]
                            /\ Given(t, o, got).preParsed = t.preParsed
    BY DEF TreeType, Given
  <2>3. DOMAIN st.results = Options
    BY Fields
  <2> QED
    BY <2>1, <2>2, <2>3 DEF Extended
<1> QED
  BY <1>1, <1>3, <1>4, <1>5, <1>6

\* An option token gives only to options with a name.
LEMMA ArgumentResults ==
    ASSUME Typed, Argument
    PROVE  \/ results' = results
           \/ \E o \in Options, got \in Seq(Got) :
                /\ HasName(o) /\ results' \in Fresh(preParsed, Extended(results, o, got))
                /\ got # <<>> \/ status' = "ArgumentMismatch"
<1>1. Classified("OPTION") /\ Token \in OptionTokens
  BY ArgumentCases
<1>2. /\ Tree \in TreeType /\ Tail(args) \in Seq(Tokens) /\ Token \in Tokens
      /\ Tree.results = results /\ Tree.preParsed = preParsed
      /\ args \in Seq(Tokens) /\ args # <<>>
  BY <1>1, WhileRunning DEF Tree
<1>3. ASSUME NEW a \in Apps, NEW n \in 0..Len(Tail(args)), Unrecognised(a, n)
      PROVE  results' = results
  <2> DEFINE st == Missing(Tree, a, <<Missed(Token, FALSE)>>)
             more == SubSeq(args, 2, n + 1)
  <2>1. st \in TreeType /\ st.results = results
    BY <1>2, MissedTyped, MissingType, TreeResults
  <2> HIDE DEF st
  <2>2. /\ WithRest(st, a, more).results = results
        /\ Missing(st, a, Unmarked(more)).results = results
    BY <2>1, TreeResults
  <2>3. \/ UNCHANGED tree
        \/ Becomes(IF AppOf[a].prefix = "On" THEN WithRest(st, a, more)
                   ELSE Missing(st, a, Unmarked(more)))
    BY <1>3 DEF Unrecognised, st
  <2> QED
    BY <2>2, <2>3 DEF Becomes, tree
<1>4. ASSUME NEW h \in Apps, NEW dot \in Apps \cup {NoApp}, NamedBy(h, Token) # {},
             dot # NoApp => TokenOf[Token].sub \in Names, TakeOption(h, dot)
      PROVE  \E o \in Options, got \in Seq(Got) :
                /\ HasName(o) /\ results' \in Fresh(preParsed, Extended(results, o, got))
                /\ got # <<>> \/ status' = "ArgumentMismatch"
  <2> DEFINE o == AppOf[h].opts[Min(NamedBy(h, Token))]
             sub == TokenOf[Token].sub
             c == Collected(h, o, TokenOf[Token].value, Tail(args))
             st == Given(Ready(Tree, o), o, c.got)
             after == IF dot = NoApp THEN GroupBegun(st, h)
                      ELSE Begun(Listing(GroupBegun(st, h), dot, sub), dot)
  <2>1. o \in Options /\ HasName(o) /\ TokenOf[Token].value \in Words \cup {NoValue}
    BY <1>1, <1>4, Named, NamedByType
  <2>2. /\ Becomes(st) \/ Becomes(after)
        /\ c.short => Throws("ArgumentMismatch")
    BY <1>4 DEF TakeOption
  <2> HIDE DEF o
  <2>3. c.got \in Seq(Got) /\ (c.short \/ c.got # <<>>)
    BY <1>2, <2>1, CollectedType, CollectedSome
  <2> HIDE DEF c
  <2>4. /\ st \in TreeType /\ st.results = Extended(results, o, c.got)
        /\ st.preParsed = preParsed
    BY <1>2, <2>1, <2>3, ReadyType, GivenType, TreeResults
  <2> HIDE DEF st
  <2>5. after.results \in Fresh(preParsed, st.results)
    <3> DEFINE g == GroupBegun(st, h)
    <3>1. /\ g \in TreeType /\ g.results = st.results
          /\ \A x \in Apps : ~IsGroup(x) => g.preParsed[x] = preParsed[x]
      BY <2>4, GroupBegunType, TreeResults
    <3> HIDE DEF g
    <3>2. CASE dot = NoApp
      BY <3>1, <3>2 DEF Fresh, g
    <3>3. CASE dot # NoApp
      <4>1. dot \in Apps /\ sub \in Names
        BY <1>4, <3>3
      <4>2. /\ Listing(g, dot, sub) \in TreeType /\ Listing(g, dot, sub).results = g.results
            /\ Listing(g, dot, sub).preParsed = g.preParsed
        BY <3>1, <4>1, ListingType, TreeResults
      <4>3. Begun(Listing(g, dot, sub), dot).results \in Fresh(g.preParsed, g.results)
        BY <4>1, <4>2, TreeResults
      <4>4. Fresh(g.preParsed, g.results) \subseteq Fresh(preParsed, g.results)
        BY <3>1, FreshFewer
      <4> QED
        BY <3>1, <3>3, <4>3, <4>4 DEF g
    <3> QED
      BY <3>2, <3>3
  <2> HIDE DEF after
  <2>6. results' = st.results \/ results' = after.results
    BY <2>2 DEF Becomes
  <2>7. results' \in Fresh(preParsed, Extended(results, o, c.got))
    BY <2>4, <2>5, <2>6 DEF Fresh
  <2>8. c.got # <<>> \/ status' = "ArgumentMismatch"
    BY <2>2, <2>3 DEF Throws
  <2> QED
    BY <2>1, <2>3, <2>7, <2>8
<1> QED
  BY <1>3, <1>4, ArgumentCases

\* A plain word goes to a positional of the App that answers for it.
LEMMA ParsePositionalResults ==
    ASSUME Typed, NEW class, Classified(class), NEW accepted, NEW declined,
           ParsePositional(accepted, declined)
    PROVE  \/ results' \in Fresh(preParsed, results)
           \/ \E b \in Apps :
                /\ PositionalFor(b, Token) # NoOption /\ PositionalFor(b, Token) \in Opts(b)
                /\ Token \in Tokens
                /\ results' = Extended(results, PositionalFor(b, Token), <<Token>>)
<1> DEFINE goes == PositionalGoes(Top.app, Token)
<1>1. /\ Tree \in TreeType /\ Tail(args) \in Seq(Tokens) /\ Token \in Tokens /\ Stack(frames)
      /\ Tree.results = results /\ Tree.preParsed = preParsed
  BY WhileRunning DEF Tree
<1>2. /\ goes.at \in Apps
      /\ goes.how = "option" => /\ PositionalFor(goes.at, Token) \in Opts(goes.at)
                                /\ PositionalFor(goes.at, Token) \in Options
      /\ goes.how = "subcommand" => Token \in Apps
  BY <1>1, TopType, PositionalGoesType, Named
<1> HIDE DEF goes
<1>3. results \in Fresh(preParsed, results)
  BY DEF Fresh
<1>4. CASE UNCHANGED tree
  BY <1>3, <1>4 DEF tree
<1>5. CASE /\ goes.how = "option"
           /\ LET st == Given(Ready(Tree, PositionalFor(goes.at, Token)),
                              PositionalFor(goes.at, Token), <<Token>>)
              IN  Becomes(GroupBegun(st, goes.at)) \/ Becomes(st)
  <2> DEFINE o == PositionalFor(goes.at, Token)
  <2>1. o \in Opts(goes.at) /\ o \in Options /\ o # NoOption
    BY <1>2, <1>5, TreeTypes
  <2> HIDE DEF o
  <2>2. <<Token>> \in Seq(Got)
    BY <1>1 DEF Got
  <2> DEFINE got == <<Token>>
             st == Given(Ready(Tree, o), o, got)
  <2> HIDE DEF got
  <2>3. st \in TreeType /\ st.results = Extended(results, o, got)
    <3>1. got \in Seq(Got)
      BY <2>2 DEF got
    <3>2. Given(Ready(Tree, o), o, got).results = Extended(Tree.results, o, got)
      BY <1>1, <1>2, <2>1, TreeResults
    <3> QED
      BY <1>1, <2>1, <3>1, <3>2, ReadyType, GivenType
  <2> HIDE DEF st
  <2>4. GroupBegun(st, goes.at).results = Extended(results, o, got)
    BY <1>2, <2>3, TreeResults
  <2>5. results' = Extended(results, o, <<Token>>)
    BY <1>5, <2>3, <2>4 DEF Becomes, o, st, got
  <2> QED
    BY <1>1, <1>2, <2>1, <2>5 DEF o
<1>6. CASE goes.how = "subcommand" /\ Becomes(Begun(Tree, Token))
  <2>1. Begun(Tree, Token).results \in Fresh(preParsed, results)
    BY <1>1, <1>2, <1>6, TreeResults
  <2> QED
    BY <1>6, <2>1 DEF Becomes
<1>7. CASE LET st == Missing(Tree, goes.at, <<Missed(Token, FALSE)>>)
           IN  Becomes(st) \/ Becomes(WithRest(st, goes.at, Tail(args)))
  <2> DEFINE st == Missing(Tree, goes.at, <<Missed(Token, FALSE)>>)
  <2> DEFINE items == <<Missed(Token, FALSE)>>
  <2>0. items \in Seq(MissedType)
    BY <1>1, MissedTyped
  <2> HIDE DEF items
  <2>1. st \in TreeType /\ st.results = results
    <3>1. Missing(Tree, goes.at, items) \in TreeType
      BY <1>1, <1>2, <2>0, MissingType
    <3>2. Missing(Tree, goes.at, items).results = results
      BY <1>1, <1>2, TreeResults
    <3> QED
      BY <3>1, <3>2 DEF items
  <2> HIDE DEF st
  <2>2. WithRest(st, goes.at, Tail(args)).results = results
    BY <1>2, <2>1, TreeResults
  <2> QED
    BY <1>3, <1>7, <2>1, <2>2 DEF Becomes, st
<1> QED
  BY <1>4, <1>5, <1>6, <1>7 DEF ParsePositional, goes

\* All that can happen to the results in a step.
LEMMA NextResults ==
    ASSUME Typed, [Next]_vars
    PROVE  \/ results' \in Fresh(preParsed, results)
           \/ status # "parsing" /\ \E pre : results' \in Fresh(pre, Wiped(results, Root))
           \/ \E o \in Options, got \in Seq(Got) :
                /\ HasName(o) /\ results' \in Fresh(preParsed, Extended(results, o, got))
                /\ got # <<>> \/ status' = "ArgumentMismatch"
           \/ \E b \in Apps :
                /\ PositionalFor(b, Token) # NoOption /\ PositionalFor(b, Token) \in Opts(b)
                /\ Token \in Tokens
                /\ results' = Extended(results, PositionalFor(b, Token), <<Token>>)
<1>1. /\ Tree \in TreeType /\ Tree.results = results /\ Tree.preParsed = preParsed
      /\ Root \in Apps
  BY TreeTyped, TreeTypes DEF Tree, Typed
<1>2. results \in Fresh(preParsed, results)
  BY DEF Fresh
<1>3. CASE UNCHANGED results
  BY <1>2, <1>3
<1>4. CASE BeginParse
  <2> DEFINE st == IF parsed[Root] > 0 THEN Cleared(Tree, Root) ELSE Tree
  <2>1. /\ st \in TreeType
        /\ \/ st.results = results /\ st.preParsed = preParsed
           \/ st.results = Wiped(results, Root)
    BY <1>1, ClearedType, TreeResults
  <2> HIDE DEF st
  <2>2. Begun(st, Root).results \in Fresh(st.preParsed, st.results)
    BY <1>1, <2>1, TreeResults
  <2>3. results' = Begun(st, Root).results /\ status # "parsing"
    BY <1>4 DEF BeginParse, Becomes, st
  <2> QED
    BY <2>1, <2>2, <2>3
<1>5. CASE PositionalMark
  <2> DEFINE a == Top.app
             kept == [Tree EXCEPT !.missing[a] = Append(@, Missed(Mark, TRUE))]
  <2>1. Classified("POSITIONAL_MARK")
    BY <1>5 DEF PositionalMark
  <2>2. a \in Apps /\ Tail(args) \in Seq(Tokens)
    BY <2>1, WhileRunning, TopType
  <2>3. kept.results = results
    BY <1>1 DEF TreeType
  <2>4. WithRest(kept, a, Tail(args)).results = kept.results
    BY <1>1 DEF WithRest, TreeType
  <2>5. Missing(Tree, a, <<Missed(Mark, TRUE)>>).results = results
    BY <1>1, <2>2, TreeResults
  <2>6. \/ Becomes(WithRest(kept, a, Tail(args)))
        \/ Becomes(Missing(Tree, a, <<Missed(Mark, TRUE)>>))
        \/ UNCHANGED tree
    BY <1>5 DEF PositionalMark
  <2> HIDE DEF kept, a
  <2>7. UNCHANGED results
    BY <2>3, <2>4, <2>5, <2>6 DEF Becomes, tree
  <2> QED
    BY <1>3, <2>7
<1>6. CASE Subcommand
  <2> DEFINE a == Top.app
             dotted == ~Finds(a, Token, TRUE) /\ Token \in DottedWords
             com == IF dotted THEN PathOf[Token].head ELSE Token
  <2>1. Classified("SUBCOMMAND")
    BY <1>6 DEF Subcommand
  <2>2. com \in Names /\ com \in Apps /\ a \in Apps
    BY <2>1, SubcommandToken, Named, WhileRunning, TopType
  <2>3. \/ ParsePositional(Top, Top)
        \/ Becomes(Begun(Listing(Tree, a, com), com))
        \/ UNCHANGED tree
    BY <1>6 DEF Subcommand
  <2> HIDE DEF com, a
  <2>4. CASE ParsePositional(Top, Top)
    BY <2>1, <2>4, ParsePositionalResults
  <2>5. CASE Becomes(Begun(Listing(Tree, a, com), com))
    <3>1. Listing(Tree, a, com) \in TreeType /\ Listing(Tree, a, com).results = results
      BY <1>1, <2>2, ListingType, TreeResults
    <3>2. Begun(Listing(Tree, a, com), com).results \in Fresh(preParsed, results)
      BY <1>1, <2>2, <3>1, TreeResults
    <3> QED
      BY <2>5, <3>2 DEF Becomes
  <2> QED
    BY <1>3, <2>3, <2>4, <2>5 DEF tree
<1>7. CASE Argument
  BY <1>2, <1>7, ArgumentResults
<1>8. CASE Positional
  BY <1>8, ParsePositionalResults DEF Positional
<1>9. CASE EndSubcommand
  <2> DEFINE up == Parent(Top.app)
             after == IF Top.via = "positional" THEN GroupBegun(Tree, Top.at)
                      ELSE IF up # Top.at THEN Listing(PreParsed(Tree, up), up, Top.app)
                      ELSE Tree
  <2>1. Stack(frames) /\ Len(frames) > 1
    BY <1>9 DEF EndSubcommand, Ended, Typed, Framed
  <2>2. Top.app \in Names /\ Top.at \in Apps /\ up \in Apps
    BY <2>1, TopType, Named
  <2>3. after.results \in Fresh(preParsed, results)
    <3>1. GroupBegun(Tree, Top.at).results = results
      BY <1>1, <2>2, TreeResults
    <3>2. PreParsed(Tree, up) \in TreeType /\ PreParsed(Tree, up).results \in Fresh(preParsed, results)
      BY <1>1, <2>2, PreParsedType, TreeResults
    <3>3. Listing(PreParsed(Tree, up), up, Top.app).results = PreParsed(Tree, up).results
      BY <2>2, <3>2, TreeResults
    <3> HIDE DEF up
    <3> QED
      BY <1>1, <1>2, <3>1, <3>2, <3>3
  <2>4. Becomes(after) \/ UNCHANGED tree
    BY <1>9 DEF EndSubcommand
  <2> HIDE DEF after
  <2> QED
    BY <1>3, <2>3, <2>4 DEF Becomes, tree
<1>10. CASE SubcommandTerminator \/ EndParse
  BY <1>3, <1>10 DEF SubcommandTerminator, EndParse, tree
<1> QED
  BY <1>3, <1>4, <1>5, <1>6, <1>7, <1>8, <1>9, <1>10 DEF Next, ParserStep, vars

-----------------------------------------------------------------------------
(* OptionsKeepResults                                                      *)

\* A sequence is a prefix of what it is extended to.
LEMMA Prefix ==
    ASSUME NEW s \in Seq(Got), NEW t \in Seq(Got)
    PROVE  IsPrefix(s, s \o t) /\ IsPrefix(s, s)
<1> DEFINE u == s \o t
<1>1. /\ u \in Seq(Got) /\ Len(u) = Len(s) + Len(t)
      /\ \A i \in 1..Len(s) : u[i] = s[i]
  OBVIOUS
<1> HIDE DEF u
<1>2. /\ Len(s) \in 0..Len(s) /\ Len(s) \in 0..Len(u) /\ Len(s) <= Len(u)
  BY <1>1
<1> DEFINE x == SubSeq(s, 1, Len(s))
           y == SubSeq(u, 1, Len(s))
<1>3. 1 \in 1..Len(s)+1 /\ 1 \in 1..Len(u)+1
  BY <1>1
<1>4. /\ x \in Seq(Got) /\ Len(x) = Len(s) /\ \A i \in 1..Len(s) : x[i] = s[i]
      /\ y \in Seq(Got) /\ Len(y) = Len(s) /\ \A i \in 1..Len(s) : y[i] = u[i]
  BY <1>1, <1>2, <1>3, Parts
<1> HIDE DEF x, y
<1>5. x = y
  BY <1>1, <1>4, SeqEqual
<1> QED
  BY <1>2, <1>5 DEF IsPrefix, u, x, y

\* What starts anew takes the results of its options along.
LEMMA FreshKeeps ==
    ASSUME NEW r \in [Options -> Seq(Got)], NEW s \in Fresh(preParsed, r), NEW o \in Options
    PROVE  s[o] = r[o] \/ Restarted(o)
<1>1. CASE s = r
  BY <1>1
<1>2. CASE \E x \in Starting(preParsed) : s = Wiped(r, x)
  <2>1. PICK x \in Starting(preParsed) : s = Wiped(r, x)
    BY <1>2
  <2> QED
    BY <2>1 DEF Wiped, Starting, Restarted
<1> QED
  BY <1>1, <1>2 DEF Fresh

\* Option p keeps its results when option o is given some.
LEMMA ExtendedKeeps ==
    ASSUME Typed, NEW o \in Options, NEW got \in Seq(Got), NEW p \in Options,
           results' \in Fresh(preParsed, Extended(results, o, got)),
           got # <<>> \/ status' = "ArgumentMismatch"
    PROVE  \/ IsPrefix(results[p], results'[p])
           \/ OptionOf[p].trigger /\ (results'[p] # <<>> \/ status' = "ArgumentMismatch")
           \/ Restarted(p)
<1> DEFINE r == Extended(results, o, got)
<1>1. results \in [Options -> Seq(Got)]
  BY DEF Typed, TypeOK, Got
<1>2. Before(results, o) \in Seq(Got)
  BY <1>1 DEF Before
<1>3. /\ r \in [Options -> Seq(Got)]
      /\ r[p] = IF p = o THEN Before(results, o) \o got ELSE results[p]
  <2>1. Before(results, o) \o got \in Seq(Got)
    BY <1>2
  <2> QED
    BY <1>1, <2>1 DEF Extended
<1> HIDE DEF r
<1>4. results'[p] = r[p] \/ Restarted(p)
  BY <1>3, FreshKeeps DEF r
<1>5. IsPrefix(results[p], results[p]) /\ IsPrefix(results[p], results[p] \o got)
  BY <1>1, Prefix
<1>6. CASE p # o \/ ~OptionOf[o].trigger
  BY <1>3, <1>4, <1>5, <1>6 DEF Before
<1>7. CASE p = o /\ OptionOf[o].trigger
  <2>1. r[p] = <<>> \o got
    BY <1>3, <1>7 DEF Before
  <2>2. <<>> \o got = got
    OBVIOUS
  <2> QED
    BY <1>4, <1>7, <2>1, <2>2
<1> QED
  BY <1>6, <1>7

LEMMA NextKeepsResults ==
    ASSUME Typed, [Next]_vars, status = "parsing", NEW p \in Options
    PROVE  \/ IsPrefix(results[p], results'[p])
           \/ OptionOf[p].trigger /\ (results'[p] # <<>> \/ status' = "ArgumentMismatch")
           \/ Restarted(p)
<1>1. results \in [Options -> Seq(Got)]
  BY DEF Typed, TypeOK, Got
<1>2. CASE results' \in Fresh(preParsed, results)
  <2>1. results'[p] = results[p] \/ Restarted(p)
    BY <1>1, <1>2, FreshKeeps
  <2>2. IsPrefix(results[p], results[p])
    BY <1>1, Prefix
  <2> QED
    BY <2>1, <2>2
<1>3. ASSUME NEW o \in Options, NEW got \in Seq(Got), got # <<>> \/ status' = "ArgumentMismatch",
             results' \in Fresh(preParsed, Extended(results, o, got))
      PROVE  \/ IsPrefix(results[p], results'[p])
             \/ OptionOf[p].trigger /\ (results'[p] # <<>> \/ status' = "ArgumentMismatch")
             \/ Restarted(p)
  BY <1>3, ExtendedKeeps
<1>4. ASSUME NEW b \in Apps, PositionalFor(b, Token) # NoOption,
             PositionalFor(b, Token) \in Opts(b), Token \in Tokens,
             results' = Extended(results, PositionalFor(b, Token), <<Token>>)
      PROVE  \/ IsPrefix(results[p], results'[p])
             \/ OptionOf[p].trigger /\ (results'[p] # <<>> \/ status' = "ArgumentMismatch")
             \/ Restarted(p)
  <2> DEFINE o == PositionalFor(b, Token)
             got == <<Token>>
  <2>1. o \in Options /\ got \in Seq(Got) /\ got # <<>>
    BY <1>4, TreeTypes DEF Got
  <2>2. results' = Extended(results, o, got)
    BY <1>4
  <2> HIDE DEF o, got
  <2>3. results' \in Fresh(preParsed, Extended(results, o, got))
    BY <2>2 DEF Fresh
  <2> QED
    BY <2>1, <2>3, ExtendedKeeps
<1> QED
  BY <1>2, <1>3, <1>4, NextResults

\* For every tree of Apps and every command line, no step of a parse takes
\* results away from an option but a trigger that is given anew or an immediate
\* App that begins for a second time.
THEOREM OptionsOnlyGain == Spec => OptionsKeepResults
<1>1. Typed /\ [Next]_vars =>
        [status = "parsing" =>
            \A o \in Options :
                \/ IsPrefix(results[o], results'[o])
                \/ OptionOf[o].trigger /\ (results'[o] # <<>> \/ status' = "ArgumentMismatch")
                \/ Restarted(o)]_vars
  BY NextKeepsResults
<1> QED
  BY <1>1, InitTyped, NextTyped, PTL DEF Spec, OptionsKeepResults

-----------------------------------------------------------------------------
(* PositionalsFillInOrder                                                  *)

\* PositionalsFillInOrder says this of the results.
Ordered(r) ==
    \A a \in { b \in Apps : ~AppOf[b].posAtEnd /\ ~AppOf[b].validates } :
        \A i, j \in Positionals(a) :
            i < j /\ r[AppOf[a].opts[j]] # <<>> /\ ~HasName(AppOf[a].opts[j])
                  /\ ~OptionOf[AppOf[a].opts[i]].trigger
                => Len(r[AppOf[a].opts[i]]) >= OptionOf[AppOf[a].opts[i]].max

LEMMA OrderedIs ==
    /\ PositionalsFillInOrder <=> Ordered(results)
    /\ PositionalsFillInOrder' <=> Ordered(results')
  BY DEF PositionalsFillInOrder, Ordered, Count, Tree

\* The places of a positional option.
LEMMA Places ==
    ASSUME NEW a \in Apps, NEW i \in Positionals(a)
    PROVE  /\ i \in 1..Len(AppOf[a].opts) /\ AppOf[a].opts[i] \in Options
           /\ AppOf[a].opts[i] \in Opts(a) /\ OptionOf[AppOf[a].opts[i]].max \in Nat
<1> DEFINE os == AppOf[a].opts
<1>1. os \in Seq(Options) /\ i \in DOMAIN os
  BY TreeTypes DEF Positionals
<1> HIDE DEF os
<1>2. i \in 1..Len(os) /\ os[i] \in Options /\ os[i] \in ToSet(os)
  BY <1>1 DEF ToSet
<1>3. \A o \in Options : OptionOf[o].max \in Nat
  <2>1. OptionOf \in [Options -> OptionType]
    BY TreeAssumption
  <2> QED
    BY <2>1 DEF OptionType
<1> QED
  BY <1>2, <1>3 DEF os, Opts

\* An option has one owner, where it has one place.
LEMMA OneOwner ==
    /\ \A a, b \in Apps : \A o \in Opts(a) : o \in Opts(b) => a = b
    /\ \A a \in Apps : \A i, j \in Positionals(a) :
            AppOf[a].opts[i] = AppOf[a].opts[j] => i = j
<1>1. \A a, b \in Apps : ToSet(AppOf[a].opts) \cap ToSet(AppOf[b].opts) # {} => a = b
  BY TreeAssumption
<1>2. \A a, b \in Apps : \A o \in Opts(a) : o \in Opts(b) => a = b
  BY <1>1 DEF Opts
<1>3. ASSUME NEW a \in Apps, NEW i \in Positionals(a), NEW j \in Positionals(a),
             AppOf[a].opts[i] = AppOf[a].opts[j]
      PROVE  i = j
  <2>1. IsInjective(AppOf[a].opts)
    BY TreeAssumption
  <2> QED
    BY <1>3, <2>1 DEF IsInjective, Positionals
<1> QED
  BY <1>2, <1>3

\* App::clear takes the results of all options of an App or of none.
LEMMA WipedOrdered ==
    ASSUME NEW r \in [Options -> Seq(Got)], Ordered(r), NEW x \in Apps
    PROVE  Ordered(Wiped(r, x)) /\ Wiped(r, x) \in [Options -> Seq(Got)]
<1> DEFINE w == Wiped(r, x)
<1>1. w \in [Options -> Seq(Got)]
      /\ \A o \in Options : w[o] = IF o \in OptionsOf(Subtree[x]) THEN <<>> ELSE r[o]
  <2>1. <<>> \in Seq(Got)
    OBVIOUS
  <2> QED
    BY <2>1 DEF Wiped
<1> HIDE DEF w
<1>2. ASSUME NEW a \in Apps, ~AppOf[a].posAtEnd, ~AppOf[a].validates,
             NEW i \in Positionals(a), NEW j \in Positionals(a),
             i < j, w[AppOf[a].opts[j]] # <<>>, ~HasName(AppOf[a].opts[j]),
             ~OptionOf[AppOf[a].opts[i]].trigger
      PROVE  Len(w[AppOf[a].opts[i]]) >= OptionOf[AppOf[a].opts[i]].max
  <2> DEFINE o == AppOf[a].opts[i]
             p == AppOf[a].opts[j]
  <2>1. o \in Options /\ p \in Options /\ o \in Opts(a) /\ p \in Opts(a)
    BY Places
  <2>2. w[p] = r[p] /\ p \notin OptionsOf(Subtree[x])
    BY <1>1, <1>2, <2>1
  <2>3. o \notin OptionsOf(Subtree[x])
    <3> SUFFICES ASSUME o \in OptionsOf(Subtree[x]) PROVE FALSE
      OBVIOUS
    <3>1. PICK b \in Subtree[x] : o \in Opts(b)
      BY DEF OptionsOf, Opts
    <3>2. b = a
      BY <2>1, <3>1, OneOwner, SubtreeIs
    <3> QED
      BY <2>1, <2>2, <3>1, <3>2 DEF OptionsOf, Opts
  <2>4. w[o] = r[o]
    BY <1>1, <2>1, <2>3
  <2> QED
    BY <1>2, <2>2, <2>4 DEF Ordered
<1> QED
  BY <1>1, <1>2 DEF Ordered, w

LEMMA FreshOrdered ==
    ASSUME NEW r \in [Options -> Seq(Got)], Ordered(r), NEW pre, NEW s \in Fresh(pre, r)
    PROVE  Ordered(s)
  BY WipedOrdered DEF Fresh, Starting

\* What an option has grows when it is given something.
LEMMA ExtendedIs ==
    ASSUME NEW r \in [Options -> Seq(Got)], NEW o \in Options, NEW got \in Seq(Got)
    PROVE  /\ Extended(r, o, got) \in [Options -> Seq(Got)]
           /\ \A p \in Options : p # o => Extended(r, o, got)[p] = r[p]
           /\ \A p \in Options : ~OptionOf[p].trigger => Len(Extended(r, o, got)[p]) >= Len(r[p])
<1> DEFINE old == Before(r, o)
<1>0. old \in Seq(Got) /\ (~OptionOf[o].trigger => old = r[o])
  BY DEF Before
<1> HIDE DEF old
<1>1. old \o got \in Seq(Got) /\ Len(old \o got) = Len(old) + Len(got)
  BY <1>0
<1>2. \A p \in Options : Len(r[p]) \in Nat
  OBVIOUS
<1>3. Len(got) \in Nat
  OBVIOUS
<1> DEFINE more == old \o got
<1> HIDE DEF more
<1>4. /\ Extended(r, o, got) \in [Options -> Seq(Got)]
      /\ \A p \in Options : Extended(r, o, got)[p] = IF p = o THEN more ELSE r[p]
  BY <1>1 DEF Extended, more, old
<1>5. ~OptionOf[o].trigger => Len(more) >= Len(r[o])
  BY <1>0, <1>1, <1>2, <1>3 DEF more
<1>6. ASSUME NEW p \in Options, ~OptionOf[p].trigger PROVE Len(Extended(r, o, got)[p]) >= Len(r[p])
  <2>1. CASE p = o
    BY <1>4, <1>5, <1>6, <2>1
  <2>2. CASE p # o
    BY <1>2, <1>4, <2>2
  <2> QED
    BY <2>1, <2>2
<1> QED
  BY <1>4, <1>6

\* It cannot disturb the order unless what is given to is a positional that has
\* no name, with room left in one before it.
LEMMA ExtendedOrdered ==
    ASSUME NEW r \in [Options -> Seq(Got)], Ordered(r), NEW o \in Options, NEW got \in Seq(Got),
           \A a \in Apps : ~AppOf[a].posAtEnd /\ ~AppOf[a].validates /\ ~HasName(o) =>
                \A i, j \in Positionals(a) :
                    i < j /\ AppOf[a].opts[j] = o
                        => Len(r[AppOf[a].opts[i]]) >= OptionOf[AppOf[a].opts[i]].max
    PROVE  Ordered(Extended(r, o, got))
<1> DEFINE e == Extended(r, o, got)
<1>1. /\ e \in [Options -> Seq(Got)] /\ \A p \in Options : p # o => e[p] = r[p]
      /\ \A p \in Options : ~OptionOf[p].trigger => Len(e[p]) >= Len(r[p])
  BY ExtendedIs
<1> HIDE DEF e
<1>2. ASSUME NEW a \in Apps, ~AppOf[a].posAtEnd, ~AppOf[a].validates,
             NEW i \in Positionals(a), NEW j \in Positionals(a),
             i < j, e[AppOf[a].opts[j]] # <<>>, ~HasName(AppOf[a].opts[j]),
             ~OptionOf[AppOf[a].opts[i]].trigger
      PROVE  Len(e[AppOf[a].opts[i]]) >= OptionOf[AppOf[a].opts[i]].max
  <2> DEFINE p == AppOf[a].opts[i]
             q == AppOf[a].opts[j]
  <2>1. p \in Options /\ q \in Options /\ OptionOf[p].max \in Nat
    BY Places
  <2>2. Len(r[p]) >= OptionOf[p].max
    <3>1. CASE q = o
      BY <1>2, <3>1
    <3>2. CASE q # o
      BY <1>1, <1>2, <2>1, <3>2 DEF Ordered
    <3> QED
      BY <3>1, <3>2
  <2>3. Len(r[p]) \in Nat /\ Len(e[p]) \in Nat /\ Len(e[p]) >= Len(r[p])
    BY <1>1, <1>2, <2>1
  <2> HIDE DEF p
  <2>4. Len(e[p]) >= OptionOf[p].max
    BY <2>1, <2>2, <2>3
  <2> QED
    BY <2>4 DEF p
<1> QED
  BY <1>2 DEF Ordered, e

\* The positional that gets a word is the first that has room.
LEMMA FirstWithRoom ==
    ASSUME TypeOK, NEW a \in Apps, ~AppOf[a].posAtEnd, ~AppOf[a].validates, NEW t,
           PositionalFor(a, t) # NoOption,
           NEW i \in Positionals(a), NEW j \in Positionals(a),
           i < j, AppOf[a].opts[j] = PositionalFor(a, t)
    PROVE  Len(results[AppOf[a].opts[i]]) >= OptionOf[AppOf[a].opts[i]].max
<1> DEFINE os == AppOf[a].opts
           fitting == { k \in Positionals(a) : AppOf[a].validates => t \in OptionOf[os[k]].accepts }
           urgent == { k \in fitting : /\ AppOf[a].posAtEnd
                                       /\ Len(args) <= Remaining(Tree, a)
                                       /\ OptionOf[os[k]].required /\ Lacking(Tree, os[k]) }
           roomy == { k \in fitting : Roomy(os[k]) }
<1>1. PositionalFor(a, t) = IF urgent # {} THEN os[Min(urgent)]
                            ELSE IF roomy # {} THEN os[Min(roomy)] ELSE NoOption
  BY DEF PositionalFor
<1>2. /\ urgent = {} /\ roomy \in SUBSET DOMAIN os /\ os \in Seq(Options)
      /\ roomy \subseteq Positionals(a)
      /\ \A k \in Positionals(a) : Roomy(os[k]) => k \in roomy
  BY TreeTypes DEF Positionals
<1> HIDE DEF urgent, roomy
<1>3. roomy # {} /\ os[j] = os[Min(roomy)]
  BY <1>1, <1>2
<1>4. Min(roomy) \in roomy /\ \A k \in roomy : Min(roomy) <= k
  <2> HIDE DEF os
  <2> QED
    BY <1>2, <1>3, FirstPlace
<1>5. j = Min(roomy)
  <2>1. Min(roomy) \in Positionals(a)
    BY <1>2, <1>4
  <2>2. AppOf[a].opts[j] = AppOf[a].opts[Min(roomy)]
    BY <1>3
  <2> QED
    BY <2>1, <2>2, OneOwner
<1>6. i \in 1..Len(os) /\ j \in 1..Len(os) /\ os[i] \in Options /\ OptionOf[os[i]].max \in Nat
  BY Places
<1>7. i \notin roomy
  <2>1. ~(j <= i)
    BY <1>6
  <2> QED
    BY <1>4, <1>5, <2>1
<1>8. ~(Len(results[os[i]]) < OptionOf[os[i]].max)
  BY <1>2, <1>7 DEF Roomy, Count, Tree
<1>9. Len(results[os[i]]) \in Nat
  BY <1>6 DEF TypeOK
<1> QED
  BY <1>6, <1>8, <1>9

LEMMA NextOrdered == Typed /\ Ordered(results) /\ [Next]_vars => Ordered(results')
<1> SUFFICES ASSUME Typed, Ordered(results), [Next]_vars PROVE Ordered(results')
  OBVIOUS
<1>1. results \in [Options -> Seq(Got)] /\ TypeOK
  BY DEF Typed, TypeOK, Got
<1>2. ASSUME \/ results' \in Fresh(preParsed, results)
             \/ \E pre : results' \in Fresh(pre, Wiped(results, Root))
      PROVE  Ordered(results')
  BY <1>1, <1>2, WipedOrdered, FreshOrdered, TreeTypes
<1>3. ASSUME NEW o \in Options, NEW got \in Seq(Got), HasName(o),
             results' \in Fresh(preParsed, Extended(results, o, got))
      PROVE  Ordered(results')
  <2>1. Ordered(Extended(results, o, got))
    BY <1>1, <1>3, ExtendedOrdered
  <2> QED
    BY <1>1, <1>3, <2>1, ExtendedIs, FreshOrdered
<1>4. ASSUME NEW b \in Apps, PositionalFor(b, Token) # NoOption,
             PositionalFor(b, Token) \in Opts(b), Token \in Tokens,
             results' = Extended(results, PositionalFor(b, Token), <<Token>>)
      PROVE  Ordered(results')
  <2> DEFINE o == PositionalFor(b, Token)
             got == <<Token>>
  <2>1. o \in Options /\ o \in Opts(b) /\ got \in Seq(Got)
    BY <1>4, TreeTypes DEF Got
  <2>2. ASSUME NEW a \in Apps, ~AppOf[a].posAtEnd, ~AppOf[a].validates,
               NEW i \in Positionals(a), NEW j \in Positionals(a),
               i < j, AppOf[a].opts[j] = o
        PROVE  Len(results[AppOf[a].opts[i]]) >= OptionOf[AppOf[a].opts[i]].max
    <3>1. a = b
      BY <2>1, <2>2, OneOwner, Places
    <3> QED
      BY <1>1, <1>4, <2>2, <3>1, FirstWithRoom
  <2> HIDE DEF o, got
  <2>3. Ordered(Extended(results, o, got))
    BY <1>1, <2>1, <2>2, ExtendedOrdered
  <2> QED
    BY <1>4, <2>3 DEF o, got
<1> QED
  BY <1>2, <1>3, <1>4, NextResults

\* A positional without a name gets nothing before those declared ahead of it
\* are full, for every tree of Apps and every command line.
THEOREM FillInOrder == Spec => []PositionalsFillInOrder
<1>1. Init => Ordered(results)
  <2> SUFFICES ASSUME Init PROVE Ordered(results)
    OBVIOUS
  <2>1. \A o \in Options : results[o] = <<>>
    BY DEF Init, Untouched
  <2> QED
    BY <2>1, Places DEF Ordered
<1>2. Init => PositionalsFillInOrder
  BY <1>1, OrderedIs
<1>3. Typed /\ PositionalsFillInOrder /\ [Next]_vars => PositionalsFillInOrder'
  BY NextOrdered, OrderedIs
<1> QED
  BY <1>2, <1>3, InitTyped, NextTyped, PTL DEF Spec
-----------------------------------------------------------------------------
(* Occurrences and their sums.                                             *)

\* Occurrences in what is put together.
LEMMA OccurrencesJoined ==
    ASSUME NEW S, NEW s \in Seq(S), NEW t \in Seq(S), NEW x
    PROVE  /\ Occurrences(s, x) \in Nat
           /\ Occurrences(s \o t, x) = Occurrences(s, x) + Occurrences(t, x)
<1>1. \A u : Occurrences(u, x) = Cardinality(PlacesOf(u, {x}))
  BY DEF Occurrences, PlacesOf
<1> QED
  BY <1>1, PlacesJoined

\* Occurrences in nothing, and in one element.
LEMMA OccurrencesOne ==
    ASSUME NEW x
    PROVE  /\ Occurrences(<<>>, x) = 0
           /\ Occurrences(<<x>>, x) = 1
           /\ \A y : y # x => Occurrences(<<y>>, x) = 0
<1>1. \A y : y # x => { i \in DOMAIN <<y>> : <<y>>[i] = x } = {}
  OBVIOUS
<1>2. { i \in DOMAIN <<x>> : <<x>>[i] = x } = {1}
  OBVIOUS
<1>3. { i \in DOMAIN <<>> : <<>>[i] = x } = {}
  OBVIOUS
<1> QED
  BY <1>1, <1>2, <1>3, FS_EmptySet, FS_Singleton DEF Occurrences

\* Adding up over all options, or all Apps, as NoWordLost does.
Held(r, x) == MapThenSumSet(LAMBDA o : Occurrences(r[o], x), Options)
Lost(m, x) == MapThenSumSet(LAMBDA a : Occurrences(m[a], x), Apps)

\* The sum over the options is the sum of any function with the same values.
LEMMA HeldIs ==
    ASSUME NEW r, NEW w, NEW g \in [Options -> Nat], \A o \in Options : g[o] = Occurrences(r[o], w)
    PROVE  \E sum : SumsUp(sum, g, Options) /\ Held(r, w) = sum[Options]
<1> DEFINE F(o) == Occurrences(r[o], w)
           e(s) == CHOOSE x \in s : TRUE
           P(iter) == iter = [s \in SUBSET Options |->
                                IF s = {} THEN 0 ELSE F(e(s)) + iter[s \ {e(s)}]]
<1>1. Held(r, w) = (CHOOSE iter : P(iter))[Options]
  BY DEF Held, MapThenSumSet, MapThenFoldSet
<1>2. ASSUME NEW iter PROVE P(iter) <=> SumsUp(iter, g, Options)
  <2>1. SumsUp(iter, g, Options) <=>
          iter = [s \in SUBSET Options |-> IF s = {} THEN 0 ELSE g[e(s)] + iter[s \ {e(s)}]]
    BY DEF SumsUp
  <2>2. \A s \in SUBSET Options : s # {} => e(s) \in Options
    OBVIOUS
  <2> HIDE DEF e
  <2>3. \A s \in SUBSET Options : s # {} => F(e(s)) = g[e(s)]
    BY <2>2
  <2> HIDE DEF F
  <2>4. [s \in SUBSET Options |-> IF s = {} THEN 0 ELSE g[e(s)] + iter[s \ {e(s)}]]
          = [s \in SUBSET Options |-> IF s = {} THEN 0 ELSE F(e(s)) + iter[s \ {e(s)}]]
    BY <2>3
  <2> QED
    BY <2>1, <2>4
<1>3. \E iter : SumsUp(iter, g, Options)
  BY SumExists, TreeTypes
<1> HIDE DEF P
<1> QED
  BY <1>1, <1>2, <1>3

\* The sum over the Apps is the sum of any function with the same values.
LEMMA LostIs ==
    ASSUME NEW m, NEW w, NEW g \in [Apps -> Nat], \A a \in Apps : g[a] = Occurrences(m[a], w)
    PROVE  \E sum : SumsUp(sum, g, Apps) /\ Lost(m, w) = sum[Apps]
<1> DEFINE F(a) == Occurrences(m[a], w)
           e(s) == CHOOSE x \in s : TRUE
           P(iter) == iter = [s \in SUBSET Apps |->
                                IF s = {} THEN 0 ELSE F(e(s)) + iter[s \ {e(s)}]]
<1>1. Lost(m, w) = (CHOOSE iter : P(iter))[Apps]
  BY DEF Lost, MapThenSumSet, MapThenFoldSet
<1>2. ASSUME NEW iter PROVE P(iter) <=> SumsUp(iter, g, Apps)
  <2>1. SumsUp(iter, g, Apps) <=>
          iter = [s \in SUBSET Apps |-> IF s = {} THEN 0 ELSE g[e(s)] + iter[s \ {e(s)}]]
    BY DEF SumsUp
  <2>2. \A s \in SUBSET Apps : s # {} => e(s) \in Apps
    OBVIOUS
  <2> HIDE DEF e
  <2>3. \A s \in SUBSET Apps : s # {} => F(e(s)) = g[e(s)]
    BY <2>2
  <2> HIDE DEF F
  <2>4. [s \in SUBSET Apps |-> IF s = {} THEN 0 ELSE g[e(s)] + iter[s \ {e(s)}]]
          = [s \in SUBSET Apps |-> IF s = {} THEN 0 ELSE F(e(s)) + iter[s \ {e(s)}]]
    BY <2>3
  <2> QED
    BY <2>1, <2>4
<1>3. \E iter : SumsUp(iter, g, Apps)
  BY SumExists, TreeTypes
<1> HIDE DEF P
<1> QED
  BY <1>1, <1>2, <1>3

\* What HeldSums asks of its functions, under names of its own.
CountsHeld(g, q, w) == g \in [Options -> Nat] /\ \A y \in Options : g[y] = Occurrences(q[y], w)
SameHeld(g, h, x) == x \in Options /\ \A y \in Options \ {x} : g[y] = h[y]

\* Two sums differ by what one option has more.
LEMMA HeldSums ==
    ASSUME NEW r, NEW s, NEW w, NEW g, NEW h, NEW x,
           CountsHeld(g, r, w), CountsHeld(h, s, w), SameHeld(g, h, x)
    PROVE  /\ Held(r, w) \in Nat /\ Held(s, w) \in Nat
           /\ Held(s, w) + g[x] = Held(r, w) + h[x]
<1>0. /\ g \in [Options -> Nat] /\ h \in [Options -> Nat] /\ x \in Options
      /\ \A y \in Options : g[y] = Occurrences(r[y], w)
      /\ \A y \in Options : h[y] = Occurrences(s[y], w)
      /\ \A y \in Options \ {x} : g[y] = h[y]
  BY DEF CountsHeld, SameHeld
<1>1. \E i : SumsUp(i, g, Options) /\ Held(r, w) = i[Options]
  BY <1>0, HeldIs
<1>2. \E i : SumsUp(i, h, Options) /\ Held(s, w) = i[Options]
  BY <1>0, HeldIs
<1>3. ASSUME NEW i, NEW j, SumsUp(i, g, Options), SumsUp(j, h, Options)
      PROVE  i[Options] \in Nat /\ j[Options] \in Nat /\ j[Options] + g[x] = i[Options] + h[x]
  BY <1>0, <1>3, SumChange, TreeTypes
<1> QED
  BY <1>1, <1>2, <1>3

\* When only option o changes, the sum over the options changes as o does.
LEMMA HeldChange ==
    ASSUME NEW r \in [Options -> Seq(Got)], NEW s \in [Options -> Seq(Got)], NEW o \in Options,
           \A p \in Options : p # o => s[p] = r[p], NEW w
    PROVE  /\ Held(r, w) \in Nat /\ Held(s, w) \in Nat
           /\ Held(s, w) + Occurrences(r[o], w) = Held(r, w) + Occurrences(s[o], w)
<1>1. ASSUME NEW q \in [Options -> Seq(Got)]
      PROVE  \E g \in [Options -> Nat] : \A y \in Options : g[y] = Occurrences(q[y], w)
  <2>1. \A y \in Options : Occurrences(q[y], w) \in Nat
    BY OccurrencesJoined
  <2> DEFINE g == [y \in Options |-> Occurrences(q[y], w)]
  <2>2. g \in [Options -> Nat] /\ \A y \in Options : g[y] = Occurrences(q[y], w)
    BY <2>1
  <2> QED
    BY <2>2
<1>2. PICK g \in [Options -> Nat] : \A y \in Options : g[y] = Occurrences(r[y], w)
  BY <1>1
<1>3. PICK h \in [Options -> Nat] : \A y \in Options : h[y] = Occurrences(s[y], w)
  BY <1>1
<1>4. CountsHeld(g, r, w) /\ CountsHeld(h, s, w)
  BY <1>2, <1>3 DEF CountsHeld
<1>5. SameHeld(g, h, o)
  BY <1>2, <1>3 DEF SameHeld
<1>6. /\ Held(r, w) \in Nat /\ Held(s, w) \in Nat
      /\ Held(s, w) + g[o] = Held(r, w) + h[o]
  BY ONLY <1>4, <1>5, HeldSums
<1> QED
  BY <1>2, <1>3, <1>6

\* s is r with got added for o.
ResultsGrow(s, r, o, got) ==
    /\ o \in Options /\ got \in Seq(Got)
    /\ r \in [Options -> Seq(Got)] /\ s \in [Options -> Seq(Got)]
    /\ \A p \in Options : p # o => s[p] = r[p]
    /\ s[o] = r[o] \o got

\* What one option is given is added to the sum.
LEMMA HeldGrows ==
    ASSUME NEW r, NEW s, NEW o, NEW got, NEW w, ResultsGrow(s, r, o, got)
    PROVE  /\ Held(r, w) \in Nat /\ Occurrences(got, w) \in Nat
           /\ Held(s, w) = Held(r, w) + Occurrences(got, w)
<1>1. /\ Held(r, w) \in Nat /\ Held(s, w) \in Nat
      /\ Held(s, w) + Occurrences(r[o], w) = Held(r, w) + Occurrences(s[o], w)
  BY HeldChange DEF ResultsGrow
<1>2. r[o] \in Seq(Got) /\ got \in Seq(Got)
  BY DEF ResultsGrow
<1>3. /\ Occurrences(r[o], w) \in Nat /\ Occurrences(got, w) \in Nat
      /\ Occurrences(r[o] \o got, w) = Occurrences(r[o], w) + Occurrences(got, w)
  BY <1>2, OccurrencesJoined
<1>4. Occurrences(s[o], w) = Occurrences(r[o], w) + Occurrences(got, w)
  BY <1>3 DEF ResultsGrow
<1> QED
  BY ONLY <1>1, <1>3, <1>4

\* The same for LostSums.
CountsLost(g, q, w) == g \in [Apps -> Nat] /\ \A y \in Apps : g[y] = Occurrences(q[y], w)
SameLost(g, h, x) == x \in Apps /\ \A y \in Apps \ {x} : g[y] = h[y]

\* Two sums differ by what one App has more.
LEMMA LostSums ==
    ASSUME NEW m, NEW n, NEW w, NEW g, NEW h, NEW x,
           CountsLost(g, m, w), CountsLost(h, n, w), SameLost(g, h, x)
    PROVE  /\ Lost(m, w) \in Nat /\ Lost(n, w) \in Nat
           /\ Lost(n, w) + g[x] = Lost(m, w) + h[x]
<1>0. /\ g \in [Apps -> Nat] /\ h \in [Apps -> Nat] /\ x \in Apps
      /\ \A y \in Apps : g[y] = Occurrences(m[y], w)
      /\ \A y \in Apps : h[y] = Occurrences(n[y], w)
      /\ \A y \in Apps \ {x} : g[y] = h[y]
  BY DEF CountsLost, SameLost
<1>1. \E i : SumsUp(i, g, Apps) /\ Lost(m, w) = i[Apps]
  BY <1>0, LostIs
<1>2. \E i : SumsUp(i, h, Apps) /\ Lost(n, w) = i[Apps]
  BY <1>0, LostIs
<1>3. ASSUME NEW i, NEW j, SumsUp(i, g, Apps), SumsUp(j, h, Apps)
      PROVE  i[Apps] \in Nat /\ j[Apps] \in Nat /\ j[Apps] + g[x] = i[Apps] + h[x]
  BY <1>0, <1>3, SumChange, TreeTypes
<1> QED
  BY <1>1, <1>2, <1>3

\* When only App a changes, the sum over the Apps changes as a does.
LEMMA LostChange ==
    ASSUME NEW m \in [Apps -> Seq(MissedType)], NEW n \in [Apps -> Seq(MissedType)], NEW a \in Apps,
           \A b \in Apps : b # a => n[b] = m[b], NEW w
    PROVE  /\ Lost(m, w) \in Nat /\ Lost(n, w) \in Nat
           /\ Lost(n, w) + Occurrences(m[a], w) = Lost(m, w) + Occurrences(n[a], w)
<1>1. ASSUME NEW q \in [Apps -> Seq(MissedType)]
      PROVE  \E g \in [Apps -> Nat] : \A y \in Apps : g[y] = Occurrences(q[y], w)
  <2>1. \A y \in Apps : Occurrences(q[y], w) \in Nat
    BY OccurrencesJoined
  <2> DEFINE g == [y \in Apps |-> Occurrences(q[y], w)]
  <2>2. g \in [Apps -> Nat] /\ \A y \in Apps : g[y] = Occurrences(q[y], w)
    BY <2>1
  <2> QED
    BY <2>2
<1>2. PICK g \in [Apps -> Nat] : \A y \in Apps : g[y] = Occurrences(m[y], w)
  BY <1>1
<1>3. PICK h \in [Apps -> Nat] : \A y \in Apps : h[y] = Occurrences(n[y], w)
  BY <1>1
<1>4. CountsLost(g, m, w) /\ CountsLost(h, n, w)
  BY <1>2, <1>3 DEF CountsLost
<1>5. SameLost(g, h, a)
  BY <1>2, <1>3 DEF SameLost
<1>6. /\ Lost(m, w) \in Nat /\ Lost(n, w) \in Nat
      /\ Lost(n, w) + g[a] = Lost(m, w) + h[a]
  BY ONLY <1>4, <1>5, LostSums
<1> QED
  BY <1>2, <1>3, <1>6

\* n is m with got added for a.
MissingGrow(n, m, a, got) ==
    /\ a \in Apps /\ got \in Seq(MissedType)
    /\ m \in [Apps -> Seq(MissedType)] /\ n \in [Apps -> Seq(MissedType)]
    /\ \A p \in Apps : p # a => n[p] = m[p]
    /\ n[a] = m[a] \o got

\* What is put down in one App is added to the sum.
LEMMA LostGrows ==
    ASSUME NEW m, NEW n, NEW a, NEW got, NEW w, MissingGrow(n, m, a, got)
    PROVE  /\ Lost(m, w) \in Nat /\ Occurrences(got, w) \in Nat
           /\ Lost(n, w) = Lost(m, w) + Occurrences(got, w)
<1>1. /\ Lost(m, w) \in Nat /\ Lost(n, w) \in Nat
      /\ Lost(n, w) + Occurrences(m[a], w) = Lost(m, w) + Occurrences(n[a], w)
  BY LostChange DEF MissingGrow
<1>2. m[a] \in Seq(MissedType) /\ got \in Seq(MissedType)
  BY DEF MissingGrow
<1>3. /\ Occurrences(m[a], w) \in Nat /\ Occurrences(got, w) \in Nat
      /\ Occurrences(m[a] \o got, w) = Occurrences(m[a], w) + Occurrences(got, w)
  BY <1>2, OccurrencesJoined
<1>4. Occurrences(n[a], w) = Occurrences(m[a], w) + Occurrences(got, w)
  BY <1>3 DEF MissingGrow
<1> QED
  BY ONLY <1>1, <1>3, <1>4

\* Options without results have nothing of any word.
LEMMA NothingHeld ==
    ASSUME NEW r, NEW w, \A o \in Options : r[o] = <<>>
    PROVE  Held(r, w) = 0
<1> DEFINE g == [p \in Options |-> 0]
<1>1. /\ g \in [Options -> Nat]
      /\ \A o \in Options : g[o] = 0 /\ g[o] = Occurrences(r[o], w)
  BY OccurrencesOne
<1> HIDE DEF g
<1>2. PICK i : SumsUp(i, g, Options) /\ Held(r, w) = i[Options]
  BY <1>1, HeldIs
<1> QED
  BY <1>1, <1>2, TreeTypes, SumZero

\* Apps without missing tokens have nothing of any word.
LEMMA NothingLost ==
    ASSUME NEW m, NEW w, \A a \in Apps : m[a] = <<>>
    PROVE  Lost(m, w) = 0
<1> DEFINE g == [p \in Apps |-> 0]
<1>1. /\ g \in [Apps -> Nat]
      /\ \A a \in Apps : g[a] = 0 /\ g[a] = Occurrences(m[a], w)
  BY OccurrencesOne
<1> HIDE DEF g
<1>2. PICK i : SumsUp(i, g, Apps) /\ Lost(m, w) = i[Apps]
  BY <1>1, LostIs
<1> QED
  BY <1>1, <1>2, TreeTypes, SumZero

\* What there is of a word, as results r and as missing tokens m.
KeptIn(r, m, w) == Held(r, w) + Lost(m, Missed(w, FALSE))
Kept(st, w) == KeptIn(st.results, st.missing, w)

\* new is n more than old.
More(new, old, n) == old \in Nat /\ n \in Nat /\ new = old + n

\* The sums are numbers.
LEMMA HeldNumber ==
    ASSUME NEW r \in [Options -> Seq(Got)], NEW w
    PROVE  Held(r, w) \in Nat
<1>1. CASE Options = {}
  BY <1>1, NothingHeld
<1>2. CASE Options # {}
  BY <1>2, HeldChange
<1> QED
  BY <1>1, <1>2

LEMMA LostNumber ==
    ASSUME NEW m \in [Apps -> Seq(MissedType)], NEW x
    PROVE  Lost(m, x) \in Nat
  BY TreeTypes, LostChange

LEMMA KeptNumber ==
    ASSUME NEW r, NEW m, NEW w, r \in [Options -> Seq(Got)], m \in [Apps -> Seq(MissedType)]
    PROVE  KeptIn(r, m, w) \in Nat
<1>1. Held(r, w) \in Nat
  BY HeldNumber
<1> DEFINE x == Missed(w, FALSE)
<1>2. Lost(m, x) \in Nat
  BY LostNumber
<1>3. KeptIn(r, m, w) = Held(r, w) + Lost(m, x)
  BY DEF KeptIn
<1> HIDE DEF x
<1> QED
  BY ONLY <1>1, <1>2, <1>3

\* What an option is given is kept.
LEMMA MoreResults ==
    ASSUME NEW r, NEW s, NEW o, NEW got, NEW w, ResultsGrow(s, r, o, got),
           NEW m, m \in [Apps -> Seq(MissedType)]
    PROVE  More(KeptIn(s, m, w), KeptIn(r, m, w), Occurrences(got, w))
<1> DEFINE x == Missed(w, FALSE)
<1>1. /\ Held(r, w) \in Nat /\ Occurrences(got, w) \in Nat
      /\ Held(s, w) = Held(r, w) + Occurrences(got, w)
  BY HeldGrows
<1>2. Lost(m, x) \in Nat
  BY LostNumber
<1>3. /\ KeptIn(r, m, w) = Held(r, w) + Lost(m, x)
      /\ KeptIn(s, m, w) = Held(s, w) + Lost(m, x)
  BY DEF KeptIn
<1> HIDE DEF x
<1> QED
  BY ONLY <1>1, <1>2, <1>3 DEF More

\* What is put down as missing is kept.
LEMMA MoreMissing ==
    ASSUME NEW m, NEW n, NEW a, NEW got, NEW w, MissingGrow(n, m, a, got),
           NEW r, r \in [Options -> Seq(Got)]
    PROVE  More(KeptIn(r, n, w), KeptIn(r, m, w), Occurrences(got, Missed(w, FALSE)))
<1> DEFINE x == Missed(w, FALSE)
<1> HIDE DEF x
<1>1. /\ Lost(m, x) \in Nat /\ Occurrences(got, x) \in Nat
      /\ Lost(n, x) = Lost(m, x) + Occurrences(got, x)
  BY LostGrows
<1>2. Held(r, w) \in Nat
  BY HeldNumber
<1>3. /\ KeptIn(r, m, w) = Held(r, w) + Lost(m, x)
      /\ KeptIn(r, n, w) = Held(r, w) + Lost(n, x)
  BY DEF KeptIn, x
<1>4. More(KeptIn(r, n, w), KeptIn(r, m, w), Occurrences(got, x))
  BY ONLY <1>1, <1>2, <1>3 DEF More
<1> QED
  BY <1>4 DEF x

LEMMA MoreTwice ==
    ASSUME NEW a, NEW b, NEW c, NEW m, NEW n, More(b, a, m), More(c, b, n)
    PROVE  More(c, a, m + n)
  BY DEF More

\* new is st with n more of word w, and the root has not been forgotten.
Adds(new, st, w, n) ==
    /\ new \in TreeType /\ More(Kept(new, w), Kept(st, w), n)
    /\ st.parsed[Root] > 0 => new.parsed[Root] > 0

\* Two changes of the tree in turn.
LEMMA AddsTwice ==
    ASSUME NEW a, NEW b, NEW c, NEW w, NEW m, NEW n, Adds(b, a, w, m), Adds(c, b, w, n)
    PROVE  Adds(c, a, w, m + n)
<1>1. More(Kept(c, w), Kept(a, w), m + n)
  BY MoreTwice DEF Adds
<1> QED
  BY <1>1 DEF Adds

\* A change of neither results nor missing tokens.
LEMMA AddsNothing ==
    ASSUME NEW st \in TreeType, NEW new \in TreeType, NEW w,
           new.results = st.results, new.missing = st.missing,
           st.parsed[Root] > 0 => new.parsed[Root] > 0
    PROVE  Adds(new, st, w, 0)
<1>1. Kept(st, w) \in Nat
  BY KeptNumber, Fields DEF Kept
<1>2. Kept(new, w) = Kept(st, w)
  BY DEF Kept
<1>3. More(Kept(new, w), Kept(st, w), 0)
  BY ONLY <1>1, <1>2 DEF More
<1> QED
  BY <1>3 DEF Adds

\* Option o is given some arguments.
LEMMA GivenAdds ==
    ASSUME NEW st \in TreeType, NEW o \in Options, NEW got \in Seq(Got), NEW w
    PROVE  Adds(Given(st, o, got), st, w, Occurrences(got, w))
<1> DEFINE new == Given(st, o, got)
<1>1. new \in TreeType
  BY GivenType
<1>2. /\ \A p \in Options : p # o => new.results[p] = st.results[p]
      /\ new.results[o] = st.results[o] \o got
      /\ new.missing = st.missing /\ new.parsed = st.parsed
  BY Fields DEF Given, TreeType
<1> HIDE DEF new
<1>3. /\ st.results \in [Options -> Seq(Got)] /\ new.results \in [Options -> Seq(Got)]
      /\ st.missing \in [Apps -> Seq(MissedType)]
  BY <1>1, Fields
<1>4. ResultsGrow(new.results, st.results, o, got)
  BY ONLY <1>2, <1>3 DEF ResultsGrow
<1>5. More(KeptIn(new.results, st.missing, w), KeptIn(st.results, st.missing, w),
           Occurrences(got, w))
  BY ONLY <1>3, <1>4, MoreResults
<1>6. More(Kept(new, w), Kept(st, w), Occurrences(got, w))
  BY <1>2, <1>5 DEF Kept
<1> QED
  BY <1>1, <1>2, <1>6 DEF Adds, new

\* Tokens are put down as missing in App h.
LEMMA PutDownAdds ==
    ASSUME NEW st \in TreeType, NEW new \in TreeType, NEW h \in Apps,
           NEW items \in Seq(MissedType), NEW w,
           new = [st EXCEPT !.missing[h] = @ \o items]
    PROVE  Adds(new, st, w, Occurrences(items, Missed(w, FALSE)))
<1>1. /\ \A p \in Apps : p # h => new.missing[p] = st.missing[p]
      /\ new.missing[h] = st.missing[h] \o items
      /\ new.results = st.results /\ new.parsed = st.parsed
  BY Fields DEF TreeType
<1>2. /\ st.missing \in [Apps -> Seq(MissedType)] /\ new.missing \in [Apps -> Seq(MissedType)]
      /\ st.results \in [Options -> Seq(Got)]
  BY Fields
<1>3. MissingGrow(new.missing, st.missing, h, items)
  BY <1>1, <1>2 DEF MissingGrow
<1>4. More(KeptIn(st.results, new.missing, w), KeptIn(st.results, st.missing, w),
           Occurrences(items, Missed(w, FALSE)))
  BY ONLY <1>2, <1>3, MoreMissing
<1>5. More(Kept(new, w), Kept(st, w), Occurrences(items, Missed(w, FALSE)))
  BY <1>1, <1>4 DEF Kept
<1> QED
  BY <1>1, <1>5 DEF Adds

\* What a change of the tree may do to the words in it.
LEMMA MissingAdds ==
    ASSUME NothingForgotten, NEW st \in TreeType, NEW a \in Apps,
           NEW items \in Seq(MissedType), NEW w
    PROVE  Adds(Missing(st, a, items), st, w, Occurrences(items, Missed(w, FALSE)))
<1> DEFINE h == MissingHome(a)
<1>1. h \in Apps /\ h # NoApp
  <2>1. AppOf[a].extras # "Ignore" /\ a # NoApp
    BY TreeTypes DEF NothingForgotten
  <2>2. AppOf[a].subs \in Seq(Apps)
    BY TreeTypes
  <2> DEFINE subs == AppOf[a].subs
             nameless == { i \in DOMAIN subs : IsGroup(subs[i]) /\ Captures(subs[i]) }
  <2>3. nameless # {} => subs[Min(nameless)] \in Apps
    <3>1. nameless \in SUBSET DOMAIN subs /\ subs \in Seq(Apps)
      BY <2>2
    <3> HIDE DEF nameless, subs
    <3> QED
      BY <3>1, FirstPlace
  <2>4. h = a \/ (nameless # {} /\ h = subs[Min(nameless)])
    BY <2>1 DEF MissingHome
  <2> HIDE DEF h, nameless, subs
  <2> QED
    BY <2>1, <2>3, <2>4, TreeTypes
<1>2. Missing(st, a, items) = [st EXCEPT !.missing[h] = @ \o items]
  BY <1>1 DEF Missing
<1>3. Missing(st, a, items) \in TreeType
  BY MissingType
<1> HIDE DEF h
<1> QED
  BY <1>1, <1>2, <1>3, PutDownAdds

\* Tokens put down as missing are as many as they were.
LEMMA OccurrencesUnmarked ==
    ASSUME NEW ts \in Seq(Tokens), NEW w
    PROVE  Occurrences(Unmarked(ts), Missed(w, FALSE)) = Occurrences(ts, w)
<1> DEFINE u == Unmarked(ts)
           x == Missed(w, FALSE)
<1>1. /\ u \in Seq(MissedType) /\ Len(u) = Len(ts)
      /\ \A i \in 1..Len(ts) : u[i] = Missed(ts[i], FALSE)
  BY UnmarkedType
<1>2. \A t : Missed(t, FALSE) = x <=> t = w
  BY DEF Missed
<1> HIDE DEF u, x
<1>3. DOMAIN u = 1..Len(ts) /\ DOMAIN ts = 1..Len(ts)
  BY <1>1
<1>4. { i \in DOMAIN u : u[i] = x } = { i \in DOMAIN ts : ts[i] = w }
  BY <1>1, <1>2, <1>3
<1> QED
  BY <1>4 DEF Occurrences, u, x

LEMMA WithRestAdds ==
    ASSUME NEW st \in TreeType, NEW a \in Apps, NEW rest \in Seq(Tokens), NEW w
    PROVE  Adds(WithRest(st, a, rest), st, w, Occurrences(rest, w))
<1>1. Unmarked(rest) \in Seq(MissedType) /\ WithRest(st, a, rest) \in TreeType
  BY UnmarkedType, WithRestType
<1>2. WithRest(st, a, rest) = [st EXCEPT !.missing[a] = @ \o Unmarked(rest)]
  BY DEF WithRest
<1>3. Adds(WithRest(st, a, rest), st, w, Occurrences(Unmarked(rest), Missed(w, FALSE)))
  BY <1>1, <1>2, PutDownAdds
<1> QED
  BY <1>3, OccurrencesUnmarked

\* The pre-parse clears nothing: an immediate App has nothing to clear but the
\* missing tokens, which are put back.
LEMMA PreParsedKeeps ==
    ASSUME NothingForgotten, NEW st \in TreeType, NEW a \in Apps
    PROVE  /\ PreParsed(st, a) \in TreeType
           /\ PreParsed(st, a).results = st.results
           /\ PreParsed(st, a).missing = st.missing
           /\ PreParsed(st, a).parsed = st.parsed
<1>1. CASE ~st.preParsed[a]
  BY <1>1, PreParsedType DEF PreParsed, TreeType
<1>2. CASE st.preParsed[a] /\ ~(AppOf[a].immediate /\ ~IsGroup(a))
  BY <1>2, PreParsedType DEF PreParsed, TreeType
<1>3. CASE st.preParsed[a] /\ AppOf[a].immediate /\ ~IsGroup(a)
  <2>1. Subs(a) = {} /\ Opts(a) = {}
    BY <1>3 DEF NothingForgotten, Subs, Opts, ToSet
  <2>2. Subtree[a] = {a}
    BY <2>1, SubtreeIs
  <2>3. OptionsOf(Subtree[a]) = {}
    BY <2>1, <2>2 DEF OptionsOf, Opts
  <2> DEFINE c == Cleared(st, a)
             p == [c.parsed EXCEPT ![a] = st.parsed[a]]
             m == [c.missing EXCEPT ![a] = st.missing[a]]
  <2>4. c \in TreeType
    BY ClearedType
  <2>5. /\ c.parsed = [x \in DOMAIN st.parsed |-> IF x \in {a} THEN 0 ELSE st.parsed[x]]
        /\ c.missing = [x \in DOMAIN st.missing |-> IF x \in {a} THEN <<>> ELSE st.missing[x]]
        /\ c.results = [x \in DOMAIN st.results |-> IF x \in {} THEN <<>> ELSE st.results[x]]
    BY <2>2, <2>3 DEF Cleared
  <2> HIDE DEF c
  <2>6. PreParsed(st, a) = [c EXCEPT !.parsed[a] = st.parsed[a], !.preParsed[a] = TRUE,
                                     !.missing[a] = st.missing[a]]
    BY <1>3 DEF PreParsed, c
  <2>7. /\ PreParsed(st, a).results = c.results
        /\ PreParsed(st, a).missing = m
        /\ PreParsed(st, a).parsed = p
    BY <2>4, <2>6 DEF TreeType
  <2>8. c.results = st.results /\ m = st.missing /\ p = st.parsed
    <3>1. /\ st.parsed \in [Apps -> Nat] /\ st.missing \in [Apps -> Seq(MissedType)]
          /\ st.results \in [Options -> Seq(Got)]
      BY Fields
    <3>2. c.results = st.results
      BY <2>5, <3>1
    <3>3. m = st.missing
      BY <2>5, <3>1
    <3>4. p = st.parsed
      BY <2>5, <3>1
    <3> QED
      BY <3>2, <3>3, <3>4
  <2> HIDE DEF m, p
  <2> QED
    BY <2>7, <2>8, PreParsedType
<1> QED
  BY <1>1, <1>2, <1>3

\* A subcommand begins.
LEMMA BegunAdds ==
    ASSUME NothingForgotten, NEW st \in TreeType, NEW a \in Apps, NEW w
    PROVE  Adds(Begun(st, a), st, w, 0) /\ Begun(st, a).parsed[a] > 0
<1> DEFINE inc == Incremented(st, a)
<1>1. inc \in TreeType
  BY IncrementedType
<1>2. /\ inc.results = st.results /\ inc.missing = st.missing
      /\ inc.parsed = [x \in Apps |-> IF x \in Counted[a] THEN st.parsed[x] + 1 ELSE st.parsed[x]]
  BY DEF Incremented, TreeType
<1> HIDE DEF inc
<1>3. /\ st.parsed[Root] > 0 => inc.parsed[Root] > 0
      /\ inc.parsed[a] > 0
  BY <1>2, Fields, CountedIs, TreeTypes
<1>4. /\ PreParsed(inc, a) \in TreeType /\ PreParsed(inc, a).results = inc.results
      /\ PreParsed(inc, a).missing = inc.missing /\ PreParsed(inc, a).parsed = inc.parsed
  BY <1>1, PreParsedKeeps
<1>5. Begun(st, a) = PreParsed(inc, a)
  BY DEF Begun, inc
<1> QED
  BY <1>1, <1>2, <1>3, <1>4, <1>5, AddsNothing

LEMMA GroupBegunAdds ==
    ASSUME NothingForgotten, NEW st \in TreeType, NEW h \in Apps, NEW w
    PROVE  Adds(GroupBegun(st, h), st, w, 0)
  BY AddsNothing, PreParsedKeeps, GroupBegunType DEF GroupBegun

LEMMA ListingAdds ==
    ASSUME NEW st \in TreeType, NEW a \in Apps, NEW com \in Names, NEW w
    PROVE  Adds(Listing(st, a, com), st, w, 0)
<1>1. /\ Listing(st, a, com) \in TreeType
      /\ Listing(st, a, com).results = st.results /\ Listing(st, a, com).missing = st.missing
      /\ Listing(st, a, com).parsed = st.parsed
  BY ListingType DEF Listing, TreeType
<1> QED
  BY <1>1, AddsNothing

\* Where no option is cleared, every option is ready as it is.
LEMMA NothingCleared ==
    ASSUME NothingForgotten, NEW st, NEW o \in Options
    PROVE  Ready(st, o) = st
BY DEF NothingForgotten, Ready

-----------------------------------------------------------------------------
\* The words that are followed: what stands for them is nothing else.
Plain == Words \ Brought

\* A word that is followed is none of the tokens that are used up.
LEMMA PlainWord ==
    ASSUME NEW w \in Plain
    PROVE  /\ w \in Tokens /\ w \notin Names /\ w \notin OptionTokens /\ w \notin DottedWords
           /\ w # Mark /\ w # Terminator /\ w # Flagged
           /\ \A tok \in OptionTokens : TokenOf[tok].value # w
  BY LinesAssumption DEF Plain, Brought, Tokens

\* The words of a line, and of what is left of it.
LEMMA Splits ==
    ASSUME NEW w, args \in Seq(Tokens), args # <<>>
    PROVE  /\ Occurrences(args, w) = Occurrences(<<Token>>, w) + Occurrences(Tail(args), w)
           /\ Occurrences(<<Token>>, w) \in Nat /\ Occurrences(Tail(args), w) \in Nat
           /\ Token # w => Occurrences(<<Token>>, w) = 0
<1>1. <<Token>> \in Seq(Tokens) /\ Tail(args) \in Seq(Tokens) /\ args = <<Token>> \o Tail(args)
  BY DEF Token
<1>2. /\ Occurrences(<<Token>>, w) \in Nat /\ Occurrences(Tail(args), w) \in Nat
      /\ Occurrences(<<Token>> \o Tail(args), w)
            = Occurrences(<<Token>>, w) + Occurrences(Tail(args), w)
  BY <1>1, OccurrencesJoined
<1> QED
  BY <1>1, <1>2, OccurrencesOne

\* A step moves what it takes from the line into the tree, or throws.
Moves(w) ==
    \E n \in Nat :
        /\ Adds(Tree', Tree, w, n)
        /\ \/ status' \in Errors
           \/ status' \in {"parsing", "done"} /\ Occurrences(args, w) = Occurrences(args', w) + n

\* A step that leaves the tree alone.
LEMMA MovesNothing ==
    ASSUME TypeOK, NEW w, UNCHANGED tree,
           \/ status' \in Errors
           \/ status' \in {"parsing", "done"} /\ Occurrences(args, w) = Occurrences(args', w)
              /\ Occurrences(args, w) \in Nat
    PROVE  Moves(w)
<1>1. Tree \in TreeType /\ Tree' = Tree
  BY TreeKept, TreeTyped
<1>2. Adds(Tree', Tree, w, 0)
  BY <1>1, AddsNothing
<1> QED
  BY <1>2 DEF Moves

\* A missing token is itself; one classified as a mark is no word.
LEMMA MissedOne ==
    ASSUME NEW w, NEW t
    PROVE  /\ Occurrences(<<Missed(t, FALSE)>>, Missed(w, FALSE)) = Occurrences(<<t>>, w)
           /\ Occurrences(<<Missed(t, TRUE)>>, Missed(w, FALSE)) = 0
<1>1. CASE t = w
  BY <1>1, OccurrencesOne DEF Missed
<1>2. CASE t # w
  BY <1>2, OccurrencesOne DEF Missed
<1>3. Missed(t, TRUE) # Missed(w, FALSE)
  BY DEF Missed
<1> QED
  BY <1>1, <1>2, <1>3, OccurrencesOne

\* Each thing _parse_positional may do with a word moves it once.
LEMMA ParsePositionalMoves ==
    ASSUME NothingForgotten, Typed, NEW class, Classified(class), NEW accepted, NEW declined,
           ParsePositional(accepted, declined), NEW w \in Plain
    PROVE  Moves(w)
<1> DEFINE goes == PositionalGoes(Top.app, Token)
           here == Occurrences(<<Token>>, w)
           rest == Occurrences(Tail(args), w)
<1>1. /\ Tree \in TreeType /\ Tail(args) \in Seq(Tokens) /\ Token \in Tokens /\ Stack(frames)
      /\ args \in Seq(Tokens) /\ args # <<>> /\ status = "parsing" /\ TypeOK
  BY WhileRunning DEF Typed
<1>2. /\ goes.at \in Apps
      /\ goes.how = "option" => PositionalFor(goes.at, Token) \in Options
      /\ goes.how = "subcommand" => Token \in Names /\ Token \in Apps
  BY <1>1, TopType, PositionalGoesType, Named
<1>3. /\ here \in Nat /\ rest \in Nat /\ Occurrences(args, w) = here + rest
      /\ Token # w => here = 0
  BY <1>1, Splits
<1>4. Occurrences(<<>>, w) = 0
  BY OccurrencesOne
<1> HIDE DEF goes, here, rest
<1>5. CASE UNCHANGED tree /\ status' \in Errors
  BY <1>1, <1>5, MovesNothing
<1>6. CASE UNCHANGED <<args, status, tree>>
  <2>1. Occurrences(args, w) \in Nat
    BY <1>3
  <2> QED
    BY <1>1, <1>6, <2>1, MovesNothing
<1>7. CASE /\ goes.how = "option" /\ Consumes(Tail(args))
           /\ LET o == PositionalFor(goes.at, Token)
              IN  Becomes(GroupBegun(Given(Ready(Tree, o), o, <<Token>>), goes.at))
  <2> DEFINE st == Given(Ready(Tree, PositionalFor(goes.at, Token)),
                         PositionalFor(goes.at, Token), <<Token>>)
             new == GroupBegun(st, goes.at)
  <2>1. <<Token>> \in Seq(Got) /\ PositionalFor(goes.at, Token) \in Options
    BY <1>1, <1>2, <1>7 DEF Got
  <2>2. Adds(st, Tree, w, here)
    <3>1. st = Given(Tree, PositionalFor(goes.at, Token), <<Token>>)
      BY <2>1, NothingCleared
    <3> HIDE DEF st
    <3> QED
      BY <1>1, <2>1, <3>1, GivenAdds DEF here
  <2>3. st \in TreeType
    BY <2>2 DEF Adds
  <2> HIDE DEF st
  <2>4. Adds(new, st, w, 0)
    BY <1>2, <2>3, GroupBegunAdds
  <2>5. Adds(new, Tree, w, here + 0) /\ new \in TreeType
    BY <2>2, <2>4, AddsTwice DEF Adds
  <2>6. Becomes(new)
    BY <1>7 DEF st
  <2> HIDE DEF new
  <2>7. Tree' = new
    BY <2>5, <2>6, BecomesType
  <2>8. here + 0 = here
    BY <1>3
  <2>9. args' = Tail(args) /\ status' = "parsing"
    BY <1>1, <1>7 DEF Consumes
  <2>10. Occurrences(args, w) = Occurrences(args', w) + here
    BY <1>3, <2>9 DEF rest
  <2> QED
    BY <1>3, <2>5, <2>7, <2>8, <2>9, <2>10 DEF Moves
<1>8. CASE goes.how = "subcommand" /\ Consumes(Tail(args)) /\ Becomes(Begun(Tree, Token))
  <2>1. Adds(Begun(Tree, Token), Tree, w, 0)
    BY <1>1, <1>2, <1>8, BegunAdds
  <2>2. Adds(Tree', Tree, w, 0)
    BY <1>8, <2>1, BecomesType DEF Adds
  <2>3. args' = Tail(args) /\ status' = "parsing" /\ here = 0
    BY <1>1, <1>2, <1>3, <1>8, PlainWord DEF Consumes
  <2>4. Occurrences(args, w) = Occurrences(args', w) + 0
    BY <1>3, <2>3 DEF rest
  <2> QED
    BY <2>2, <2>3, <2>4 DEF Moves
<1>9. CASE LET st == Missing(Tree, goes.at, <<Missed(Token, FALSE)>>)
           IN  \/ Becomes(st) /\ Consumes(Tail(args))
               \/ Becomes(WithRest(st, goes.at, Tail(args))) /\ Consumes(<<>>)
  <2> DEFINE st == Missing(Tree, goes.at, <<Missed(Token, FALSE)>>)
             new == WithRest(st, goes.at, Tail(args))
  <2>1. <<Missed(Token, FALSE)>> \in Seq(MissedType)
    BY <1>1, MissedTyped
  <2>2. Adds(st, Tree, w, Occurrences(<<Missed(Token, FALSE)>>, Missed(w, FALSE)))
    BY <1>1, <1>2, <2>1, MissingAdds
  <2>3. Adds(st, Tree, w, here) /\ st \in TreeType
    BY <2>2, MissedOne DEF here, Adds
  <2> HIDE DEF st
  <2>4. Adds(new, st, w, rest)
    BY <1>1, <1>2, <2>3, WithRestAdds DEF rest
  <2>5. Adds(new, Tree, w, here + rest) /\ new \in TreeType
    BY <2>3, <2>4, AddsTwice DEF Adds
  <2>6. CASE Becomes(st) /\ Consumes(Tail(args))
    <3>1. Tree' = st
      BY <2>3, <2>6, BecomesType
    <3>2. args' = Tail(args) /\ status' = "parsing"
      BY <1>1, <2>6 DEF Consumes
    <3>3. Occurrences(args, w) = Occurrences(args', w) + here
      BY <1>3, <3>2 DEF rest
    <3> QED
      BY <1>3, <2>3, <3>1, <3>2, <3>3 DEF Moves
  <2>7. CASE Becomes(new) /\ Consumes(<<>>)
    <3> HIDE DEF new
    <3>1. Tree' = new
      BY <2>5, <2>7, BecomesType
    <3>2. args' = <<>> /\ status' = "parsing"
      BY <1>1, <2>7 DEF Consumes
    <3>3. here + rest \in Nat /\ Occurrences(args, w) = Occurrences(args', w) + (here + rest)
      BY <1>3, <1>4, <3>2
    <3> QED
      BY <2>5, <3>1, <3>2, <3>3 DEF Moves
  <2> QED
    BY <1>9, <2>6, <2>7 DEF st
<1>10. "ExtrasError" \in Errors
  BY DEF Errors
<1>11. goes.how = "missing" => \/ UNCHANGED tree /\ status' \in Errors
                               \/ LET st == Missing(Tree, goes.at, <<Missed(Token, FALSE)>>)
                                  IN  \/ Becomes(st) /\ Consumes(Tail(args))
                                      \/ Becomes(WithRest(st, goes.at, Tail(args))) /\ Consumes(<<>>)
  BY <1>10 DEF ParsePositional, goes, Throws
<1>12. goes.how = "option" => ~OptionOf[PositionalFor(goes.at, Token)].trigger
  BY <1>2 DEF NothingForgotten
<1> QED
  BY <1>5, <1>6, <1>7, <1>8, <1>9, <1>10, <1>11, <1>12 DEF ParsePositional, goes, Throws

\* A sequence cut in two.
LEMMA OccurrencesCut ==
    ASSUME NEW s \in Seq(Tokens), NEW n \in 0..Len(s), NEW w
    PROVE  /\ SubSeq(s, 1, n) \in Seq(Tokens) /\ SubSeq(s, n + 1, Len(s)) \in Seq(Tokens)
           /\ Occurrences(SubSeq(s, 1, n), w) \in Nat
           /\ Occurrences(SubSeq(s, n + 1, Len(s)), w) \in Nat
           /\ Occurrences(s, w) = Occurrences(SubSeq(s, 1, n), w)
                                    + Occurrences(SubSeq(s, n + 1, Len(s)), w)
<1> DEFINE x == SubSeq(s, 1, n)
           y == SubSeq(s, n + 1, Len(s))
<1>1. n + 1 \in 1..Len(s)+1 /\ Len(s) \in Nat /\ n \in Nat /\ n + 1 - 1 = n
  OBVIOUS
<1>2. /\ x \in Seq(Tokens) /\ y \in Seq(Tokens) /\ Len(x) = n /\ Len(y) = Len(s) - (n + 1) + 1
      /\ \A i \in 1..n : x[i] = s[i]
      /\ \A i \in 1..Len(y) : y[i] = s[n + 1 - 1 + i]
  BY <1>1, Parts
<1> HIDE DEF x, y
<1>3. Len(s) = Len(x) + Len(y)
  BY <1>1, <1>2
<1>4. /\ \A i \in 1..Len(x) : s[i] = x[i]
      /\ \A i \in 1..Len(y) : s[Len(x) + i] = y[i]
  BY <1>1, <1>2
<1>5. x \o y = s
  BY <1>2, <1>3, <1>4, Joined
<1>6. /\ Occurrences(x, w) \in Nat /\ Occurrences(y, w) \in Nat
      /\ Occurrences(x \o y, w) = Occurrences(x, w) + Occurrences(y, w)
  BY <1>2, OccurrencesJoined
<1> QED
  BY <1>2, <1>5, <1>6 DEF x, y

\* An unknown option, and the tokens taken for its arguments.
LEMMA UnrecognisedMoves ==
    ASSUME NothingForgotten, Typed, NEW class, Classified(class),
           NEW a \in Apps, NEW n \in 0..Len(Tail(args)), Unrecognised(a, n), NEW w
    PROVE  Moves(w)
<1> DEFINE st == Missing(Tree, a, <<Missed(Token, FALSE)>>)
           more == SubSeq(Tail(args), 1, n)
           left == SubSeq(Tail(args), n + 1, Len(Tail(args)))
           after == IF AppOf[a].prefix = "On" THEN WithRest(st, a, more)
                    ELSE Missing(st, a, Unmarked(more))
           here == Occurrences(<<Token>>, w)
           taken == Occurrences(more, w)
           kept == Occurrences(left, w)
<1>1. /\ Tree \in TreeType /\ Token \in Tokens /\ TypeOK /\ status = "parsing"
      /\ args \in Seq(Tokens) /\ args # <<>> /\ Tail(args) \in Seq(Tokens)
  BY WhileRunning DEF Typed
<1>2. /\ here \in Nat /\ Occurrences(Tail(args), w) \in Nat
      /\ Occurrences(args, w) = here + Occurrences(Tail(args), w)
  BY <1>1, Splits
<1>3. /\ more \in Seq(Tokens) /\ left \in Seq(Tokens) /\ taken \in Nat /\ kept \in Nat
      /\ Occurrences(Tail(args), w) = taken + kept
  BY <1>1, OccurrencesCut
<1>4. SubSeq(args, 2, n + 1) = more /\ SubSeq(args, n + 2, Len(args)) = left
  <2>1. /\ Len(Tail(args)) = Len(args) - 1 /\ Len(args) \in Nat \ {0}
        /\ \A i \in 1..Len(args)-1 : Tail(args)[i] = args[i + 1]
    BY <1>1
  <2> DEFINE t == Tail(args)
             u == SubSeq(args, 2, n + 1)
             v == SubSeq(args, n + 2, Len(args))
  <2>2. n \in 0..Len(t) /\ n \in Nat
    OBVIOUS
  <2> HIDE DEF t
  <2>3. /\ \A i \in 2..(n + 1) : args[i] \in Tokens
        /\ \A i \in (n + 2)..Len(args) : args[i] \in Tokens
        /\ \A i \in 1..n : t[i] \in Tokens
        /\ \A i \in (n + 1)..Len(t) : t[i] \in Tokens
    BY <1>1, <2>1, <2>2 DEF t
  <2>4. /\ u \in Seq(Tokens) /\ Len(u) = n /\ \A i \in 1..n : u[i] = args[i + 1]
        /\ v \in Seq(Tokens) /\ Len(v) = Len(args) - 1 - n
        /\ \A i \in 1..(Len(args) - 1 - n) : v[i] = args[n + 1 + i]
    <3>1. 2 \in 1..Len(args)+1 /\ n + 1 \in 1..Len(args) /\ n + 2 \in 1..Len(args)+1
      BY <2>1, <2>2 DEF t
    <3>2. /\ u \in Seq(Tokens) /\ Len(u) = n + 1 - 2 + 1
          /\ \A i \in 1..(n + 1 - 2 + 1) : u[i] = args[2 + i - 1]
      BY <1>1, <2>2, <2>3, <3>1, SubSeqProperties
    <3>3. /\ v \in Seq(Tokens) /\ Len(v) = Len(args) - (n + 2) + 1
          /\ \A i \in 1..(Len(args) - (n + 2) + 1) : v[i] = args[n + 2 - 1 + i]
      BY <1>1, <3>1, Parts
    <3>4. n + 1 - 2 + 1 = n /\ Len(args) - (n + 2) + 1 = Len(args) - 1 - n /\ n + 2 - 1 = n + 1
          /\ \A i \in 1..n : 2 + i - 1 = i + 1
      BY <2>1, <2>2
    <3> HIDE DEF u, v
    <3> QED
      BY <3>2, <3>3, <3>4
  <2>5. /\ more \in Seq(Tokens) /\ Len(more) = n /\ \A i \in 1..n : more[i] = t[i]
        /\ left \in Seq(Tokens) /\ Len(left) = Len(t) - n
        /\ \A i \in 1..(Len(t) - n) : left[i] = t[n + i]
    <3>1. t \in Seq(Tokens) /\ n \in 0..Len(t) /\ n + 1 \in 1..Len(t)+1
      BY <1>1, <2>1, <2>2 DEF t
    <3>2. /\ more \in Seq(Tokens) /\ Len(more) = n /\ \A i \in 1..n : more[i] = t[i]
          /\ left \in Seq(Tokens) /\ Len(left) = Len(t) - (n + 1) + 1
          /\ \A i \in 1..(Len(t) - (n + 1) + 1) : left[i] = t[n + 1 - 1 + i]
      BY <3>1, Parts DEF t
    <3>3. Len(t) - (n + 1) + 1 = Len(t) - n /\ n + 1 - 1 = n
      BY <3>1
    <3> HIDE DEF more, left
    <3> QED
      BY <3>2, <3>3
  <2>6. \A i \in 1..n : t[i] = args[i + 1]
    BY <2>1, <2>2 DEF t
  <2>7. Len(t) - n = Len(args) - 1 - n /\ \A i \in 1..(Len(t) - n) : t[n + i] = args[n + 1 + i]
    <3>1. Len(t) = Len(args) - 1 /\ \A j \in 1..Len(t) : t[j] = args[j + 1]
      BY <2>1 DEF t
    <3>2. ASSUME NEW i \in 1..(Len(t) - n) PROVE t[n + i] = args[n + 1 + i]
      <4>1. n + i \in 1..Len(t) /\ (n + i) + 1 = n + 1 + i
        BY <2>1, <2>2, <3>1
      <4> QED
        BY <3>1, <4>1
    <3> QED
      BY <2>1, <2>2, <3>1, <3>2
  <2> HIDE DEF u, v, more, left
  <2>8. u = more
    BY <2>4, <2>5, <2>6, SeqEqual
  <2>9. v = left
    <3>1. Len(v) = Len(left) /\ \A i \in 1..Len(v) : v[i] = left[i]
      BY <2>4, <2>5, <2>7
    <3> QED
      BY <2>4, <2>5, <3>1, SeqEqual
  <2> QED
    BY <2>8, <2>9 DEF u, v
<1> HIDE DEF more, left
<1>5. /\ <<Missed(Token, FALSE)>> \in Seq(MissedType) /\ Unmarked(more) \in Seq(MissedType)
      /\ Occurrences(Unmarked(more), Missed(w, FALSE)) = taken
  BY <1>1, <1>3, MissedTyped, UnmarkedType, OccurrencesUnmarked
<1>6. Adds(st, Tree, w, Occurrences(<<Missed(Token, FALSE)>>, Missed(w, FALSE)))
  BY <1>1, <1>5, MissingAdds
<1>7. Adds(st, Tree, w, here) /\ st \in TreeType
  BY <1>6, MissedOne DEF Adds
<1> HIDE DEF st
<1>8. Adds(after, st, w, taken)
  <2>1. Adds(WithRest(st, a, more), st, w, taken)
    BY <1>3, <1>7, WithRestAdds
  <2>2. Adds(Missing(st, a, Unmarked(more)), st, w, taken)
    <3>1. Adds(Missing(st, a, Unmarked(more)), st, w,
               Occurrences(Unmarked(more), Missed(w, FALSE)))
      BY <1>5, <1>7, MissingAdds
    <3> QED
      BY <1>5, <3>1
  <2> QED
    BY <2>1, <2>2
<1> HIDE DEF after, taken, kept, here
<1>9. Adds(after, Tree, w, here + taken) /\ after \in TreeType
  BY <1>7, <1>8, AddsTwice DEF Adds
<1>10. CASE Throws("ExtrasError") /\ UNCHANGED tree
  BY <1>1, <1>10, MovesNothing DEF Throws, Errors
<1>11. CASE Becomes(after) /\ Consumes(left)
  <2>1. Tree' = after
    BY <1>9, <1>11, BecomesType
  <2>2. args' = left /\ status' = "parsing"
    BY <1>1, <1>11 DEF Consumes
  <2>3. here + taken \in Nat /\ Occurrences(args, w) = Occurrences(args', w) + (here + taken)
    BY <1>2, <1>3, <2>2 DEF kept
  <2> QED
    BY <1>9, <2>1, <2>2, <2>3 DEF Moves
<1> QED
  BY <1>4, <1>10, <1>11 DEF Unrecognised, st, after

\* What an option takes of a plain word is what is gone from the line.
LEMMA CollectedMoves ==
    ASSUME NEW h \in Apps, NEW o \in Options, NEW value \in Words \cup {NoValue},
           NEW rest \in Seq(Tokens), NEW w \in Plain, value # w
    PROVE  LET c == Collected(h, o, value, rest)
           IN  /\ Occurrences(c.got, w) \in Nat /\ Occurrences(c.left, w) \in Nat
               /\ Occurrences(rest, w) = Occurrences(c.left, w) + Occurrences(c.got, w)
<1> DEFINE c == Collected(h, o, value, rest)
<1>1. PICK inline \in Seq(Got), n \in 0..Len(rest), flag \in Seq(Got) :
            Took(c, value, rest, inline, n, flag)
  BY CollectedIs
<1>2. c.left \in Seq(Tokens)
  BY CollectedType
<1> HIDE DEF c
<1> DEFINE x == SubSeq(rest, 1, n)
           y == SubSeq(rest, n + 1, Len(rest))
<1>3. /\ x \in Seq(Tokens) /\ y \in Seq(Tokens)
      /\ Occurrences(x, w) \in Nat /\ Occurrences(y, w) \in Nat
      /\ Occurrences(rest, w) = Occurrences(x, w) + Occurrences(y, w)
  BY OccurrencesCut
<1>4. w # Mark /\ w # Flagged
  BY PlainWord
<1>5. Occurrences(inline, w) = 0 /\ Occurrences(flag, w) = 0
  <2>1. Occurrences(<<Flagged>>, w) = 0 /\ Occurrences(<<>>, w) = 0
        /\ Occurrences(<<value>>, w) = 0
    BY <1>4, OccurrencesOne
  <2> QED
    BY <1>1, <2>1 DEF Took
<1>6. c.got = (inline \o x) \o flag
  BY <1>1 DEF Took
<1>7. c.left = y \/ (y # <<>> /\ Head(y) = Mark /\ c.left = Tail(y))
  BY <1>1 DEF Took
<1> HIDE DEF x, y
<1>8. Occurrences(c.got, w) = Occurrences(x, w)
  <2>1. x \in Seq(Got)
    BY <1>3 DEF Got
  <2>2. inline \o x \in Seq(Got)
    BY <2>1, ConcatProperties
  <2>3. Occurrences(inline \o x, w) = Occurrences(inline, w) + Occurrences(x, w)
    BY <2>1, OccurrencesJoined
  <2>4. Occurrences((inline \o x) \o flag, w)
          = Occurrences(inline \o x, w) + Occurrences(flag, w)
    BY <2>2, OccurrencesJoined
  <2>5. Occurrences(inline \o x, w) = Occurrences(x, w)
    BY ONLY <1>3, <1>5, <2>3
  <2>6. Occurrences((inline \o x) \o flag, w) = Occurrences(x, w)
    BY ONLY <1>3, <1>5, <2>4, <2>5
  <2> QED
    BY <1>6, <2>6
<1>9. Occurrences(c.left, w) = Occurrences(y, w)
  <2>1. CASE c.left = y
    BY <2>1
  <2>2. CASE y # <<>> /\ Head(y) = Mark /\ c.left = Tail(y)
    <3>1. y = <<Mark>> \o Tail(y) /\ <<Mark>> \in Seq(Tokens) /\ Tail(y) \in Seq(Tokens)
      BY <1>3, <2>2, Named
    <3>2. /\ Occurrences(Tail(y), w) \in Nat
          /\ Occurrences(<<Mark>> \o Tail(y), w)
                = Occurrences(<<Mark>>, w) + Occurrences(Tail(y), w)
      BY <3>1, OccurrencesJoined
    <3>3. Occurrences(<<Mark>>, w) = 0
      BY <1>4, OccurrencesOne
    <3>4. Occurrences(y, w) = Occurrences(<<Mark>>, w) + Occurrences(Tail(y), w)
      BY <3>1, <3>2
    <3> QED
      BY <2>2, <3>2, <3>3, <3>4
  <2> QED
    BY <1>7, <2>1, <2>2
<1> QED
  BY <1>3, <1>8, <1>9 DEF c

\* An option gets what it takes from the line, and dotted ones begin an App.
LEMMA TakeOptionMoves ==
    ASSUME NothingForgotten, Typed, Classified("OPTION"), Token \in OptionTokens,
           NEW h \in Apps, NamedBy(h, Token) # {},
           NEW dot \in Apps \cup {NoApp}, dot # NoApp => TokenOf[Token].sub \in Names,
           TakeOption(h, dot), NEW w \in Plain
    PROVE  Moves(w)
<1> DEFINE o == AppOf[h].opts[Min(NamedBy(h, Token))]
           sub == TokenOf[Token].sub
           c == Collected(h, o, TokenOf[Token].value, Tail(args))
           st == Given(Ready(Tree, o), o, c.got)
           g == GroupBegun(st, h)
           after == IF dot = NoApp THEN g ELSE Begun(Listing(g, dot, sub), dot)
           taken == Occurrences(c.got, w)
           left == Occurrences(c.left, w)
<1>1. /\ Tree \in TreeType /\ Tail(args) \in Seq(Tokens) /\ TypeOK /\ status = "parsing"
      /\ args \in Seq(Tokens) /\ args # <<>>
  BY WhileRunning DEF Typed
<1>2. o \in Options /\ TokenOf[Token].value \in Words \cup {NoValue}
  BY Named, NamedByType
<1>3. TokenOf[Token].value # w /\ Token # w
  BY PlainWord
<1> HIDE DEF o
<1>4. /\ Occurrences(args, w) = Occurrences(<<Token>>, w) + Occurrences(Tail(args), w)
      /\ Occurrences(<<Token>>, w) = 0
  BY <1>1, <1>3, Splits
<1>5. /\ c.got \in Seq(Got) /\ taken \in Nat /\ left \in Nat
      /\ Occurrences(Tail(args), w) = left + taken
  BY <1>1, <1>2, <1>3, CollectedType, CollectedMoves
<1>6. Occurrences(args, w) = left + taken
  BY ONLY <1>4, <1>5
<1> HIDE DEF c
<1>7. Adds(st, Tree, w, taken) /\ st \in TreeType
  <2>1. st = Given(Tree, o, c.got)
    BY <1>2, NothingCleared
  <2> HIDE DEF st
  <2> QED
    BY <1>1, <1>2, <1>5, <2>1, GivenAdds DEF Adds
<1> HIDE DEF st
<1>8. Adds(g, st, w, 0) /\ g \in TreeType
  BY <1>7, GroupBegunAdds DEF Adds
<1>9. Adds(g, Tree, w, taken + 0)
  BY <1>7, <1>8, AddsTwice
<1>10. taken + 0 = taken
  BY <1>5
<1> HIDE DEF g, taken, left
<1>11. Adds(after, Tree, w, taken) /\ after \in TreeType
  <2>1. CASE dot = NoApp
    BY <1>8, <1>9, <1>10, <2>1
  <2>2. CASE dot # NoApp
    <3> DEFINE l == Listing(g, dot, sub)
    <3>1. dot \in Apps /\ sub \in Names
      BY <2>2
    <3>2. Adds(l, g, w, 0) /\ l \in TreeType
      BY <1>8, <3>1, ListingAdds DEF Adds
    <3> HIDE DEF l
    <3>3. Adds(Begun(l, dot), l, w, 0)
      BY <3>1, <3>2, BegunAdds
    <3>4. Adds(Begun(l, dot), g, w, 0 + 0)
      BY <3>2, <3>3, AddsTwice
    <3>5. Adds(Begun(l, dot), Tree, w, (taken + 0) + (0 + 0))
      BY <1>9, <3>4, AddsTwice
    <3>6. (taken + 0) + (0 + 0) = taken
      BY <1>5
    <3>7. Adds(Begun(l, dot), Tree, w, taken)
      BY <3>5, <3>6
    <3> QED
      BY <2>2, <3>7 DEF l, Adds
  <2> QED
    BY <2>1, <2>2
<1>12. \/ Becomes(st) /\ (Throws("ArgumentMismatch") \/ Throws("ProcessError"))
       \/ /\ Becomes(after)
          /\ \/ Consumes(c.left)
             \/ Throws("ProcessError")
  BY DEF TakeOption, o, c, st, g
<1> HIDE DEF after
<1>13. CASE Becomes(st) /\ (Throws("ArgumentMismatch") \/ Throws("ProcessError"))
  <2>1. Tree' = st /\ status' \in Errors
    BY <1>7, <1>13, BecomesType DEF Throws, Errors
  <2> QED
    BY <1>5, <1>7, <2>1 DEF Moves, taken
<1>14. CASE Becomes(after) /\ Throws("ProcessError")
  <2>1. Tree' = after /\ status' \in Errors
    BY <1>11, <1>14, BecomesType DEF Throws, Errors
  <2> QED
    BY <1>5, <1>11, <2>1 DEF Moves, taken
<1>15. CASE Becomes(after) /\ Consumes(c.left)
  <2>1. Tree' = after /\ args' = c.left /\ status' = "parsing"
    BY <1>1, <1>11, <1>15, BecomesType DEF Consumes
  <2>2. Occurrences(args, w) = Occurrences(args', w) + taken
    BY <1>6, <2>1 DEF left
  <2>3. taken \in Nat
    BY <1>5 DEF taken
  <2> QED
    BY <1>11, <2>1, <2>2, <2>3 DEF Moves
<1> QED
  BY <1>12, <1>13, <1>14, <1>15

LEMMA AppendIs ==
    ASSUME NEW s \in Seq(MissedType), NEW x \in MissedType
    PROVE  Append(s, x) = s \o <<x>> /\ s \o <<x>> \in Seq(MissedType)
  OBVIOUS

\* The mark is no word; after a prefix command the rest of the line is missing.
LEMMA PositionalMarkMoves ==
    ASSUME NothingForgotten, Typed, PositionalMark, NEW w \in Plain
    PROVE  Moves(w)
<1> DEFINE a == Top.app
           kept == [Tree EXCEPT !.missing[a] = Append(@, Missed(Mark, TRUE))]
           item == <<Missed(Mark, TRUE)>>
           rest == Occurrences(Tail(args), w)
<1>1. Classified("POSITIONAL_MARK") /\ Token = Mark
  <2>1. Classified("POSITIONAL_MARK")
    BY DEF PositionalMark
  <2>2. Recognize(Top.app, Token, TRUE) = "POSITIONAL_MARK"
    BY <2>1 DEF Classified
  <2> QED
    BY <2>1, <2>2 DEF Recognize
<1>2. /\ Tree \in TreeType /\ Tail(args) \in Seq(Tokens) /\ TypeOK /\ status = "parsing"
      /\ args \in Seq(Tokens) /\ args # <<>> /\ Stack(frames)
  BY <1>1, WhileRunning DEF Typed
<1>3. a \in Apps
  BY <1>2, TopType
<1>4. rest \in Nat /\ Occurrences(args, w) = rest
  <2>1. /\ Occurrences(args, w) = Occurrences(<<Token>>, w) + Occurrences(Tail(args), w)
        /\ Occurrences(<<Token>>, w) = 0 /\ Occurrences(Tail(args), w) \in Nat
    BY <1>1, <1>2, Splits, PlainWord
  <2> QED
    BY ONLY <2>1
<1>5. item \in Seq(MissedType) /\ Occurrences(item, Missed(w, FALSE)) = 0
  BY Named, MissedTyped, MissedOne
<1>6. Adds(kept, Tree, w, 0) /\ kept \in TreeType
  <2>1. Tree.missing[a] \in Seq(MissedType) /\ Missed(Mark, TRUE) \in MissedType
    BY <1>2, <1>3, Fields, Named, MissedTyped
  <2>2. Append(Tree.missing[a], Missed(Mark, TRUE)) = Tree.missing[a] \o item
    BY ONLY <2>1, AppendIs
  <2>3. Tree.missing[a] \o item \in Seq(MissedType)
    BY ONLY <2>1, AppendIs
  <2>4. [Tree.missing EXCEPT ![a] = Tree.missing[a] \o item] \in [Apps -> Seq(MissedType)]
    BY <1>2, <1>3, <2>3, Fields, FunctionChange
  <2>5. [Tree EXCEPT !.missing = [Tree.missing EXCEPT ![a] = Tree.missing[a] \o item]] \in TreeType
    BY <1>2, <2>4, Fields
  <2>6. kept = [Tree EXCEPT !.missing[a] = @ \o item] /\ kept \in TreeType
    BY <2>2, <2>5
  <2> HIDE DEF kept, item
  <2>7. Adds(kept, Tree, w, Occurrences(item, Missed(w, FALSE)))
    BY <1>2, <1>3, <1>5, <2>6, PutDownAdds
  <2> QED
    BY <1>5, <2>6, <2>7
<1>7. Adds(WithRest(kept, a, Tail(args)), kept, w, rest)
  BY <1>2, <1>3, <1>6, WithRestAdds
<1>8. Adds(Missing(Tree, a, item), Tree, w, Occurrences(item, Missed(w, FALSE)))
  BY <1>2, <1>3, <1>5, MissingAdds
<1>9. \/ Becomes(WithRest(kept, a, Tail(args))) /\ Consumes(<<>>)
      \/ UNCHANGED tree /\ Consumes(Tail(args))
      \/ UNCHANGED tree /\ Throws("ExtrasError")
      \/ Becomes(Missing(Tree, a, item)) /\ Consumes(Tail(args))
  BY DEF PositionalMark
<1> HIDE DEF kept, a, item
<1>10. CASE Becomes(WithRest(kept, a, Tail(args))) /\ Consumes(<<>>)
  <2> DEFINE new == WithRest(kept, a, Tail(args))
  <2>1. Adds(new, Tree, w, 0 + rest) /\ new \in TreeType
    BY <1>6, <1>7, AddsTwice DEF Adds
  <2>2. 0 + rest = rest
    BY <1>4
  <2> HIDE DEF new
  <2>3. Tree' = new
    BY <1>10, <2>1, BecomesType DEF new
  <2>4. args' = <<>> /\ status' = "parsing" /\ Occurrences(<<>>, w) = 0
    BY <1>2, <1>10, OccurrencesOne DEF Consumes
  <2> HIDE DEF rest
  <2>5. Occurrences(args, w) = Occurrences(args', w) + rest
    BY <1>4, <2>4
  <2> QED
    BY <1>4, <2>1, <2>2, <2>3, <2>4, <2>5 DEF Moves
<1>11. CASE UNCHANGED tree /\ Consumes(Tail(args))
  <2>1. args' = Tail(args) /\ status' = "parsing"
    BY <1>2, <1>11 DEF Consumes
  <2> QED
    BY <1>2, <1>4, <1>11, <2>1, MovesNothing
<1>12. CASE UNCHANGED tree /\ Throws("ExtrasError")
  BY <1>2, <1>12, MovesNothing DEF Throws, Errors
<1>13. CASE Becomes(Missing(Tree, a, item)) /\ Consumes(Tail(args))
  <2>1. Adds(Missing(Tree, a, item), Tree, w, 0)
    BY <1>5, <1>8
  <2>2. Tree' = Missing(Tree, a, item)
    BY <1>13, <2>1, BecomesType DEF Adds
  <2>3. args' = Tail(args) /\ status' = "parsing"
    BY <1>2, <1>13 DEF Consumes
  <2>4. Occurrences(args, w) = Occurrences(args', w) + 0
    BY <1>4, <2>3
  <2> QED
    BY <2>1, <2>2, <2>3, <2>4 DEF Moves
<1> QED
  BY <1>9, <1>10, <1>11, <1>12, <1>13

\* A subcommand is no word, nor is what follows the dot of a dotted one.
LEMMA SubcommandMoves ==
    ASSUME NothingForgotten, Typed, Subcommand, NEW w \in Plain
    PROVE  Moves(w)
<1> DEFINE a == Top.app
           dotted == ~Finds(a, Token, TRUE) /\ Token \in DottedWords
           com == IF dotted THEN PathOf[Token].head ELSE Token
           rest == IF dotted THEN <<PathOf[Token].tail>> \o Tail(args) ELSE Tail(args)
           l == Listing(Tree, a, com)
<1>1. Classified("SUBCOMMAND")
  BY DEF Subcommand
<1>2. /\ Stack(frames) /\ Tree \in TreeType /\ Tail(args) \in Seq(Tokens) /\ TypeOK
      /\ args \in Seq(Tokens) /\ args # <<>> /\ status = "parsing"
  BY <1>1, WhileRunning DEF Typed
<1>3. a \in Apps
  BY <1>2, TopType
<1>4. /\ com \in Names /\ com \in Apps
      /\ dotted => PathOf[Token].tail \in Names
      /\ Token # w
  BY <1>1, SubcommandToken, Named, PlainWord
<1>5. /\ Occurrences(args, w) = Occurrences(Tail(args), w)
      /\ Occurrences(args, w) \in Nat
  <2>1. /\ Occurrences(args, w) = Occurrences(<<Token>>, w) + Occurrences(Tail(args), w)
        /\ Occurrences(<<Token>>, w) = 0 /\ Occurrences(Tail(args), w) \in Nat
    BY <1>2, <1>4, Splits
  <2> QED
    BY ONLY <2>1
<1>6. Occurrences(rest, w) = Occurrences(Tail(args), w)
  <2>1. CASE ~dotted
    BY <2>1
  <2>2. CASE dotted
    <3> DEFINE t == PathOf[Token].tail
    <3>1. t \in Names /\ <<t>> \in Seq(Tokens) /\ t # w
      BY <1>4, <2>2, Named, PlainWord
    <3> HIDE DEF t
    <3>2. /\ Occurrences(<<t>> \o Tail(args), w) = Occurrences(<<t>>, w) + Occurrences(Tail(args), w)
          /\ Occurrences(<<t>>, w) = 0 /\ Occurrences(Tail(args), w) \in Nat
      <4> DEFINE u == <<t>>
                 v == Tail(args)
      <4>1. u \in Seq(Tokens) /\ v \in Seq(Tokens)
        BY <1>2, <3>1
      <4>2. Occurrences(u, w) = 0
        BY <3>1, OccurrencesOne
      <4> HIDE DEF u, v
      <4>3. Occurrences(u \o v, w) = Occurrences(u, w) + Occurrences(v, w)
            /\ Occurrences(v, w) \in Nat
        BY <4>1, OccurrencesJoined
      <4> QED
        BY <4>2, <4>3 DEF u, v
    <3>3. Occurrences(<<t>> \o Tail(args), w) = Occurrences(Tail(args), w)
      BY ONLY <3>2
    <3> QED
      BY <2>2, <3>3 DEF t
  <2> QED
    BY <2>1, <2>2
<1>7. \/ ParsePositional(Top, Top)
      \/ Becomes(Begun(l, com)) /\ Consumes(rest)
      \/ Throws("HorribleError") /\ UNCHANGED tree
      \/ UNCHANGED <<args, status>> /\ UNCHANGED tree
  BY DEF Subcommand
<1>8. Adds(l, Tree, w, 0) /\ l \in TreeType
  <2> HIDE DEF com, a
  <2> QED
    BY <1>2, <1>3, <1>4, ListingAdds DEF Adds
<1> HIDE DEF com, rest, dotted, a, l
<1>9. CASE ParsePositional(Top, Top)
  BY <1>1, <1>9, ParsePositionalMoves
<1>10. CASE Becomes(Begun(l, com)) /\ Consumes(rest)
  <2>1. Adds(Begun(l, com), l, w, 0)
    BY <1>4, <1>8, BegunAdds
  <2>2. Adds(Begun(l, com), Tree, w, 0 + 0)
    BY <1>8, <2>1, AddsTwice
  <2>3. Tree' = Begun(l, com)
    BY <1>10, <2>1, BecomesType DEF Adds
  <2>4. args' = rest /\ status' = "parsing"
    BY <1>2, <1>10 DEF Consumes
  <2>5. 0 + 0 \in Nat /\ Occurrences(args, w) = Occurrences(args', w) + (0 + 0)
    BY <1>5, <1>6, <2>4
  <2> QED
    BY <2>2, <2>3, <2>4, <2>5 DEF Moves
<1>11. CASE Throws("HorribleError") /\ UNCHANGED tree
  BY <1>2, <1>11, MovesNothing DEF Throws, Errors
<1>12. CASE UNCHANGED <<args, status>> /\ UNCHANGED tree
  BY <1>2, <1>5, <1>12, MovesNothing
<1> QED
  BY <1>7, <1>9, <1>10, <1>11, <1>12

\* The end of a subcommand lists it at most.
LEMMA EndSubcommandMoves ==
    ASSUME NothingForgotten, Typed, EndSubcommand, NEW w, Occurrences(args, w) \in Nat
    PROVE  Moves(w)
<1> DEFINE com == Top.app
           up == Parent(com)
           p == PreParsed(Tree, up)
           after == IF Top.via = "positional" THEN GroupBegun(Tree, Top.at)
                    ELSE IF up # Top.at THEN Listing(p, up, com)
                    ELSE Tree
<1>1. status = "parsing" /\ Len(frames) > 1
  BY DEF EndSubcommand, Ended
<1>2. Stack(frames) /\ Tree \in TreeType /\ TypeOK
  BY <1>1, TreeTyped DEF Typed, Framed
<1>3. com \in Names /\ Top.at \in Apps /\ up \in Apps
  BY <1>1, <1>2, TopType, Named
<1>4. Adds(after, Tree, w, 0)
  <2>1. Adds(GroupBegun(Tree, Top.at), Tree, w, 0)
    BY <1>2, <1>3, GroupBegunAdds
  <2>2. Adds(p, Tree, w, 0) /\ p \in TreeType
    BY <1>2, <1>3, PreParsedKeeps, AddsNothing
  <2> HIDE DEF p, up, com
  <2>3. Adds(Listing(p, up, com), p, w, 0)
    BY <1>3, <2>2, ListingAdds
  <2>4. Adds(Listing(p, up, com), Tree, w, 0 + 0)
    BY <2>2, <2>3, AddsTwice
  <2>5. 0 + 0 = 0
    OBVIOUS
  <2>6. Adds(Listing(p, up, com), Tree, w, 0)
    BY <2>4, <2>5
  <2>7. Adds(Tree, Tree, w, 0)
    BY <1>2, AddsNothing
  <2> QED
    BY <2>1, <2>6, <2>7
<1>5. \/ Becomes(after) /\ UNCHANGED <<args, status>>
      \/ Throws("ProcessError") /\ UNCHANGED tree
  BY DEF EndSubcommand
<1> HIDE DEF after
<1>6. CASE Becomes(after) /\ UNCHANGED <<args, status>>
  <2>1. Tree' = after /\ status' = "parsing"
    BY <1>1, <1>4, <1>6, BecomesType DEF Adds
  <2>2. Occurrences(args, w) = Occurrences(args', w) + 0
    BY <1>6
  <2> QED
    BY <1>4, <2>1, <2>2 DEF Moves
<1>7. CASE Throws("ProcessError") /\ UNCHANGED tree
  BY <1>2, <1>7, MovesNothing DEF Throws, Errors
<1> QED
  BY <1>5, <1>6, <1>7

\* While there is a parse, the line is what is left of it and what the tree
\* keeps; the root counts every parse, so that the next one starts anew.
Booked ==
    /\ status = "idle" => /\ \A o \in Options : results[o] = <<>>
                          /\ \A a \in Apps : missing[a] = <<>>
    /\ status # "idle" /\ Plain # {} => parsed[Root] > 0
    /\ status \in {"parsing", "done"} =>
        \A w \in Plain : Occurrences(given, w) = Occurrences(args, w) + Kept(Tree, w)

\* A step that moves words keeps the books.
LEMMA BookedAfter ==
    ASSUME Typed, Booked, status = "parsing", given' = given, \A w \in Plain : Moves(w),
           status' # "idle", Typed'
    PROVE  Booked'
<1>1. ASSUME NEW w \in Plain PROVE parsed'[Root] > 0
  <2>1. Tree.parsed = parsed /\ Tree'.parsed = parsed'
    BY DEF Tree
  <2> QED
    BY <2>1 DEF Booked, Moves, Adds
<1>2. ASSUME NEW w \in Plain, status' \in {"parsing", "done"}
      PROVE  Occurrences(given', w) = Occurrences(args', w) + Kept(Tree', w)
  <2>1. PICK n \in Nat : /\ Adds(Tree', Tree, w, n)
                         /\ Occurrences(args, w) = Occurrences(args', w) + n
    BY <1>2 DEF Moves, Errors
  <2>2. Kept(Tree', w) = Kept(Tree, w) + n /\ Kept(Tree, w) \in Nat
    BY <2>1 DEF Adds, More
  <2>3. Occurrences(given, w) = Occurrences(args, w) + Kept(Tree, w)
    BY DEF Booked
  <2>4. Occurrences(args', w) \in Nat
    <3>1. args' \in Seq(Tokens)
      BY DEF Typed, TypeOK
    <3> QED
      BY <3>1, OccurrencesJoined
  <2>5. Occurrences(given, w) = Occurrences(args', w) + Kept(Tree', w)
    BY ONLY <2>1, <2>2, <2>3, <2>4
  <2> QED
    BY <2>5
<1> QED
  BY <1>1, <1>2 DEF Booked

\* A parse begins with an empty tree, the first or one that was cleared.
LEMMA BeginParseBooked ==
    ASSUME NothingForgotten, Typed, Typed', Booked, BeginParse
    PROVE  Booked'
<1> DEFINE st == IF parsed[Root] > 0 THEN Cleared(Tree, Root) ELSE Tree
           new == Begun(st, Root)
<1>1. Tree \in TreeType /\ Root \in Apps
  BY TreeTyped, TreeTypes DEF Typed
<1>2. /\ st \in TreeType
      /\ Plain # {} => /\ \A o \in Options : st.results[o] = <<>>
                       /\ \A a \in Apps : st.missing[a] = <<>>
  <2>1. CASE parsed[Root] > 0
    <3>1. Subtree[Root] = Apps
      BY SubtreeIs
    <3>2. \A o \in Options : o \in OptionsOf(Apps)
      BY TreeAssumption DEF OptionsOf
    <3>3. /\ st.missing = [x \in DOMAIN Tree.missing |-> IF x \in Apps THEN <<>> ELSE Tree.missing[x]]
          /\ st.results = [x \in DOMAIN Tree.results |->
                                IF x \in OptionsOf(Apps) THEN <<>> ELSE Tree.results[x]]
      BY <2>1, <3>1 DEF Cleared
    <3>4. DOMAIN Tree.missing = Apps /\ DOMAIN Tree.results = Options
      BY <1>1, Fields
    <3> QED
      BY <1>1, <2>1, <3>2, <3>3, <3>4, ClearedType
  <2>2. CASE ~(parsed[Root] > 0)
    <3>1. Plain # {} => status = "idle"
      BY <2>2 DEF Booked
    <3>2. st = Tree /\ Tree.results = results /\ Tree.missing = missing
      BY <2>2 DEF Tree
    <3> QED
      BY <1>1, <3>1, <3>2 DEF Booked
  <2> QED
    BY <2>1, <2>2
<1>3. status' = "parsing" /\ Becomes(new) /\ args' = given'
  BY DEF BeginParse
<1> HIDE DEF st
<1>4. new.parsed[Root] > 0 /\ \A w : Adds(new, st, w, 0)
  BY <1>1, <1>2, BegunAdds
<1> HIDE DEF new
<1>5. Tree' = new
  BY <1>3, <1>4, BecomesType DEF Adds
<1>6. ASSUME NEW w \in Plain
      PROVE  Occurrences(given', w) = Occurrences(args', w) + Kept(Tree', w)
  <2>1. Kept(st, w) = 0
    <3> DEFINE r == st.results
               m == st.missing
               x == Missed(w, FALSE)
    <3>1. /\ \A o \in Options : r[o] = <<>>
          /\ \A a \in Apps : m[a] = <<>>
      BY <1>2
    <3>2. Kept(st, w) = Held(r, w) + Lost(m, x)
      BY DEF Kept, KeptIn
    <3> HIDE DEF r, m, x
    <3>3. Held(r, w) = 0 /\ Lost(m, x) = 0
      BY <3>1, NothingHeld, NothingLost
    <3> QED
      BY ONLY <3>2, <3>3
  <2>2. Kept(Tree', w) = 0
    BY <1>4, <1>5, <2>1 DEF Adds, More
  <2>3. Occurrences(given', w) \in Nat
    <3>1. given' \in Seq(Tokens)
      BY DEF Typed, TypeOK
    <3> QED
      BY <3>1, OccurrencesJoined
  <2> QED
    BY <1>3, <2>2, <2>3
<1>7. parsed'[Root] > 0
  BY <1>4, <1>5 DEF Tree
<1> QED
  BY <1>3, <1>6, <1>7 DEF Booked

\* Each step keeps the books.
LEMMA NextBooked == NothingForgotten /\ Typed /\ Typed' /\ Booked /\ [Next]_vars => Booked'
<1> SUFFICES ASSUME NothingForgotten, Typed, Typed', Booked, [Next]_vars PROVE Booked'
  OBVIOUS
<1>1. CASE UNCHANGED vars
  BY <1>1 DEF vars, Booked, Tree
<1>2. CASE BeginParse
  BY <1>2, BeginParseBooked
<1>3. CASE ParserStep
  <2>1. status = "parsing" /\ given' = given
    BY <1>3 DEF ParserStep, PositionalMark, SubcommandTerminator, Subcommand, Argument, Positional,
                EndSubcommand, EndParse, Classified, Running, Ended
  <2>2. args \in Seq(Tokens) /\ TypeOK
    BY DEF Typed, TypeOK
  <2>3. \A w : Occurrences(args, w) \in Nat
    BY <2>2, OccurrencesJoined
  <2>4. ASSUME NEW w \in Plain PROVE Moves(w)
    <3>1. CASE PositionalMark
      BY <3>1, PositionalMarkMoves
    <3>2. CASE SubcommandTerminator
      <4>1. /\ Classified("SUBCOMMAND_TERMINATOR") /\ UNCHANGED tree
            /\ args' = Tail(args) /\ UNCHANGED status /\ args # <<>>
        BY <3>2 DEF SubcommandTerminator, Consumes, Classified, Running
      <4>2. Recognize(Top.app, Token, TRUE) = "SUBCOMMAND_TERMINATOR"
        BY <4>1 DEF Classified
      <4>3. Token = Terminator
        BY <4>2 DEF Recognize
      <4>4. /\ Occurrences(args, w) = Occurrences(<<Token>>, w) + Occurrences(Tail(args), w)
            /\ Occurrences(<<Token>>, w) = 0 /\ Occurrences(Tail(args), w) \in Nat
        BY <2>2, <4>1, <4>3, Splits, PlainWord
      <4>5. Occurrences(args, w) = Occurrences(args', w)
        BY <4>1, <4>4
      <4> QED
        BY <2>1, <2>2, <2>3, <4>1, <4>5, MovesNothing
    <3>3. CASE Subcommand
      BY <3>3, SubcommandMoves
    <3>4. CASE Argument
      <4>1. Classified("OPTION") /\ Token \in OptionTokens
        BY <3>4, ArgumentCases
      <4>2. \/ \E a \in Apps, n \in 0..Len(Tail(args)) : Unrecognised(a, n)
            \/ \E h \in Apps, dot \in Apps \cup {NoApp} :
                  /\ NamedBy(h, Token) # {}
                  /\ dot # NoApp => TokenOf[Token].sub \in Names
                  /\ TakeOption(h, dot)
        BY <3>4, ArgumentCases
      <4> QED
        BY <4>1, <4>2, UnrecognisedMoves, TakeOptionMoves
    <3>5. CASE Positional
      BY <3>5, ParsePositionalMoves DEF Positional
    <3>6. CASE EndSubcommand
      BY <2>3, <3>6, EndSubcommandMoves
    <3>7. CASE EndParse
      <4>1. UNCHANGED tree
        BY <3>7 DEF EndParse
      <4>2. status' \in Errors \/ (status' = "done" /\ args' = args)
        BY <3>7 DEF EndParse, Throws, Errors
      <4> QED
        BY <2>2, <2>3, <4>1, <4>2, MovesNothing
    <3> QED
      BY <1>3, <3>1, <3>2, <3>3, <3>4, <3>5, <3>6, <3>7 DEF ParserStep
  <2> QED
    <3>1. status' # "idle"
      BY <1>3, <2>1 DEF ParserStep, PositionalMark, SubcommandTerminator, Subcommand, Argument,
                Positional, EndSubcommand, EndParse, ParsePositional, Unrecognised, TakeOption,
                Throws, Consumes
    <3> QED
      BY <2>1, <2>4, <3>1, BookedAfter
<1> QED
  BY <1>1, <1>2, <1>3 DEF Next

\* No plain word is lost and none is used twice: each is still to come, or it
\* is a result of some option, or it is missing in some App.
THEOREM WordsConserved == Spec => []NoWordLost
<1>1. NothingForgotten /\ Typed /\ Booked => NoWordLost
  <2> SUFFICES ASSUME Typed, Booked, status \in {"parsing", "done"}, NEW w \in Words \ Brought
               PROVE  Occurrences(given, w)
                        = Occurrences(args, w) + Held(results, w) + Lost(missing, Missed(w, FALSE))
    BY DEF NoWordLost, Held, Lost
  <2>1. Occurrences(given, w)
          = Occurrences(args, w) + (Held(results, w) + Lost(missing, Missed(w, FALSE)))
    BY DEF Booked, Plain, Kept, KeptIn, Tree
  <2> DEFINE x == Missed(w, FALSE)
  <2>2. /\ args \in Seq(Tokens) /\ results \in [Options -> Seq(Got)]
        /\ missing \in [Apps -> Seq(MissedType)]
    BY DEF Typed, TypeOK, Got, MissedType
  <2> HIDE DEF x
  <2>3. Occurrences(args, w) \in Nat /\ Held(results, w) \in Nat /\ Lost(missing, x) \in Nat
    BY <2>2, OccurrencesJoined, HeldNumber, LostNumber
  <2>4. Occurrences(given, w) = Occurrences(args, w) + (Held(results, w) + Lost(missing, x))
    BY <2>1 DEF x
  <2>5. Occurrences(given, w) = Occurrences(args, w) + Held(results, w) + Lost(missing, x)
    BY ONLY <2>3, <2>4
  <2> QED
    BY <2>5 DEF x
<1>2. Init => Booked
  <2> SUFFICES ASSUME Init PROVE Booked
    OBVIOUS
  <2>1. status = "idle" /\ results = Untouched.results /\ missing = Untouched.missing
    BY DEF Init
  <2> QED
    BY <2>1 DEF Booked, Untouched
<1>3. CASE NothingForgotten
  <2>1. Typed /\ Typed' /\ Booked /\ [Next]_vars => Booked'
    BY <1>3, NextBooked
  <2>2. Typed /\ Booked => NoWordLost
    BY <1>1, <1>3
  <2> QED
    BY <1>2, <2>1, <2>2, InitTyped, NextTyped, PTL DEF Spec
<1>4. CASE ~NothingForgotten
  <2>1. NoWordLost
    BY <1>4 DEF NoWordLost
  <2> QED
    BY <2>1, PTL
<1> QED
  BY <1>3, <1>4
=============================================================================
