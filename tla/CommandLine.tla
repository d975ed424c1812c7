----------------------------- MODULE CommandLine -----------------------------
(***************************************************************************)
(* How App::parse takes a command line apart: which App of the tree gets   *)
(* each token.  A frame is an activation of App::_parse; a step of the     *)
(* model is one App::_parse_single of the topmost frame, or the end of a   *)
(* frame.  What an option does with its strings is in OptionResults, what  *)
(* _process does with the environment, files and requirements is not here: *)
(* it may add nothing to what is parsed, and it may throw.                 *)
(***************************************************************************)
EXTENDS AppTree

CONSTANTS
    Lines, Again    \* the command lines of a first parse and of later ones

\* Plain words are none of the other tokens.
ASSUME LinesAssumption ==
    /\ Lines \subseteq Seq(Tokens) /\ Again \subseteq Seq(Tokens)
    /\ Words \cap (Names \cup OptionTokens \cup DottedWords \cup {Mark, Terminator}) = {}

VARIABLES
    given,          \* the command line that is being parsed
    args,           \* what is left of it, the next token first
    frames,         \* the activations of _parse, the innermost last
    status,         \* "idle", "parsing", "done" or what was thrown
    parsed,         \* parsed_ of each App
    preParsed,      \* pre_parse_called_
    listed,         \* parsed_subcommands_
    missing,        \* missing_
    results         \* results_ of each Option

tree == <<parsed, preParsed, listed, missing, results>>
vars == <<given, args, frames, status, parsed, preParsed, listed, missing, results>>

Errors == {"ExtrasError", "ArgumentMismatch", "HorribleError", "ProcessError"}
\* Stands for the string get_flag_value returns, "true" or the default string.
Flagged == "true"

\* via tells how the frame was entered: by _parse_subcommand of the frame
\* below, or by the _parse_positional of some App at.
Frame ==
    [app : Apps, posOnly : BOOLEAN, over : BOOLEAN,
     via : {"parse", "command", "positional"}, at : Apps]

\* A missing token, and whether it was classified as a positional mark.
Missed(t, isMark) == [token |-> t, mark |-> isMark]

TypeOK ==
    /\ given \in Seq(Tokens)
    /\ args \in Seq(Tokens)
    /\ frames \in Seq(Frame)
    /\ status \in {"idle", "parsing", "done"} \cup Errors
    /\ parsed \in [Apps -> Nat]
    /\ preParsed \in [Apps -> BOOLEAN]
    /\ listed \in [Apps -> Seq(Names)]
    /\ missing \in [Apps -> Seq([token : Tokens, mark : BOOLEAN])]
    /\ results \in [Options -> Seq(Tokens \cup {Flagged})]

\* The state of the tree as a record, for the calls that change it in turn.
Tree ==
    [parsed |-> parsed, preParsed |-> preParsed, listed |-> listed,
     missing |-> missing, results |-> results]

Becomes(changed) ==
    \E st \in {changed} :
        /\ parsed' = st.parsed
        /\ preParsed' = st.preParsed
        /\ listed' = st.listed
        /\ missing' = st.missing
        /\ results' = st.results

Untouched ==
    [parsed |-> [a \in Apps |-> 0], preParsed |-> [a \in Apps |-> FALSE],
     listed |-> [a \in Apps |-> <<>>], missing |-> [a \in Apps |-> <<>>],
     results |-> [o \in Options |-> <<>>]]

Init ==
    /\ given = <<>>
    /\ args = <<>>
    /\ frames = <<>>
    /\ status = "idle"
    /\ parsed = Untouched.parsed
    /\ preParsed = Untouched.preParsed
    /\ listed = Untouched.listed
    /\ missing = Untouched.missing
    /\ results = Untouched.results

-----------------------------------------------------------------------------
(* The calls that change the tree.                                         *)

\* App::clear: a, everything below it, and their options.
Cleared(st, a) ==
    LET S == Subtree[a]
        wipe(f, nothing, D) == [x \in DOMAIN f |-> IF x \in D THEN nothing ELSE f[x]]
    IN  [parsed |-> wipe(st.parsed, 0, S), preParsed |-> wipe(st.preParsed, FALSE, S),
         listed |-> wipe(st.listed, <<>>, S), missing |-> wipe(st.missing, <<>>, S),
         results |-> wipe(st.results, <<>>, OptionsOf(S))]

\* increment_parsed.
Incremented(st, a) ==
    [st EXCEPT !.parsed = [x \in Apps |-> IF x \in Counted[a] THEN @[x] + 1 ELSE @[x]]]

\* Mutated form: the missing tokens are not put back.
PreParsedForgetting(st, a) ==
    IF ~st.preParsed[a] THEN [st EXCEPT !.preParsed[a] = TRUE]
    ELSE IF AppOf[a].immediate /\ ~IsGroup(a)
    THEN [Cleared(st, a) EXCEPT !.parsed[a] = st.parsed[a], !.preParsed[a] = TRUE]
    ELSE st

\* Mutated form: the first time is taken for the second.
PreParsedAtOnce(st, a) ==
    IF AppOf[a].immediate /\ ~IsGroup(a)
    THEN [Cleared(st, a) EXCEPT !.parsed[a] = st.parsed[a], !.preParsed[a] = TRUE,
                                !.missing[a] = st.missing[a]]
    ELSE [st EXCEPT !.preParsed[a] = TRUE]

\* _trigger_pre_parse: the second time, an immediate App starts anew.
PreParsed(st, a) ==
    IF ~st.preParsed[a] THEN [st EXCEPT !.preParsed[a] = TRUE]
    ELSE IF AppOf[a].immediate /\ ~IsGroup(a)
    THEN [Cleared(st, a) EXCEPT !.parsed[a] = st.parsed[a], !.preParsed[a] = TRUE,
                                !.missing[a] = st.missing[a]]
    ELSE st

\* Mutated form: the App itself is listed.
ListingItself(st, a, com) ==
    IF AppOf[com].silent THEN st ELSE [st EXCEPT !.listed[a] = Append(@, a)]

\* parsed_subcommands_.push_back.
Listing(st, a, com) ==
    IF AppOf[com].silent THEN st ELSE [st EXCEPT !.listed[a] = Append(@, com)]

\* The beginning of _parse.
Begun(st, a) == PreParsed(Incremented(st, a), a)

\* A group's pre-parse comes after its first argument.
GroupBegun(st, h) ==
    IF IsGroup(h) /\ ~st.preParsed[h] THEN PreParsed(st, h) ELSE st

\* An option with trigger_on_parse runs its callback whenever it has got
\* results, so it has results when its callback has run; it is cleared before
\* it is given more.  A token gives at least one string: none is put back.
Ready(st, o) == IF OptionOf[o].trigger THEN [st EXCEPT !.results[o] = <<>>] ELSE st

\* Option::add_result.
Given(st, o, got) == [st EXCEPT !.results[o] = @ \o got]

\* _move_to_missing: who keeps an unrecognised token; NoApp if none does.
Captures(a) ==
    AppOf[a].extras \in {"Capture", "AssumeSingleArgument", "AssumeMultipleArguments"}

MissingHome(a) ==
    LET subs == AppOf[a].subs
        nameless == { i \in DOMAIN subs : IsGroup(subs[i]) /\ Captures(subs[i]) }
    IN  IF Captures(a) \/ AppOf[a].prefix # "Off" \/ nameless = {}
        THEN IF AppOf[a].extras = "Ignore" THEN NoApp ELSE a
        ELSE subs[Min(nameless)]

RefusesExtras(a) == AppOf[a].extras = "ErrorImmediately"

Missing(st, a, items) ==
    IF MissingHome(a) = NoApp THEN st
    ELSE [st EXCEPT !.missing[MissingHome(a)] = @ \o items]

\* A prefix command takes the rest of the line as it is.
Unmarked(ts) == [i \in DOMAIN ts |-> Missed(ts[i], FALSE)]
WithRest(st, a, rest) == [st EXCEPT !.missing[a] = @ \o Unmarked(rest)]

-----------------------------------------------------------------------------
(* What a token is to an App.                                              *)

\* Mutated form: one too many.
FullLater(a) == AppOf[a].max # 0 /\ Len(listed[a]) > AppOf[a].max

\* require_subcommand_max_ is reached.
Full(a) == AppOf[a].max # 0 /\ Len(listed[a]) >= AppOf[a].max

\* Mutated form: ignore_used is ignored.
FindsUsed(a, t, ignoreUsed) == t \in Reach(a)

\* _find_subcommand.
Finds(a, t, ignoreUsed) == t \in Reach(a) /\ (ignoreUsed => parsed[t] = 0)

\* Mutated form: ignore_used is not handed on.
ValidSubcommandUsed(a, t, ignoreUsed) ==
    \E b \in SubcommandPath[a] : ~Full(b) /\ Finds(b, t, FALSE)

\* _valid_subcommand.
ValidSubcommand(a, t, ignoreUsed) ==
    \E b \in SubcommandPath[a] : ~Full(b) /\ Finds(b, t, ignoreUsed)

\* _recognize.
Recognize(a, t, ignoreUsed) ==
    IF t = Mark THEN "POSITIONAL_MARK"
    ELSE IF ValidSubcommand(a, t, ignoreUsed) THEN "SUBCOMMAND"
    ELSE IF t \in OptionTokens THEN "OPTION"
    ELSE IF t = Terminator /\ ~IsGroup(a) /\ Parent(a) # NoApp THEN "SUBCOMMAND_TERMINATOR"
    ELSE IF /\ t \in DottedWords
            /\ Finds(a, PathOf[t].head, ignoreUsed)
            /\ ValidSubcommand(PathOf[t].head, PathOf[t].tail, ignoreUsed)
    THEN "SUBCOMMAND"
    ELSE "NONE"

Count(st, o) == Len(st.results[o])

\* The positional options of a, as places in options_.
Positionals(a) == { i \in DOMAIN AppOf[a].opts : OptionOf[AppOf[a].opts[i]].positional }

Lacking(st, o) == Count(st, o) < OptionOf[o].min

\* _count_remaining_positionals(true), for a given state of the tree.
Remaining(st, a) ==
    LET lacking == { o \in ToSet(AppOf[a].opts) :
                        OptionOf[o].positional /\ OptionOf[o].required /\ Lacking(st, o) }
    IN  MapThenSumSet(LAMBDA o : OptionOf[o].min - Count(st, o), lacking)

HasRemaining(a) == \E i \in Positionals(a) : Lacking(Tree, AppOf[a].opts[i])

-----------------------------------------------------------------------------
(* _parse_positional: who takes a token that is not an option.             *)

\* Mutated form: the minimum is taken for the maximum.
RoomyToMin(o) == Count(Tree, o) < OptionOf[o].min \/ OptionOf[o].extra

Roomy(o) == Count(Tree, o) < OptionOf[o].max \/ OptionOf[o].extra

\* The positional option of a that takes t, or NoOption.
PositionalFor(a, t) ==
    LET os == AppOf[a].opts
        fitting == { i \in Positionals(a) : AppOf[a].validates => t \in OptionOf[os[i]].accepts }
        urgent == { i \in fitting : /\ AppOf[a].posAtEnd
                                    /\ Len(args) <= Remaining(Tree, a)
                                    /\ OptionOf[os[i]].required /\ Lacking(Tree, os[i]) }
        roomy == { i \in fitting : Roomy(os[i]) }
    IN  IF urgent # {} THEN os[Min(urgent)]
        ELSE IF roomy # {} THEN os[Min(roomy)]
        ELSE NoOption

\* Mutated form: a subcommand that was used does not count.
RepeatsUnused(a, t) == Finds(a, t, TRUE) /\ ~Full(a)

\* A local subcommand, perhaps a repeated one, that may still begin.
Repeats(a, t) == Finds(a, t, FALSE) /\ ~Full(a)

\* The last gasp: some App nearer to the root can deal with the subcommand.
Elsewhere(a, t) ==
    /\ AppOf[a].subFallthrough
    /\ Finds(IF Parent(a) = NoApp THEN a ELSE FallthroughParent(a), t, FALSE)
    /\ ~Full(Parent(t))

\* What a itself does with t once its parents and its groups have declined.
Answer(a, t, haltOnSubcommand) ==
    CASE PositionalFor(a, t) # NoOption -> "option"
      [] OTHER ->
        IF Repeats(a, t) THEN (IF haltOnSubcommand THEN "refused" ELSE "subcommand")
        ELSE IF Elsewhere(a, t) THEN "refused"
        ELSE IF AppOf[a].posAtEnd THEN "throws"
        ELSE IF IsGroup(a) THEN "refused"
        ELSE "missing"

\* Who takes t at the level of e: e for an option of its own, or the first of
\* its groups that does not refuse.
Taker(e, t) ==
    LET subs == AppOf[e].subs
        takers == { i \in Groups(e) : Answer(subs[i], t, FALSE) # "refused" }
    IN  IF PositionalFor(e, t) # NoOption THEN e
        ELSE IF takers # {} THEN subs[Min(takers)]
        ELSE NoApp

\* The level of each App up the chain is asked first, and then the last App of
\* the chain itself.
PositionalGoes(a, t) ==
    LET chain == Chain[a]
        takers == { i \in DOMAIN chain : Taker(chain[i], t) # NoApp }
        taker == Taker(chain[Min(takers)], t)
        halt == Len(chain) > 1 /\ AppOf[chain[Len(chain) - 1]].completes
    IN  IF takers # {}
        THEN [how |-> Answer(taker, t, FALSE), at |-> taker]
        ELSE [how |-> Answer(Last(chain), t, halt), at |-> Last(chain)]

-----------------------------------------------------------------------------
(* _parse_arg: who takes an option token, and with which arguments.        *)

\* The options of h that the token names, as places in options_.
NamedBy(h, tok) == { i \in DOMAIN AppOf[h].opts : AppOf[h].opts[i] \in TokenOf[tok].opts }

\* Who knows the option at the level of e: e, or the first of its groups.
Knower(e, tok) ==
    LET subs == AppOf[e].subs
        knowers == { i \in Groups(e) : NamedBy(subs[i], tok) # {} }
    IN  IF NamedBy(e, tok) # {} THEN e
        ELSE IF knowers # {} THEN subs[Min(knowers)]
        ELSE NoApp

\* A dotted option may enter a subcommand unless that would be one too many.
MayEnter(a, sub) ==
    Finds(a, sub, FALSE) /\ (Full(a) => sub \in ToSet(listed[a]))

\* Where App e of the chain finds the option: at its level or, for a dotted
\* option, at that of the subcommand, which is entered from App dot.
Place(e, tok) ==
    LET sub == TokenOf[tok].sub
    IN  IF sub = NoApp THEN [at |-> Knower(e, tok), dot |-> NoApp]
        ELSE IF MayEnter(e, sub) THEN [at |-> Knower(sub, tok), dot |-> e]
        ELSE [at |-> NoApp, dot |-> NoApp]

\* The Apps of the chain that find it, as places in the chain.
Finders(a, tok) == { i \in DOMAIN Chain[a] : Place(Chain[a][i], tok).at # NoApp }

\* From here on a maximum counts as none: expected_max_vector_size / 16.
Unlimited == 33554432

\* An option without maximum takes what it needs only, unless more is allowed.
Most(d) == IF d.max >= Unlimited /\ ~d.extra THEN d.min ELSE d.max

Least(m, n) == IF m < n THEN m ELSE n

\* The arguments option o of h takes from rest: those it needs at once (one,
\* for a type of size one), then optional ones while nothing speaks against
\* the next, and perhaps the mark that ends the list.
Collected(h, o, value, rest) ==
    LET d      == OptionOf[o]
        most   == Most(d)
        inline == IF most = 0 THEN <<Flagged>>
                  ELSE IF value # NoValue THEN <<value>> ELSE <<>>
        had    == IF most = 0 THEN 0 ELSE Len(inline)
        need   == IF d.min > 0 /\ had = 0 THEN 1 ELSE 0
        first  == inline \o SubSeq(rest, 1, Least(need, Len(rest)))
        more   == SubSeq(rest, need + 1, Len(rest))
        st     == Given(Ready(Tree, o), o, first)
        open(n) == had + need + n < most \/ d.extra
        eats(i) == /\ open(i - 1)
                   /\ Recognize(h, more[i], FALSE) = "NONE"
                   /\ Remaining(st, h) < Len(more) - (i - 1)
                   /\ AppOf[h].validatesOptional => more[i] \in d.accepts
        n      == Max({ k \in 0..Len(more) : \A i \in 1..k : eats(i) })
        after  == SubSeq(more, n + 1, Len(more))
        marked == open(0) /\ after # <<>> /\ Head(after) = Mark
        asFlag == d.min = 0 /\ most > 0 /\ had + n = 0
    IN  [short |-> need > Len(rest),
         got   |-> first \o SubSeq(more, 1, n) \o IF asFlag THEN <<Flagged>> ELSE <<>>,
         left  |-> IF marked THEN Tail(after) ELSE after]

\* How many tokens of rest an App takes for arguments of an unknown option.
Assumed(a, rest) ==
    LET run == { k \in 0..Len(rest) :
                   \A i \in 1..k : Recognize(a, rest[i], FALSE) = "NONE" }
    IN  CASE AppOf[a].prefix = "On" -> Len(rest)
          [] OTHER ->
            CASE AppOf[a].extras = "AssumeSingleArgument" -> Least(1, Max(run))
              [] AppOf[a].extras = "AssumeMultipleArguments" -> Max(run)
              [] OTHER -> 0

-----------------------------------------------------------------------------
(* Actions.                                                                *)

Top == Last(frames)
Token == Head(args)

Running == status = "parsing" /\ ~Top.over /\ args # <<>>

Classified(class) ==
    /\ Running
    /\ class = IF Top.posOnly THEN "NONE" ELSE Recognize(Top.app, Token, TRUE)

\* The stack with another topmost frame.
Retop(frame) == [frames EXCEPT ![Len(frames)] = frame]

\* Mutated form: the loop over the tokens goes on.
OverNot == Top

Over == [Top EXCEPT !.over = TRUE]
Called(a, via, at) ==
    [app |-> a, posOnly |-> FALSE, over |-> FALSE, via |-> via, at |-> at]

\* An exception leaves every activation of _parse.
Throws(error) ==
    /\ status' = error
    /\ args' = <<>>
    /\ frames' = <<>>

Consumes(left) ==
    /\ args' = left
    /\ UNCHANGED status

\* App::parse: what an earlier parse left is cleared.
BeginParse ==
    /\ status # "parsing"
    /\ \E line \in IF status = "idle" THEN Lines ELSE Again :
        given' = line /\ args' = line
    /\ status' = "parsing"
    /\ frames' = <<Called(Root, "parse", Root)>>
    /\ Becomes(Begun(IF parsed[Root] > 0 THEN Cleared(Tree, Root) ELSE Tree, Root))

PositionalMark ==
    LET a == Top.app
        prefix == AppOf[a].prefix # "Off"
        only == [Top EXCEPT !.posOnly = TRUE]
    IN  /\ Classified("POSITIONAL_MARK")
        /\ IF prefix
           THEN /\ Becomes(WithRest([Tree EXCEPT !.missing[a] = Append(@, Missed(Mark, TRUE))],
                                    a, Tail(args)))
                /\ Consumes(<<>>)
                /\ frames' = Retop(only)
           ELSE IF ~HasRemaining(a) /\ Parent(a) # NoApp
           THEN /\ Consumes(Tail(args))
                /\ frames' = Retop([only EXCEPT !.over = TRUE])
                /\ UNCHANGED tree
           ELSE IF RefusesExtras(a)
           THEN Throws("ExtrasError") /\ UNCHANGED tree
           ELSE /\ Becomes(Missing(Tree, a, <<Missed(Mark, TRUE)>>))
                /\ Consumes(Tail(args))
                /\ frames' = Retop(only)
        /\ UNCHANGED given

SubcommandTerminator ==
    /\ Classified("SUBCOMMAND_TERMINATOR")
    /\ Consumes(Tail(args))
    /\ frames' = Retop(Over)
    /\ UNCHANGED <<given, tree>>

\* An option nobody knows, and the n tokens taken for its arguments.
Unrecognised(a, n) ==
    LET st == Missing(Tree, a, <<Missed(Token, FALSE)>>)
        more == SubSeq(args, 2, n + 1)
    IN  IF RefusesExtras(a)
        THEN Throws("ExtrasError") /\ UNCHANGED tree
        ELSE /\ Becomes(IF AppOf[a].prefix = "On" THEN WithRest(st, a, more)
                        ELSE Missing(st, a, Unmarked(more)))
             /\ Consumes(SubSeq(args, n + 2, Len(args)))
             /\ frames' = frames

\* _parse_positional; accepted and declined are the topmost frame afterwards.
ParsePositional(accepted, declined) ==
    \E goes \in {PositionalGoes(Top.app, Token)} :
        \/ /\ goes.how = "option"
           /\ LET o == PositionalFor(goes.at, Token)
                  st == Given(Ready(Tree, o), o, <<Token>>)
              IN  \/ /\ Becomes(GroupBegun(st, goes.at))
                     /\ Consumes(Tail(args))
                     /\ frames' = Retop(accepted)
                  \/ OptionOf[o].trigger /\ Becomes(st) /\ Throws("ProcessError")
        \/ /\ goes.how = "subcommand"
           /\ Becomes(Begun(Tree, Token))
           /\ Consumes(Tail(args))
           /\ frames' = Append(Retop(accepted), Called(Token, "positional", goes.at))
        \/ /\ goes.how = "missing"
           /\ LET prefix == AppOf[goes.at].prefix # "Off"
                  st == Missing(Tree, goes.at, <<Missed(Token, FALSE)>>)
              IN  IF RefusesExtras(goes.at)
                  THEN Throws("ExtrasError") /\ UNCHANGED tree
                  ELSE /\ Becomes(IF prefix THEN WithRest(st, goes.at, Tail(args)) ELSE st)
                       /\ Consumes(IF prefix THEN <<>> ELSE Tail(args))
                       /\ frames' = Retop(accepted)
        \/ /\ goes.how = "refused"
           /\ frames' = Retop(declined)
           /\ UNCHANGED <<args, status, tree>>
        \/ /\ goes.how = "throws"
           /\ Throws("ExtrasError")
           /\ UNCHANGED tree

Positional ==
    /\ Classified("NONE")
    /\ ParsePositional(IF AppOf[Top.app].posAtEnd THEN [Top EXCEPT !.posOnly = TRUE] ELSE Top,
                       Over)
    /\ UNCHANGED given

\* _parse_subcommand: required positionals come first, whether they accept
\* the word or not.
Subcommand ==
    LET a == Top.app
        dotted == ~Finds(a, Token, TRUE) /\ Token \in DottedWords
        com == IF dotted THEN PathOf[Token].head ELSE Token
        rest == IF dotted THEN <<PathOf[Token].tail>> \o Tail(args) ELSE Tail(args)
    IN  /\ Classified("SUBCOMMAND")
        /\ UNCHANGED given
        /\ \/ /\ Remaining(Tree, a) > 0
              /\ ParsePositional(Top, Top)
           \/ /\ Remaining(Tree, a) = 0 /\ Finds(a, com, TRUE)
              /\ Becomes(Begun(Listing(Tree, a, com), com))
              /\ Consumes(rest)
              /\ frames' = Append(frames, Called(com, "command", a))
           \/ /\ Remaining(Tree, a) = 0 /\ ~Finds(a, com, TRUE)
              /\ IF Parent(a) = NoApp
                 THEN Throws("HorribleError")
                 ELSE frames' = Retop(Over) /\ UNCHANGED <<args, status>>
              /\ UNCHANGED tree

\* Option o of h takes the token; a dotted one begins App dot afterwards.
TakeOption(h, dot) ==
    LET o == AppOf[h].opts[Min(NamedBy(h, Token))]
        sub == TokenOf[Token].sub
    IN  \E c \in {Collected(h, o, TokenOf[Token].value, Tail(args))} :
          \E st \in {Given(Ready(Tree, o), o, c.got)} :
            \/ /\ c.short
               /\ Becomes(st)
               /\ Throws("ArgumentMismatch")
            \/ ~c.short /\ OptionOf[o].trigger /\ Becomes(st) /\ Throws("ProcessError")
            \/ /\ ~c.short
               /\ Becomes(IF dot = NoApp THEN GroupBegun(st, h)
                          ELSE Begun(Listing(GroupBegun(st, h), dot, sub), dot))
               /\ \/ Consumes(c.left) /\ frames' = frames
                  \/ dot # NoApp /\ AppOf[sub].completes /\ Throws("ProcessError")

\* _parse_arg.
Argument ==
    LET chain == Chain[Top.app]
        finders == Finders(Top.app, Token)
        last == Last(chain)
    IN  /\ Classified("OPTION")
        /\ UNCHANGED given
        /\ \/ /\ finders = {}
              /\ Unrecognised(last, Assumed(last, Tail(args)))
           \/ /\ finders # {}
              /\ \E place \in {Place(chain[Min(finders)], Token)} :
                    TakeOption(place.at, place.dot)

Ended == status = "parsing" /\ (Top.over \/ args = <<>>)

\* The end of a subcommand's _parse, and what its caller does then.
EndSubcommand ==
    LET com == Top.app
        up == Parent(com)
        after == IF Top.via = "positional" THEN GroupBegun(Tree, Top.at)
                 ELSE IF up # Top.at THEN Listing(PreParsed(Tree, up), up, com)
                 ELSE Tree
    IN  /\ Ended /\ Len(frames) > 1
        /\ \/ /\ Becomes(after)
              /\ frames' = Front(frames)
              /\ UNCHANGED <<args, status>>
           \/ /\ AppOf[com].completes
              /\ Throws("ProcessError")
              /\ UNCHANGED tree
        /\ UNCHANGED given

\* _process_extras goes from the root to every subcommand that was parsed.
HasExtras(a) ==
    /\ AppOf[a].extras = "Error"
    /\ \E i \in DOMAIN missing[a] : ~missing[a][i].mark
    /\ \/ AppOf[a].prefix = "Off"
       \/ AppOf[a].prefix = "SeparatorOnly" /\ missing[a][1].token # Mark

Visited(a) == \A b \in Lineage[a] : parsed[b] > 0

\* The end of the root's _parse: _process and _process_extras.
EndParse ==
    /\ Ended /\ Len(frames) = 1
    /\ \/ Throws("ProcessError")
       \/ /\ \E a \in Apps : Visited(a) /\ HasExtras(a)
          /\ Throws("ExtrasError")
       \/ /\ ~ \E a \in Apps : Visited(a) /\ HasExtras(a)
          /\ status' = "done"
          /\ frames' = <<>>
          /\ UNCHANGED args
    /\ UNCHANGED <<given, tree>>

ParserStep ==
    \/ PositionalMark \/ SubcommandTerminator \/ Subcommand \/ Argument \/ Positional
    \/ EndSubcommand \/ EndParse

Next == BeginParse \/ ParserStep

Spec == Init /\ [][Next]_vars

\* The parser is one thread: it goes on as long as it can.
FairSpec == Spec /\ WF_vars(ParserStep)

-----------------------------------------------------------------------------
(* Properties.                                                             *)

Occurrences(seq, x) == Cardinality({ i \in DOMAIN seq : seq[i] = x })

\* App::_parse, "_parse_single cannot return false at the top level": the loop
\* over the tokens is never left early, and a parse that succeeds used them all.
TopLevelNeverBreaks ==
    /\ frames # <<>> => ~frames[1].over
    /\ status = "done" => args = <<>>

\* _parse_subcommand finds what _recognize called a subcommand, although it
\* looks in one App where _recognize looked along a path of them.
NoHorribleError == status # "HorribleError"

\* What an option token brings along, and what stands for a flag.
Brought == {Flagged} \cup { TokenOf[tok].value : tok \in OptionTokens }

\* No App is told to ignore what it does not recognise, no immediate App has
\* options or subcommands whose results are dropped when it starts anew, and no
\* option is cleared when it is given again, as one with trigger_on_parse is.
NothingForgotten ==
    /\ \A o \in Options : ~OptionOf[o].trigger
    /\ \A a \in Apps :
        /\ AppOf[a].extras # "Ignore"
        /\ AppOf[a].immediate /\ ~IsGroup(a) => AppOf[a].opts = <<>> /\ AppOf[a].subs = <<>>

\* No plain word is lost and none is used twice: each is still to come, or it
\* is a result of some option, or it is missing in some App.
NoWordLost ==
    NothingForgotten /\ status \in {"parsing", "done"} =>
        \A w \in Words \ Brought :
            Occurrences(given, w) =
                Occurrences(args, w)
                + MapThenSumSet(LAMBDA o : Occurrences(results[o], w), Options)
                + MapThenSumSet(LAMBDA a : Occurrences(missing[a], Missed(w, FALSE)), Apps)

\* A positional that has no name to call it by gets nothing before the ones
\* declared ahead of it are full, whether words arrive through the App, its
\* group or a subcommand below it (_parse_positional: "Eat options, one by one,
\* until done").  Excepted are Apps with positionals_at_end, which may skip to
\* a required positional, those with validate_positionals, which may skip one
\* that refuses the word, and triggers ahead of it, which are cleared when they
\* are called by name again.
HasName(o) == \E tok \in OptionTokens : o \in TokenOf[tok].opts

PositionalsFillInOrder ==
    \A a \in { b \in Apps : ~AppOf[b].posAtEnd /\ ~AppOf[b].validates } :
        LET os == AppOf[a].opts
        IN  \A i, j \in Positionals(a) :
                i < j /\ results[os[j]] # <<>> /\ ~HasName(os[j]) /\ ~OptionOf[os[i]].trigger
                    => Count(Tree, os[i]) >= OptionOf[os[i]].max

\* get_subcommands() lists each subcommand that was parsed, and lists it once:
\* the lists and the counts are kept by different functions.  Excepted are lines
\* with dotted options, which list without looking whether it is listed.
Lister(s) == FallthroughParent(s)

ListedOnceParsed ==
    status = "done" /\ (\A tok \in ToSet(given) \cap OptionTokens : TokenOf[tok].sub = NoApp) =>
        \A s \in { t \in Names : ~AppOf[t].silent } :
            Occurrences(listed[Lister(s)], s) = IF parsed[s] > 0 THEN 1 ELSE 0

\* require_subcommand(min, max): no more than max subcommands are parsed, unless
\* the line has words with a dot or goes on after a mark, which are looked for
\* without regard to the limit, or the App leaves subcommands to its groups.
MaxRespected ==
    ToSet(given) \cap (DottedWords \cup {Mark}) = {} =>
      \A a \in Apps :
        AppOf[a].max # 0 /\ Groups(a) = {} =>
            Cardinality({ s \in Reach(a) : parsed[s] > 0 /\ ~AppOf[s].silent }) <= AppOf[a].max

\* What _trigger_pre_parse may reset: what is in or below an immediate App with
\* a name that has begun before.
Restarted(o) ==
    \E a \in Apps : /\ AppOf[a].immediate /\ ~IsGroup(a) /\ preParsed[a]
                   /\ o \in OptionsOf(Subtree[a])

\* No step of a parse takes results away from an option, with two exceptions: a
\* trigger that gets new results for its old ones, or too few arguments, and an
\* option of an immediate App that begins for a second time.  In particular an App that
\* begins for the first time keeps what dotted options have set in it, and no
\* option loses anything to the arguments of another one.
OptionsKeepResults ==
    [][status = "parsing" =>
        \A o \in Options :
            \/ IsPrefix(results[o], results'[o])
            \/ OptionOf[o].trigger /\ (results'[o] # <<>> \/ status' = "ArgumentMismatch")
            \/ Restarted(o)]_vars

\* Every parse comes to an end.
Termination == status = "parsing" ~> status # "parsing"
=============================================================================
