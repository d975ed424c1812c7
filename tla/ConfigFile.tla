------------------------------ MODULE ConfigFile -----------------------------
(***************************************************************************)
(* A configuration file from its writing to its effect: the lines that     *)
(* ConfigBase::to_config writes for a program, or that somebody types, the *)
(* loop of from_config over them, and App::_parse_config, which hands each *)
(* item to the App and the Option it is for.                               *)
(***************************************************************************)
EXTENDS ConfigReader

CONSTANTS
    Apps,           \* the Apps, without their parents' knowledge of them
    Root,
    NameOf,         \* App -> its name; "" for an option group
    SubsOf,         \* App -> its subcommands and groups in order
    OptionsOf,      \* App -> the names of its options in order
    Flags,          \* the options that expect no argument
    AtMost,         \* flag -> get_items_expected_max
    Gatherers,      \* the flags with the policy TakeAll or Join
    Fixed,          \* the flags with disable_flag_override
    FlagWords,      \* the arguments that are values of these
    Locked,         \* the options that are not configurable
    Typists,        \* who may type the file -> the lines to choose from, and how many
    Programs        \* how a program is set up and what its command line gave

NoApp == "none"
Used == "used"      \* the argument of an option that the command line gave
Assumed == "assumed"  \* the default of one that it did not
Options == { o \in Apps \X Segments : o[2] \in ToSet(OptionsOf[o[1]]) }
ExtrasModes == {"Error", "Ignore", "IgnoreAll", "Capture"}
Modes == {"Active", "AllDefaults", "ActiveSubcommandDefaults"}

\* configurable, completes and immediate: the Apps with configurable_, with a
\* parse_complete_callback_ and with immediate_callback_.  given and got: the
\* options and subcommands of the command line.  mode: how the file is
\* written, or who types it.
ProgramType ==
    [configurable : SUBSET Apps, completes : SUBSET Apps, immediate : SUBSET Apps,
     extras : ExtrasModes, reader : ReaderType,
     given : SUBSET Options, got : SUBSET Apps, mode : Modes \cup DOMAIN Typists]

ParentOf(a) == CHOOSE p \in Apps : a \in ToSet(SubsOf[p])

\* As in AppTree, no App is above itself, and each has one parent.
ASSUME FileAssumption ==
    /\ IsFiniteSet(Apps) /\ Root \in Apps /\ NoApp \notin Apps
    /\ NameOf \in [Apps -> Segments \cup {""}]
    /\ SubsOf \in [Apps -> Seq(Apps)] /\ OptionsOf \in [Apps -> Seq(Segments)]
    /\ \A a \in Apps, b \in Apps : ToSet(SubsOf[a]) \cap ToSet(SubsOf[b]) # {} => a = b
    /\ \A a \in Apps : a = Root <=> \A p \in Apps : a \notin ToSet(SubsOf[p])
    /\ \A T \in SUBSET Apps : T # {} => \E a \in T : a = Root \/ ParentOf(a) \notin T
    /\ {Used, Assumed} \subseteq Values
    /\ Flags \subseteq Options /\ Locked \subseteq Options
    /\ AtMost \in [Flags -> Nat] /\ Gatherers \subseteq Flags /\ Fixed \subseteq Flags
    /\ \A t \in DOMAIN Typists : Typists[t] \in [lines : SUBSET LineType, most : Nat]
    /\ DOMAIN Typists \cap Modes = {}
    /\ Programs \subseteq ProgramType

VARIABLES
    program,        \* one of Programs
    written,        \* the lines of the written file that are left
    typed,          \* how many lines have been typed
    open,           \* what goes on over several lines: a comment, array or text
    at,             \* currentSection, previousSection, currentSectionIndex, inSection
    output,         \* the items
    status,         \* "reading", "applying", "done" or what was thrown
    applied,        \* how many of the items have been
    parsed,         \* App -> parsed_
    listed,         \* App -> parsed_subcommands_
    entered,        \* the Apps with pre_parse_called_
    results,        \* Option -> results_
    seen,           \* App -> its options with results when its section was last completed
    completed,      \* App -> how often that was
    missing,        \* what capture has kept
    strayed         \* a section of several levels was left for [default]

reading == <<written, typed, open, at, output>>
tree == <<parsed, listed, entered, results, seen, completed, missing>>
vars == <<program, reading, status, applied, tree, strayed>>

IsGroup(a) == NameOf[a] = ""
Own(a) == {a} \X ToSet(OptionsOf[a])

\* App::_find_subcommand: in the groups, too; the empty name finds a group.
FindSub(a, n) ==
    LET found[b \in Apps] ==
            LET within(s) == IsGroup(s) /\ found[s] # NoApp
                hits == { i \in DOMAIN SubsOf[b] :
                            NameOf[SubsOf[b][i]] = n \/ within(SubsOf[b][i]) }
                first == SubsOf[b][Min(hits)]
            IN  IF hits = {} THEN NoApp ELSE IF within(first) THEN found[first] ELSE first
    IN  found[a]

\* The App that the names lead to, one level after the other.
Locate(parents) ==
    LET place[level \in 0..Len(parents)] ==
            IF level = 0 THEN Root
            ELSE IF place[level - 1] = NoApp THEN NoApp
            ELSE FindSub(place[level - 1], parents[level])
    IN  place[Len(parents)]

\* App::get_option_no_throw: its own options, then those of its groups.
FindOption(a, n) ==
    LET home[b \in Apps] ==
            LET hits == { i \in DOMAIN SubsOf[b] :
                            IsGroup(SubsOf[b][i]) /\ home[SubsOf[b][i]] # NoApp }
            IN  IF n \in ToSet(OptionsOf[b]) THEN b
                ELSE IF hits = {} THEN NoApp ELSE home[SubsOf[b][Min(hits)]]
    IN  home[a]

\* The App that holds the option an item is for.
HomeOf(it) ==
    LET a == Locate(it.parents) IN IF a = NoApp THEN NoApp ELSE FindOption(a, it.name)

\* The Apps that App::increment_parsed counts: a, and the groups in it.
Counting(a) ==
    LET counting[b \in Apps] ==
            {b} \cup UNION { counting[s] : s \in { g \in ToSet(SubsOf[b]) : IsGroup(g) } }
    IN  counting[a]

\* What belongs to a and to all it holds.
Under(a) ==
    LET under[b \in Apps] == {b} \cup UNION { under[s] : s \in ToSet(SubsOf[b]) }
    IN  under[a]

PathOf(a) ==
    LET path[b \in Apps] == IF b = Root THEN <<>> ELSE Append(path[ParentOf(b)], NameOf[b])
    IN  path[a]

-----------------------------------------------------------------------------
(* Writing.                                                                *)

Line(kind, path, inputs) ==
    [kind |-> kind, path |-> path, quote |-> "double", closed |-> TRUE,
     inputs |-> inputs, ends |-> IF kind = "header" THEN "bracket" ELSE "other"]

\* count_all() > 0.
Counts(p, a) ==
    \E b \in Under(a) : Own(b) \cap p.given # {} \/ (~IsGroup(b) /\ b \in p.got)

\* Apps that the mode leaves out, and those that get a section of their own.
Skipped(p, s) ==
    \/ p.mode = "Active" /\ ~Counts(p, s)
    \/ p.mode = "ActiveSubcommandDefaults" /\ ~IsGroup(s) /\ s \notin p.got
Sectioned(p, s) ==
    ~IsGroup(s) /\ s \in p.configurable /\ (s \in p.got \/ p.mode = "AllDefaults")

\* Mutated form: the parents of a section are left out.
HeaderAlone(a, s, prefix) == Append(prefix, NameOf[s])

HeaderOf(a, s, prefix) ==
    IF prefix # <<>> \/ a = Root THEN Append(prefix, NameOf[s]) ELSE PathOf(s)

\* What ConfigBase::to_config writes for the App a, each entry with the prefix:
\* first its own options, then its groups, then its subcommands, with a section
\* of their own or with dotted names.  below[s] makes of a prefix what it
\* writes for s.
LinesOf(p, a, prefix, below) ==
    LET names == Kept(OptionsOf[a], { n \in Segments :
                    <<a, n>> \notin Locked /\ (<<a, n>> \in p.given \/ p.mode # "Active") })
        value(n) == IF <<a, n>> \in p.given THEN <<Used>> ELSE <<Assumed>>
        groups == Kept(SubsOf[a], { s \in Apps : IsGroup(s) /\ ~Skipped(p, s) })
        named == Kept(SubsOf[a], { s \in Apps : ~IsGroup(s) /\ ~Skipped(p, s) })
        lines(s) ==
            IF Sectioned(p, s)
            THEN <<Line("header", HeaderOf(a, s, prefix), <<>>)>> \o below[s][<<>>]
            ELSE below[s][Append(prefix, NameOf[s])]
    IN  [i \in DOMAIN names |-> Line("entry", Append(prefix, names[i]), value(names[i]))]
            \o FlattenSeq([i \in DOMAIN groups |-> below[groups[i]][prefix]])
            \o FlattenSeq([i \in DOMAIN named |-> lines(named[i])])

ToConfig(p) ==
    LET toConfig[a \in Apps] == [prefix \in Paths |-> LinesOf(p, a, prefix, toConfig)]
    IN  toConfig[Root][<<>>]

-----------------------------------------------------------------------------
(* Reading.                                                                *)

Nothing == [kind |-> "none"]
NoSection == [section |-> Default, previous |-> Default, index |-> 0, inSection |-> FALSE]

\* parse() has been given a command line, or has just begun, for a written
\* file, which another run of the program reads.
Init ==
    /\ program \in Programs
    /\ written = IF program.mode \in DOMAIN Typists THEN <<>> ELSE ToConfig(program)
    /\ typed = 0 /\ open = Nothing /\ at = NoSection /\ output = <<>>
    /\ status = "reading" /\ applied = 0 /\ missing = <<>> /\ strayed = FALSE
    /\ LET line == program.mode \in DOMAIN Typists
           onLine(a) == line /\ a \in program.got
       IN  /\ parsed = [a \in Apps |-> IF onLine(a) THEN 1 ELSE 0]
           /\ listed = [a \in Apps |-> Kept(SubsOf[a], { b \in Apps : onLine(b) })]
           /\ entered = { a \in Apps : onLine(a) }
           /\ results = [o \in Options |->
                            IF line /\ o \in program.given THEN <<Used>> ELSE <<>>]
    /\ seen = [a \in Apps |-> {}]
    /\ completed = [a \in Apps |-> 0]

IsTyped == program.mode \in DOMAIN Typists
Typist == Typists[program.mode]

\* getline: the next line, l.  An empty array is typed only where fields are
\* not merged: the code would look at its last argument.
Getline(l) ==
    /\ status = "reading"
    /\ \/ /\ written # <<>> /\ l = Head(written)
          /\ written' = Tail(written) /\ typed' = typed
       \/ /\ IsTyped /\ typed < Typist.most
          /\ l.inputs = <<>> => ~program.reader.duplicates
          /\ typed' = typed + 1 /\ written' = written
TheLines == IF IsTyped THEN Typist.lines ELSE { written[i] : i \in DOMAIN written \cap {1} }

SkipLine == \E l \in TheLines :
    /\ open = Nothing /\ Getline(l)
    /\ l.kind \in {"short", "comment"} \/ (l.kind = "quotes" /\ l.closed)
    /\ UNCHANGED <<program, open, at, output, status, applied, tree, strayed>>

OpenComment == \E l \in TheLines :
    /\ open = Nothing /\ Getline(l) /\ l.kind = "quotes" /\ ~l.closed
    /\ open' = [kind |-> "comment", until |-> l.quote, line |-> l]
    /\ UNCHANGED <<program, at, output, status, applied, tree, strayed>>

Header == \E l \in TheLines :
    /\ open = Nothing /\ Getline(l) /\ l.kind = "header"
    /\ output' = Headed(output, at.section, l.path)
    /\ at' = [section |-> l.path, previous |-> l.path, inSection |-> FALSE,
              index |-> IF l.path = at.previous THEN at.index + 1 ELSE 0]
    /\ strayed' = (strayed \/ (l.path = Default /\ Len(at.section) > 1))
    /\ UNCHANGED <<program, open, status, applied, tree>>

\* The name and arguments of an entry are complete: what from_config does with
\* them after the text has been taken apart.
Enter(l) ==
    LET parents == at.section \o Front(l.path)
        reader  == program.reader
        layers  == Len(parents) <= reader.layers
        taken   == layers /\ Chosen(reader, at, parents)
    IN  /\ IF Invalid \in ToSet(l.inputs)
           THEN /\ status' = "ParseError"
                /\ UNCHANGED <<at, output>>
           ELSE /\ status' = status
                /\ at' = [at EXCEPT !.inSection = @ \/ (taken /\ ~Whole(reader))]
                /\ output' = IF taken
                             THEN Added(output, Stripped(reader, at, parents), Last(l.path), l.inputs,
                                        <<at.section, at.index>>, reader.duplicates)
                             ELSE output
        /\ UNCHANGED <<program, applied, tree, strayed>>

EnterLine == \E l \in TheLines :
    /\ open = Nothing /\ Getline(l)
    /\ l.kind = "entry" \/ (l.kind \in {"array", "text"} /\ l.closed)
    /\ open' = open
    /\ Enter(l)

OpenEntry == \E l \in TheLines :
    /\ open = Nothing /\ Getline(l) /\ l.kind \in {"array", "text"} /\ ~l.closed
    /\ open' = [kind |-> l.kind, until |-> IF l.kind = "array" THEN "bracket" ELSE l.quote,
                line |-> l]
    /\ UNCHANGED <<program, at, output, status, applied, tree, strayed>>

\* A line while something is open: headers and entries are not told apart.
GoOn == \E l \in TheLines :
    /\ open # Nothing /\ Getline(l) /\ l.ends # open.until
    /\ UNCHANGED <<program, open, at, output, status, applied, tree, strayed>>

CloseComment == \E l \in TheLines :
    /\ open.kind = "comment" /\ Getline(l) /\ l.ends = open.until
    /\ open' = Nothing
    /\ UNCHANGED <<program, at, output, status, applied, tree, strayed>>

CloseEntry == \E l \in TheLines :
    /\ open.kind \in {"array", "text"} /\ Getline(l) /\ l.ends = open.until
    /\ open' = Nothing
    /\ Enter(open.line)

\* An array or a text that the file leaves open is entered as it is.
EndInEntry ==
    /\ status = "reading" /\ written = <<>> /\ open.kind \in {"array", "text"}
    /\ open' = Nothing /\ typed' = Typist.most /\ written' = written
    /\ Enter(open.line)

EndOfFile ==
    /\ status = "reading" /\ written = <<>> /\ open.kind \notin {"array", "text"}
    /\ output' = SectionsEnded(output, at.section)
    /\ status' = "applying"
    /\ UNCHANGED <<program, written, typed, open, at, applied, tree, strayed>>

-----------------------------------------------------------------------------
(* App::_parse_single_config.                                              *)

Applying(it) == status = "applying" /\ applied < Len(output) /\ it = output[applied + 1]
Applied == applied' = applied + 1 /\ UNCHANGED <<program, reading, strayed>>
Throws(error) == status' = error /\ UNCHANGED tree

\* What App::clear takes from an App and all it holds.
Forgotten(f, a, empty) == [x \in DOMAIN f |-> IF x \in Under(a) THEN empty ELSE f[x]]

\* increment_parsed counts the groups, too; _trigger_pre_parse clears a
\* subcommand with immediate_callback_ that was begun before.
OpenSection == \E it \in ToSet(output) :
    /\ Applying(it) /\ it.name = "++" /\ Locate(it.parents) # NoApp
    /\ LET a      == Locate(it.parents)
           counted == [b \in Apps |->
                        IF b \in Counting(a) THEN parsed[b] + 1 ELSE parsed[b]]
           again  == a \in entered /\ a \in program.immediate /\ ~IsGroup(a)
           lists  == IF again THEN Forgotten(listed, a, <<>>) ELSE listed
       IN  IF a \notin program.configurable THEN UNCHANGED tree
           ELSE /\ parsed' = IF again THEN [Forgotten(counted, a, 0) EXCEPT ![a] = counted[a]]
                             ELSE counted
                /\ listed' = [lists EXCEPT ![ParentOf(a)] = Append(@, a)]
                /\ entered' = IF again THEN (entered \ Under(a)) \cup {a} ELSE entered \cup {a}
                /\ results' = IF again
                              THEN [o \in Options |-> IF o[1] \in Under(a) THEN <<>> ELSE results[o]]
                              ELSE results
                /\ UNCHANGED <<seen, completed, missing>>
    /\ status' = status
    /\ Applied

\* _process_completion_callbacks, which may throw what a callback throws.
CloseSection == \E it \in ToSet(output) :
    /\ Applying(it) /\ it.name = "--" /\ Locate(it.parents) # NoApp
    /\ LET a == Locate(it.parents)
       IN  IF a \notin program.configurable \cap program.completes THEN UNCHANGED <<status, tree>>
           ELSE \/ /\ seen' = [seen EXCEPT ![a] = { o \in Own(a) : results[o] # <<>> }]
                   /\ completed' = [completed EXCEPT ![a] = @ + 1]
                   /\ UNCHANGED <<status, parsed, listed, entered, results, missing>>
                \/ Throws("CallbackError")
    /\ Applied

\* An item for nobody.  Only an App that was found can capture it.
Extra == \E it \in ToSet(output) :
    /\ Applying(it)
    /\ LET a == Locate(it.parents)
       IN  /\ IF a = NoApp THEN TRUE ELSE it.name \notin {"++", "--"} /\ HomeOf(it) = NoApp
           /\ missing' = IF a # NoApp /\ program.extras = "Capture"
                         THEN Append(missing, it.name) ELSE missing
    /\ status' = IF program.extras = "Error" THEN "ConfigExtras" ELSE status
    /\ UNCHANGED <<parsed, listed, entered, results, seen, completed>>
    /\ Applied

\* Mutated form: the separators reach an option that does not know them.
InputsKept(it) == it.inputs

\* The options here have no inject_separator.
Inputs(it) ==
    IF it.multiline THEN Kept(it.inputs, Values) ELSE it.inputs

\* op->empty().
Fresh(o) == results[o] = <<>>

\* The option o has got values.
Gets(o, values) ==
    /\ results' = [results EXCEPT ![o] = values]
    /\ UNCHANGED <<parsed, listed, entered, seen, completed, missing>>

\* More arguments than a flag takes, unless its policy gathers them.
TooMany(o, it) ==
    o \in Flags \ Gatherers /\ Len(it.inputs) > 1 /\ Len(Inputs(it)) > AtMost[o]

\* _add_flag_like_result on too many arguments.  With disable_flag_override
\* each that is a value of the flag is added, up to one that is none.
Overfull(o, inputs) ==
    LET wrong == { i \in DOMAIN inputs : inputs[i] \notin FlagWords }
    IN  \/ AtMost[o] > 1 /\ Throws("ArgumentMismatch")
        \/ AtMost[o] <= 1 /\ o \notin Fixed /\ Throws("ConversionError")
        \/ /\ AtMost[o] <= 1 /\ o \in Fixed /\ wrong = {}
           /\ Gets(o, inputs) /\ status' = status
        \/ /\ AtMost[o] <= 1 /\ o \in Fixed /\ wrong # {}
           /\ Gets(o, SubSeq(inputs, 1, Min(wrong) - 1)) /\ status' = "InvalidError"

\* An option that has results keeps them.  A flag takes one argument, through
\* to_flag, or none.  The callback of an option that is no flag, or of a flag
\* with a list, runs at once; it may refuse what it is given, as may the flag.
SetOption == \E it \in ToSet(output) :
    /\ Applying(it) /\ it.name \notin {"++", "--"} /\ HomeOf(it) # NoApp
    /\ LET o == <<HomeOf(it), it.name>>
           taken == IF o \in Flags /\ it.inputs = <<>> THEN <<"{}">> ELSE Inputs(it)
       IN  \/ /\ o \in Locked
              /\ IF program.extras = "IgnoreAll" THEN UNCHANGED <<status, tree>>
                 ELSE Throws("NotConfigurable")
           \/ o \notin Locked /\ ~Fresh(o) /\ UNCHANGED <<status, tree>>
           \/ o \notin Locked /\ Fresh(o) /\ TooMany(o, it) /\ Overfull(o, Inputs(it))
           \/ /\ o \notin Locked /\ Fresh(o) /\ ~TooMany(o, it)
              /\ \/ Gets(o, taken) /\ status' = status
                 \/ IsTyped /\ Throws("ConversionError")
    /\ Applied

Finish ==
    /\ status = "applying" /\ applied = Len(output)
    /\ status' = "done"
    /\ UNCHANGED <<program, reading, applied, tree, strayed>>

Next ==
    \/ SkipLine \/ OpenComment \/ CloseComment \/ Header
    \/ EnterLine \/ OpenEntry \/ GoOn \/ CloseEntry \/ EndInEntry \/ EndOfFile
    \/ OpenSection \/ CloseSection \/ Extra \/ SetOption \/ Finish

Spec == Init /\ [][Next]_vars

-----------------------------------------------------------------------------
(* Properties.                                                             *)

TypeOK ==
    /\ program \in ProgramType
    /\ ToSet(written) \subseteq LineType /\ typed \in Nat
    /\ open = Nothing \/ open.until \in Endings
    /\ at \in [section : Paths, previous : Paths, index : Nat, inSection : BOOLEAN]
    /\ ToSet(output) \subseteq ItemType
    /\ status \in {"reading", "applying", "done", "ParseError", "ConfigExtras",
                   "NotConfigurable", "ConversionError", "ArgumentMismatch", "InvalidError",
                   "CallbackError"}
    /\ applied \in 0..Len(output)
    /\ parsed \in [Apps -> Nat] /\ completed \in [Apps -> Nat]
    /\ \A a \in Apps : listed[a] \in Seq(ToSet(SubsOf[a])) /\ seen[a] \subseteq Own(a)
    /\ entered \subseteq Apps
    /\ results \in [Options -> Seq((Values \ {Separator}) \cup {"{}"})]
    /\ missing \in Seq(Segments \cup {""})
    /\ strayed \in BOOLEAN

\* How often the section p has been opened more than closed.
Balance(p) ==
    Cardinality({ i \in DOMAIN output : output[i].name = "++" /\ output[i].parents = p })
        - Cardinality({ i \in DOMAIN output : output[i].name = "--" /\ output[i].parents = p })

\* The sections that are open are those that the last header is in, each of
\* them once, from whatever section the reader came; at the end none is, and
\* none is ever closed that was not open (from_config, checkParentSegments).
\* Excepted is a file that leaves [a.b] for [default]: a stays open.
SectionsNest ==
    \A p \in { it.parents : it \in { i \in ToSet(output) : i.name \in {"++", "--"} } } :
        /\ Balance(p) >= 0
        /\ ~strayed =>
            IF status \in {"reading", "ParseError"}
            THEN Balance(p) = IF IsPrefix(p, at.section) THEN 1 ELSE 0
            ELSE Balance(p) = 0

\* What a section sets of its subcommand is set when the subcommand is
\* completed, whatever other sections come between (from_config,
\* App::_parse_single_config).  An entry without arguments sets nothing, and a
\* section that comes again clears what has immediate_callback_.  Excepted as in
\* SectionsNest is a file that leaves [a.b] for [default]: a, which stays open,
\* is not completed.
CompletionSeesSection ==
    status = "done" /\ ~strayed =>
        \A it \in ToSet(output) :
            LET a == Locate(it.parents)
                o == <<a, it.name>>
            IN  /\ it.name \notin {"++", "--"}
                /\ it.parents = it.origin[1] /\ it.parents # <<>>
                /\ a \in program.configurable \cap program.completes
                /\ \A b \in program.immediate : a \notin Under(b)
                /\ o \in Options \ Locked /\ (it.inputs # <<>> \/ o \in Flags)
                => o \in seen[a]

\* The Apps that a written file has something of.
Shown == { a \in Apps \ {Root} : ~IsGroup(a) /\ \A b \in Apps : a \in Under(b) => ~Skipped(program, b) }

\* A program that reads the file another run of it has written has the same
\* options set (ConfigBase::to_config, from_config): in the modes for defaults
\* some more, and none of a subcommand that the mode leaves out.  Excepted are
\* programs where some subcommands get sections and others dotted names: a
\* dotted name behind a section is read as part of it.
WrittenFileReadsBack ==
    /\ status \notin {"reading", "applying", "CallbackError"} /\ ~IsTyped
    /\ \A a, b \in Shown : Sectioned(program, a) <=> Sectioned(program, b)
    => \A o \in Options \ Locked :
        /\ o \in program.given /\ (\A b \in Apps : o[1] \in Under(b) => ~Skipped(program, b))
            => results[o] = <<Used>>
        /\ o \notin program.given => results[o] \in {<<>>, <<Assumed>>}

\* With configSection and configIndex, what is read under a header is read
\* under one of that section and index (from_config).
OnlyTheSection ==
    ~Whole(program.reader) =>
        \A it \in ToSet(output) :
            it.name \notin {"++", "--"} /\ it.origin[1] # Default =>
                /\ Head(it.origin[1]) = program.reader.section
                /\ program.reader.index >= 0 => it.origin[2] = program.reader.index
=============================================================================
