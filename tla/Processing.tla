----------------------------- MODULE Processing ------------------------------
(***************************************************************************)
(* When App::parse runs the callbacks: App::_process after the command     *)
(* line, _process_completion_callbacks of a subcommand that ends early,    *)
(* and run_callback at the end.  How tokens find their Apps is in          *)
(* CommandLine; here a line is any order of options given, subcommands     *)
(* begun and subcommands left.  The calls that are under way are on an     *)
(* agenda, the next one first, because a callback may throw out of any of  *)
(* them and a section of a file may begin others.                          *)
(***************************************************************************)
EXTENDS AppTree

CONSTANTS
    RulesOf,        \* App -> what it requires and calls
    OptionRules,    \* Option -> what it requires, and when its callback is due
    Files,          \* what a configuration file may hold: sequences of items
    MaxUses         \* bound on the uses of one subcommand

VARIABLES
    line,           \* the Apps whose _parse is active, the innermost last
    agenda,         \* the calls to come
    status,         \* "parsing", "done" or what was thrown
    parsed,         \* parsed_ of each App
    listed,         \* parsed_subcommands_
    given,          \* the Options that have results
    delivered,      \* those whose callback has run on them
    finals,         \* how often each final_callback_ has run, up to 2
    broken          \* a FileError is kept for later: config_exception

vars == <<line, agenda, status, parsed, listed, given, delivered, finals, broken>>

\* Each priority a help flag can have, and the one just before it.
PreHelp ==
    [First |-> "FirstPreHelp", PreRequirementsCheck |-> "PreRequirementsCheckPreHelp",
     Normal |-> "NormalPreHelp", Last |-> "LastPreHelp"]
Priorities == DOMAIN PreHelp \cup { PreHelp[p] : p \in DOMAIN PreHelp }

Errors == {"CallForHelp", "RequirementError", "FileError", "CallbackError"}

AppRules ==
    [final : BOOLEAN,               \* final_callback_ is set
     configurable : BOOLEAN, required : BOOLEAN,
     help : Options \cup {NoOption},
     needs : SUBSET (Apps \cup Options), excludes : SUBSET (Apps \cup Options),
     minSubs : Nat,                 \* require_subcommand_min_
     minOpts : Nat, maxOpts : Nat]  \* require_option_min_, _max_

OptionRuleType ==
    [priority : Priorities, required : BOOLEAN, env : BOOLEAN,
     needs : SUBSET Options, excludes : SUBSET Options]

\* An item of a file opens or closes the section of an App, which is found by
\* its name, or sets an option.
Items == [open : Names] \cup [close : Names] \cup [set : Options]

ASSUME RulesAssumption ==
    /\ RulesOf \in [Apps -> AppRules]
    /\ \A a \in Apps : RulesOf[a].help # NoOption => RulesOf[a].help \in ToSet(AppOf[a].opts)
    /\ OptionRules \in [Options -> OptionRuleType]
    \* excludes() enters the link on both sides.
    /\ \A o, x \in Options : x \in OptionRules[o].excludes <=> o \in OptionRules[x].excludes
    /\ \A a, b \in Apps : a \in RulesOf[b].excludes <=> b \in RulesOf[a].excludes
    /\ Files \subseteq Seq(Items) /\ <<>> \in Files
    /\ MaxUses \in Nat

-----------------------------------------------------------------------------
(* What the code asks of the tree.                                         *)

IsFlag(o) == OptionOf[o].min = 0
Own(a) == ToSet(AppOf[a].opts)

\* count_all() > 0.
Used(a) ==
    LET used[x \in Apps] ==
            \/ Own(x) \cap given # {}
            \/ \E s \in Subs(x) : used[s]
            \/ ~IsGroup(x) /\ parsed[x] > 0
    IN  used[a]
Present(x) == IF x \in Options THEN x \in given ELSE Used(x)

\* The Apps whose help flag, of priority p, is given.
Asking(p) == { x \in Apps : /\ RulesOf[x].help \in given
                            /\ OptionRules[RulesOf[x].help].priority = p }

\* Mutated form: what a asks for is for its subcommands to find.
HelpOfLast(a, p) ==
    LET asked[x \in Apps] ==
            \/ x \in Asking(p) /\ listed[x] = <<>>
            \/ \E s \in ToSet(listed[x]) : asked[s]
    IN  asked[a]

\* _process_help_flags throws: an App on the way to the last asks for help.
HelpWanted(a, p) ==
    LET asked[x \in Apps] ==
            x \in Asking(p) \/ \E s \in ToSet(listed[x]) : asked[s]
    IN  asked[a]

\* The options _process_env looks at from a.
EnvironmentOf(a) ==
    LET seen[x \in Apps] ==
            Own(x) \cup UNION { seen[s] : s \in { t \in Subs(x) :
                        IsGroup(t) \/ (Used(t) /\ ~AppOf[t].completes) } }
    IN  { o \in seen[a] : OptionRules[o].env /\ o \notin given }

OptionSatisfied(o) ==
    /\ OptionRules[o].required => o \in given
    /\ o \in given => /\ OptionRules[o].needs \subseteq given
                      /\ OptionRules[o].excludes \cap given = {}

\* The options of an App that are used; a used group counts as one.
UsedOptions(a) ==
    Cardinality(Own(a) \cap given)
        + Cardinality({ s \in Subs(a) : IsGroup(s) /\ ~AppOf[s].disabled /\ Used(s) })

EnoughOptions(a) ==
    /\ UsedOptions(a) >= RulesOf[a].minOpts
    /\ RulesOf[a].maxOpts > 0 => UsedOptions(a) <= RulesOf[a].maxOpts

\* A group that received nothing need not be looked at when a has enough.
MayPass(a, s) ==
    /\ IsGroup(s) /\ ~RulesOf[s].required /\ ~Used(s)
    /\ \/ RulesOf[a].minOpts > 0
       \/ RulesOf[a].maxOpts > 0

\* Excluded by something present, or in need of something absent.
Barred(a) ==
    \/ \E x \in RulesOf[a].excludes : Present(x)
    \/ \E x \in RulesOf[a].needs : ~Present(x)

\* Mutated form: groups are not looked into.
SatisfiedNamed(a) ==
    LET satisfied[x \in Apps] ==
            IF Barred(x) THEN ~Used(x)
            ELSE /\ \A o \in Own(x) : OptionSatisfied(o)
                 /\ Len(listed[x]) >= RulesOf[x].minSubs
                 /\ EnoughOptions(x)
                 /\ \A s \in Subs(x) :
                        /\ parsed[s] > 0 /\ ~IsGroup(s) => satisfied[s]
                        /\ RulesOf[s].required => Used(s)
    IN  satisfied[a]

\* _process_requirements does not throw.
Satisfied(a) ==
    LET satisfied[x \in Apps] ==
            IF Barred(x) THEN ~Used(x)
            ELSE /\ \A o \in Own(x) : OptionSatisfied(o)
                 /\ Len(listed[x]) >= RulesOf[x].minSubs
                 /\ EnoughOptions(x)
                 /\ \A s \in Subs(x) :
                        \/ AppOf[s].disabled \/ MayPass(x, s)
                        \/ /\ parsed[s] > 0 \/ IsGroup(s) => satisfied[s]
                           /\ RulesOf[s].required => Used(s)
    IN  satisfied[a]

-----------------------------------------------------------------------------
(* The calls on the agenda.                                                *)

Do(what, on) == [do |-> what, on |-> on]
Round(a, p) == [do |-> "callbacks", on |-> a, priority |-> p]
Help(a, p) == [do |-> "help", on |-> a, priority |-> p]
Run(a, quiet) == [do |-> "run", on |-> a, quiet |-> quiet]
\* The calls for each element of s that is in S, in order.
Each(s, S, calls) ==
    FlattenSeq([i \in DOMAIN s |-> IF s[i] \in S THEN calls[s[i]] ELSE <<>>])

\* One priority: the callbacks before help, help, the callbacks after it.
Stage(a, p, withHelp) ==
    <<Round(a, PreHelp[p])>> \o (IF withHelp THEN <<Help(a, p)>> ELSE <<>>) \o <<Round(a, p)>>

\* Up to the check of requirements: the first priority, then what is to be read.
Checked(a, reads, withHelp) ==
    Stage(a, "First", withHelp) \o reads \o Stage(a, "PreRequirementsCheck", withHelp)
    \o <<Do("requirements", a)>>
Sources == <<Do("sources", Root)>>
Ending == <<Do("extras", Root), Run(Root, FALSE), Do("return", Root)>>

\* Mutated form: the error of a file is thrown where it is met.
ProcessHasty ==
    Checked(Root, Sources \o <<Do("rethrow", Root)>>, TRUE)
    \o Stage(Root, "Normal", TRUE) \o Stage(Root, "Last", TRUE) \o Ending

\* The end of parse: _process, _process_extras and run_callback.
Process ==
    Checked(Root, Sources, TRUE)
    \o Stage(Root, "Normal", TRUE) \o <<Do("rethrow", Root)>> \o Stage(Root, "Last", TRUE)
    \o Ending

EnvironmentIf(a, withHelp) == IF withHelp THEN <<Do("environment", a)>> ELSE <<>>

\* Mutated forms: the final callbacks are not suppressed; the callbacks of the
\* last priority come too late.
CompletionLoud(a, withHelp) ==
    Checked(a, EnvironmentIf(a, withHelp), withHelp)
    \o Stage(a, "Normal", withHelp) \o Stage(a, "Last", withHelp) \o <<Run(a, FALSE)>>
CompletionEarly(a, withHelp) ==
    Checked(a, EnvironmentIf(a, withHelp), withHelp)
    \o Stage(a, "Normal", withHelp) \o <<Run(a, withHelp)>> \o Stage(a, "Last", withHelp)

\* _process_completion_callbacks.
Completion(a, withHelp) ==
    Checked(a, EnvironmentIf(a, withHelp), withHelp)
    \o Stage(a, "Normal", withHelp) \o Stage(a, "Last", withHelp) \o <<Run(a, withHelp)>>

\* The options whose callback is due in a round, and the call of each.
Due(p) == { o \in given \ delivered : OptionRules[o].priority = p }
Deliveries == [o \in Options |-> <<Do("deliver", o)>>]

UsedGroups(x) == { s \in Subs(x) : IsGroup(s) /\ Used(s) }
Completing == { s \in Apps : AppOf[s].completes }

\* Mutated form: the groups that complete are not looked at first.
CallbacksOfRest(a, p) ==
    LET calls[x \in Apps] ==
            Each(AppOf[x].opts, Due(p), Deliveries)
            \o Each(AppOf[x].subs, Apps \ Completing, calls)
    IN  calls[a]

\* _process_callbacks: groups that complete first, then the options of a,
\* then the subcommands and groups that do not complete.
Callbacks(a, p) ==
    LET calls[x \in Apps] ==
            Each(AppOf[x].subs, UsedGroups(x) \cap Completing,
                 [s \in Apps |-> calls[s] \o IF p = "Normal" THEN <<Run(s, FALSE)>> ELSE <<>>])
            \o Each(AppOf[x].opts, Due(p), Deliveries)
            \o Each(AppOf[x].subs, Apps \ Completing, calls)
    IN  calls[a]

\* Mutated form: the subcommands of a group are run by its parent too.
FinalsOfListed(a) ==
    LET calls[x \in Apps] ==
            Each(listed[x], Apps, calls)
            \o Each(AppOf[x].subs, UsedGroups(x), calls)
            \o IF RulesOf[x].final /\ parsed[x] > 0 THEN <<Do("final", x)>> ELSE <<>>
    IN  calls[a]

\* The final callbacks run_callback comes to: listed subcommands, used groups,
\* then the App itself.
Finals(a) ==
    LET calls[x \in Apps] ==
            Each(listed[x], Subs(x), calls)
            \o Each(AppOf[x].subs, UsedGroups(x), calls)
            \o IF RulesOf[x].final /\ parsed[x] > 0 /\ (IsGroup(x) => Used(x))
               THEN <<Do("final", x)>> ELSE <<>>
    IN  calls[a]

\* An item of a file, as calls.
CallOf(item) ==
    IF "set" \in DOMAIN item THEN Do("set", item.set)
    ELSE IF "open" \in DOMAIN item THEN Do("open", item.open)
    ELSE Do("close", item.close)

-----------------------------------------------------------------------------
(* The command line.                                                       *)

Top == Last(line)
Reading == status = "parsing" /\ agenda = <<>> /\ line # <<>>

Init ==
    /\ line = <<Root>>
    /\ agenda = <<>>
    /\ status = "parsing"
    /\ parsed = [a \in Apps |-> IF a \in Counted[Root] THEN 1 ELSE 0]
    /\ listed = [a \in Apps |-> <<>>]
    /\ given = {}
    /\ delivered = {}
    /\ finals = [a \in Apps |-> 0]
    /\ broken = FALSE

\* add_result, which makes the callback due again.
Gives(S) == given' = given \cup S /\ delivered' = delivered \ S

\* Mutated form: what is cleared still counts as delivered.
BeginsHalfCleared(a, lists) ==
    LET S == IF AppOf[a].immediate /\ parsed[a] > 0 THEN Subtree[a] ELSE {}
    IN  /\ given' = given \ OptionsOf(S)
        /\ parsed' = [x \in Apps |-> IF x \in Counted[a] THEN parsed[x] + 1 ELSE parsed[x]]
        /\ listed' = [x \in Apps |-> IF x \in S THEN <<>> ELSE lists[x]]
        /\ UNCHANGED delivered

\* increment_parsed and _trigger_pre_parse of a named App that is listed as
\* lists says: when it is immediate, its second use starts from nothing.
Begins(a, lists) ==
    LET S == IF AppOf[a].immediate /\ parsed[a] > 0 THEN Subtree[a] ELSE {}
    IN  /\ given' = given \ OptionsOf(S)
        /\ delivered' = delivered \ OptionsOf(S)
        /\ parsed' = [x \in Apps |->
                IF x = a THEN parsed[x] + 1
                ELSE IF x \in S THEN 0
                ELSE IF x \in Counted[a] THEN parsed[x] + 1 ELSE parsed[x]]
        /\ listed' = [x \in Apps |-> IF x \in S THEN <<>> ELSE lists[x]]

\* An option of the innermost App, or of those its tokens fall through to.
GiveOption(o) ==
    /\ Reading
    /\ \E x \in ToSet(Chain[Top]) : o \in OptionsOf(Level(x))
    /\ o \in given => o \in delivered      \* otherwise nothing changes
    /\ Gives({o})
    /\ UNCHANGED <<line, agenda, status, parsed, listed, finals, broken>>

\* A subcommand begins; one that repeats is not listed again.
BeginSubcommand(s) ==
    /\ Reading
    /\ s \in Reach(Top)
    /\ parsed[s] < MaxUses
    /\ Begins(s, IF parsed[s] > 0 \/ AppOf[s].silent THEN listed
                 ELSE [listed EXCEPT ![Top] = Append(@, s)])
    /\ line' = Append(line, s)
    /\ UNCHANGED <<agenda, status, finals, broken>>

\* A subcommand ends: it completes, then the group that holds it lists it.
EndSubcommand ==
    /\ Reading /\ Top # Root
    /\ agenda' = (IF AppOf[Top].completes THEN Completion(Top, TRUE) ELSE <<>>)
                    \o <<Do("leave", Top)>>
    /\ UNCHANGED <<line, status, parsed, listed, given, delivered, finals, broken>>

EndLine ==
    /\ Reading /\ Top = Root
    /\ agenda' = Process
    /\ line' = <<>>
    /\ UNCHANGED <<status, parsed, listed, given, delivered, finals, broken>>

-----------------------------------------------------------------------------
(* The next call on the agenda.                                            *)

Next_(what) == status = "parsing" /\ agenda # <<>> /\ Head(agenda).do = what
On == Head(agenda).on
Return == agenda' = Tail(agenda)
Becomes(calls) == agenda' = calls \o Tail(agenda)
Throw(error) == status' = error /\ agenda' = <<>>

Leave ==
    /\ Next_("leave")
    /\ Return
    /\ line' = Front(line)
    /\ listed' = IF IsGroup(Parent(On)) /\ On \in ToSet(listed[Last(line')])
                        /\ On \notin ToSet(listed[Parent(On)])
                 THEN [listed EXCEPT ![Parent(On)] = Append(@, On)]
                 ELSE listed
    /\ UNCHANGED <<status, parsed, given, delivered, finals, broken>>

RunCallbacks ==
    /\ Next_("callbacks")
    /\ Becomes(Callbacks(On, Head(agenda).priority))
    /\ UNCHANGED <<line, status, parsed, listed, given, delivered, finals, broken>>

\* run_callback of an option: its conversion, or the program, may throw.
Deliver ==
    /\ Next_("deliver")
    /\ \/ Return /\ delivered' = delivered \cup {On} /\ UNCHANGED status
       \/ Throw("CallbackError") /\ UNCHANGED delivered
    /\ UNCHANGED <<line, parsed, listed, given, finals, broken>>

LookForHelp ==
    /\ Next_("help")
    /\ IF HelpWanted(On, Head(agenda).priority) THEN Throw("CallForHelp")
       ELSE Return /\ UNCHANGED status
    /\ UNCHANGED <<line, parsed, listed, given, delivered, finals, broken>>

\* _process_config_file: the last of the files may not be readable.  Otherwise
\* the environment is read next.
ReadFile ==
    /\ Next_("sources")
    /\ \E f \in Files, last \in {"environment", "unreadable"} :
            Becomes([i \in DOMAIN f |-> CallOf(f[i])] \o <<Do(last, Root)>>)
    /\ UNCHANGED <<line, status, parsed, listed, given, delivered, finals, broken>>

\* The error is kept.
FileUnreadable ==
    /\ Next_("unreadable")
    /\ broken' = TRUE
    /\ Return
    /\ UNCHANGED <<line, status, parsed, listed, given, delivered, finals>>

\* _parse_single_config: an option that has results keeps them; a flag's
\* callback is left to the rounds.
SetOption ==
    /\ Next_("set")
    /\ IF On \in given THEN UNCHANGED <<given, delivered>> /\ Return
       ELSE Gives({On}) /\ Becomes(IF IsFlag(On) THEN <<>> ELSE <<Do("deliver", On)>>)
    /\ UNCHANGED <<line, status, parsed, listed, finals, broken>>

OpenSection ==
    /\ Next_("open")
    /\ Return
    /\ IF RulesOf[On].configurable
       THEN Begins(On, [listed EXCEPT ![Parent(On)] = Append(@, On)])
       ELSE UNCHANGED <<parsed, listed, given, delivered>>
    /\ UNCHANGED <<line, status, finals, broken>>

CloseSection ==
    /\ Next_("close")
    /\ Becomes(IF RulesOf[On].configurable /\ AppOf[On].completes
               THEN Completion(On, FALSE) ELSE <<>>)
    /\ UNCHANGED <<line, status, parsed, listed, given, delivered, finals, broken>>

\* Any of the variables may be set.
ReadEnvironment ==
    /\ Next_("environment")
    /\ \E S \in SUBSET EnvironmentOf(On) : Gives(S)
    /\ Return
    /\ UNCHANGED <<line, status, parsed, listed, finals, broken>>

CheckRequirements ==
    /\ Next_("requirements")
    /\ IF Satisfied(On) THEN Return /\ UNCHANGED status ELSE Throw("RequirementError")
    /\ UNCHANGED <<line, parsed, listed, given, delivered, finals, broken>>

Rethrow ==
    /\ Next_("rethrow")
    /\ IF broken THEN Throw("FileError") ELSE Return /\ UNCHANGED status
    /\ UNCHANGED <<line, parsed, listed, given, delivered, finals, broken>>

\* What _process_extras throws is in CommandLine.
CheckExtras ==
    /\ Next_("extras")
    /\ Return
    /\ UNCHANGED <<line, status, parsed, listed, given, delivered, finals, broken>>

RunCallback ==
    /\ Next_("run")
    /\ Becomes((IF AppOf[On].completes THEN <<Do("completed", On)>> ELSE <<>>)
                   \o (IF Head(agenda).quiet THEN <<>> ELSE Finals(On)))
    /\ UNCHANGED <<line, status, parsed, listed, given, delivered, finals, broken>>

\* The callbacks of an App, which the program may leave by an exception.
Completed ==
    /\ Next_("completed")
    /\ (Return /\ UNCHANGED status) \/ Throw("CallbackError")
    /\ UNCHANGED <<line, parsed, listed, given, delivered, finals, broken>>
FinalCallback ==
    /\ Next_("final")
    /\ \/ /\ Return /\ UNCHANGED status
          /\ finals' = [finals EXCEPT ![On] = IF @ = 2 THEN 2 ELSE @ + 1]
       \/ Throw("CallbackError") /\ UNCHANGED finals
    /\ UNCHANGED <<line, parsed, listed, given, delivered, broken>>

ParseReturns ==
    /\ Next_("return")
    /\ status' = "done"
    /\ Return
    /\ UNCHANGED <<line, parsed, listed, given, delivered, finals, broken>>

Call ==
    \/ Leave \/ RunCallbacks \/ Deliver \/ LookForHelp
    \/ ReadFile \/ FileUnreadable \/ SetOption \/ OpenSection \/ CloseSection
    \/ ReadEnvironment \/ CheckRequirements \/ Rethrow \/ CheckExtras
    \/ RunCallback \/ Completed \/ FinalCallback \/ ParseReturns

Next ==
    \/ \E o \in Options : GiveOption(o)
    \/ \E s \in Names : BeginSubcommand(s)
    \/ EndSubcommand
    \/ EndLine
    \/ Call

Spec == Init /\ [][Next]_vars

-----------------------------------------------------------------------------
(* Properties.                                                             *)

Calls ==
    { Do(what, a) : what \in {"unreadable", "sources", "environment", "requirements",
                              "rethrow", "extras", "completed", "final", "return"}, a \in Apps }
    \cup { Do(what, s) : what \in {"leave", "open", "close"}, s \in Names }
    \cup { Do(what, o) : what \in {"deliver", "set"}, o \in Options }
    \cup { Round(a, p) : a \in Apps, p \in Priorities }
    \cup { Help(a, p) : a \in Apps, p \in DOMAIN PreHelp }
    \cup { Run(a, quiet) : a \in Apps, quiet \in BOOLEAN }

\* The values of the variables, in the types the code gives them.
TypeOK ==
    /\ line \in Seq(Apps)
    /\ agenda \in Seq(Calls)
    /\ status \in {"parsing", "done"} \cup Errors
    /\ parsed \in [Apps -> Nat]
    /\ listed \in [Apps -> Seq(Names)]
    /\ given \subseteq Options
    /\ delivered \subseteq given
    /\ finals \in [Apps -> 0..2]
    /\ broken \in BOOLEAN

IsDone == status = "done"
Completes(a) == ~IsGroup(a) /\ AppOf[a].completes

\* b stands in more than one place of its parent's parsed_subcommands_.
ListedTwice(b) ==
    \E i, j \in DOMAIN listed[Parent(b)] :
        i # j /\ listed[Parent(b)][i] = b /\ listed[Parent(b)][j] = b

\* Apps whose final callback the code may run twice: a group that completes is
\* run by _process_callbacks and by run_callback, with all it holds; a
\* subcommand is listed again by each section a file opens for it, and a
\* section that closes runs the final callback of one that completes.
FinalTwice(a) ==
    \E b \in Lineage[a] :
        \/ IsGroup(b) /\ AppOf[b].completes
        \/ RulesOf[b].configurable /\ AppOf[b].completes
        \/ ListedTwice(b)

\* When parse returns, the final callback of every App that was used, by the
\* command line or by a section of a file, has run exactly once, through
\* groups, repeated and completing subcommands, and no other has run.
FinalOnce ==
    IsDone => \A a \in Apps :
        ~FinalTwice(a) =>
            finals[a] = IF /\ RulesOf[a].final
                           /\ parsed[a] > 0
                           /\ IsGroup(a) => Used(a)
                           /\ \A b \in Lineage[a] : ~IsGroup(b) => b \in ToSet(listed[Parent(b)])
                        THEN 1 ELSE 0

\* The callbacks of options all come before those that end Apps: once a final
\* callback has run, no option is delivered any more.
FinalsLast == [][(\E a \in Apps : finals[a] > 0 /\ ~FinalTwice(a)) => delivered' = delivered]_vars

\* Options whose callback the code may never run on what they hold: of
\* priority First, from a source that is read after that round; a flag that a
\* file sets below a subcommand that completes.
Missable(o) ==
    \/ OptionRules[o].priority \in {"FirstPreHelp", "First"} /\ (OptionRules[o].env \/ IsFlag(o))
    \/ IsFlag(o) /\ \E b \in Lineage[Owner(o)] : Completes(b)

\* When parse returns, every option that got a value, from whatever source and
\* in whatever App, has had its callback run on it.
EveryOptionDelivered == IsDone => \A o \in given : o \in delivered \/ Missable(o)

\* A help flag is looked for in vain when its priority is First and the
\* environment sets it afterwards.
HelpMayBeLate(p) ==
    p = "First" /\ \E a \in Apps, o \in Options :
        RulesOf[a].help = o /\ OptionRules[o].priority = p /\ OptionRules[o].env

\* The parse_complete_callback of a subcommand sees its options and those of
\* its groups delivered and its requirements met.  On the command line it runs
\* only when neither the subcommand nor one listed below it asks for help; the
\* closing of a section of a file, when the line has ended, does not look.
CompletionSeesOptions ==
    agenda # <<>> /\ Head(agenda).do = "completed" /\ Completes(On) =>
        /\ \A o \in given : o \in OptionsOf(Counted[On]) => o \in delivered \/ Missable(o)
        /\ Satisfied(On)
        /\ line # <<>> => \A p \in DOMAIN PreHelp : HelpWanted(On, p) => HelpMayBeLate(p)

\* When parse returns, what was declared of options and Apps is true of those
\* that were used, whichever completed early and whatever came later.
RequirementsKept ==
    IsDone => \A a \in Apps :
        parsed[a] > 0 /\ Used(a) =>
            /\ \A o \in Own(a) : OptionSatisfied(o)
            /\ \A x \in RulesOf[a].needs : Present(x)
            /\ \A x \in RulesOf[a].excludes : ~Present(x)
            /\ \A s \in Subs(a) : RulesOf[s].required => Used(s)
            /\ Len(listed[a]) >= RulesOf[a].minSubs
            /\ EnoughOptions(a)

\* The Apps _process_help_flags comes to from a.
ListedFrom(a) ==
    LET from[x \in Apps] == {x} \cup UNION { from[s] : s \in ToSet(listed[x]) }
    IN  from[a]

\* Who asks for help is not answered by a result; nor, when help flags have
\* their priority First, by a missing requirement or file, where the request is
\* made of the App that is processed or of one listed below it.
HelpComesFirst ==
    status \in {"done", "FileError", "RequirementError"} =>
        \A a \in ListedFrom(IF line = <<>> THEN Root ELSE Top) :
            RulesOf[a].help \in given =>
                ~IsDone /\ OptionRules[RulesOf[a].help].priority # "First"

\* An unreadable file is the last of errors to be reported: requirements have
\* been found met, and the callbacks up to priority Normal have run.
FileErrorComesLast ==
    status = "FileError" =>
        /\ Satisfied(Root)
        /\ \A o \in given :
            \/ o \in delivered \/ Missable(o)
            \/ OptionRules[o].priority \in {"LastPreHelp", "Last"}
=============================================================================
