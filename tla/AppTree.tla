------------------------------- MODULE AppTree -------------------------------
(***************************************************************************)
(* What App::_configure leaves fixed while a command line is parsed: the   *)
(* tree of subcommands and option groups, the options each App owns, the   *)
(* settings of both, and the tokens a command line is made of.             *)
(*                                                                         *)
(* A token is a plain word, the name of a subcommand (the subcommand       *)
(* itself stands for its name), the mark "--", the terminator "++", an     *)
(* option token such as --sub.opt=value, or a dotted word such as          *)
(* sub.leaf.                                                               *)
(***************************************************************************)
EXTENDS Integers, Sequences, SequencesExt, FiniteSetsExt

CONSTANTS
    Apps, Root,     \* every App, and the one parse is called on
    Options,        \* every Option
    AppOf,          \* App -> its settings
    OptionOf,       \* Option -> its settings
    Words,          \* plain words
    OptionTokens,   \* option tokens
    TokenOf,        \* option token -> what split_long or split_short make of it
    DottedWords,    \* dotted words
    PathOf,         \* dotted word -> the part before the dot and the one after
    NoApp, NoOption, NoValue

Mark == "--"
Terminator == "++"
Names == { a \in Apps \ {Root} : ~AppOf[a].group }
Tokens == Words \cup Names \cup OptionTokens \cup DottedWords \cup {Mark, Terminator}

ExtrasModes == {"Error", "ErrorImmediately", "Ignore", "AssumeSingleArgument",
                "AssumeMultipleArguments", "Capture"}
PrefixModes == {"Off", "SeparatorOnly", "On", "PositionalOnly"}

AppType ==
    [parent : Apps \cup {NoApp}, subs : Seq(Apps), opts : Seq(Options),
     group : BOOLEAN, disabled : BOOLEAN, silent : BOOLEAN,
     completes : BOOLEAN,       \* parse_complete_callback_ is set
     immediate : BOOLEAN,       \* immediate_callback_
     fallthrough : BOOLEAN, subFallthrough : BOOLEAN,
     posAtEnd : BOOLEAN,        \* positionals_at_end_
     validates : BOOLEAN,       \* validate_positionals_
     validatesOptional : BOOLEAN,
     max : Nat,                 \* require_subcommand_max_
     extras : ExtrasModes, prefix : PrefixModes]

OptionType ==
    [positional : BOOLEAN, required : BOOLEAN,
     min : Nat, max : Nat,      \* get_items_expected_min, _max
     extra : BOOLEAN,           \* allow_extra_args_
     trigger : BOOLEAN,         \* trigger_on_result_
     accepts : SUBSET Tokens]   \* what the validators let through

\* sub is the subcommand before the dot, if there is one; opts are the options
\* of that name, and value is what follows the equals sign.
TokenType ==
    [sub : Names \cup {NoApp}, opts : SUBSET Options, value : Words \cup {NoValue}]

\* add_subcommand makes an App and gives it to one parent that exists already,
\* so no App is above itself or twice in one list; an option has one owner,
\* which holds it once.  A nameless App is not nested in another, and
\* _configure denies it fallthrough and prefix commands.  A positional expects
\* an argument.
ASSUME TreeAssumption ==
    /\ IsFiniteSet(Apps) /\ IsFiniteSet(Options)
    /\ Root \in Apps /\ NoApp \notin Apps /\ NoOption \notin Options
    /\ AppOf \in [Apps -> AppType]
    /\ OptionOf \in [Options -> OptionType]
    /\ TokenOf \in [OptionTokens -> TokenType]
    /\ PathOf \in [DottedWords -> [head : Names, tail : Names]]
    /\ AppOf[Root].parent = NoApp /\ ~AppOf[Root].group /\ ~AppOf[Root].disabled
    /\ \A a \in Apps \ {Root} :
        /\ AppOf[a].parent \in Apps
        /\ a \in ToSet(AppOf[AppOf[a].parent].subs)
        /\ AppOf[a].group => /\ ~AppOf[AppOf[a].parent].group
                             /\ ~AppOf[a].fallthrough /\ AppOf[a].prefix = "Off"
    /\ \A a \in Apps : \A s \in ToSet(AppOf[a].subs) : AppOf[s].parent = a
    /\ \A T \in SUBSET Apps : T # {} => \E a \in T : AppOf[a].parent \notin T
    /\ \A a \in Apps : IsInjective(AppOf[a].opts) /\ IsInjective(AppOf[a].subs)
    /\ \A a, b \in Apps : ToSet(AppOf[a].opts) \cap ToSet(AppOf[b].opts) # {} => a = b
    /\ \A o \in Options : \E a \in Apps : o \in ToSet(AppOf[a].opts)
    /\ \A o \in Options : OptionOf[o].positional => OptionOf[o].min > 0

-----------------------------------------------------------------------------

Parent(a) == AppOf[a].parent
IsGroup(a) == AppOf[a].group
Subs(a) == ToSet(AppOf[a].subs)

\* The option groups that take part in the parse, as places in subcommands_.
Groups(a) ==
    { i \in DOMAIN AppOf[a].subs :
        IsGroup(AppOf[a].subs[i]) /\ ~AppOf[AppOf[a].subs[i]].disabled }

\* An App and its groups: where a look at one level of the tree goes.
Level(a) == {a} \cup { AppOf[a].subs[i] : i \in Groups(a) }

\* What _find_subcommand can find from a: its subcommands and its groups'.
Reach(a) ==
    { s \in Names : ~AppOf[s].disabled /\ Parent(s) \in Level(a) }

\* _get_fallthrough_parent: the first ancestor with a name, or the root.
FallthroughParent(a) ==
    IF Parent(a) # NoApp /\ IsGroup(Parent(a)) THEN Parent(Parent(a)) ELSE Parent(a)

\* The Apps that are asked in turn while fallthrough_ is set.
Chain[a \in Apps] ==
    IF AppOf[a].fallthrough /\ Parent(a) # NoApp
    THEN <<a>> \o Chain[FallthroughParent(a)]
    ELSE <<a>>

\* The Apps _valid_subcommand asks in turn.
SubcommandPath[a \in Apps] ==
    {a} \cup IF AppOf[a].subFallthrough /\ Parent(a) # NoApp
             THEN SubcommandPath[Parent(a)] ELSE {}

\* What App::clear and App::increment_parsed go through.
Subtree[a \in Apps] == {a} \cup UNION { Subtree[s] : s \in ToSet(AppOf[a].subs) }
Counted[a \in Apps] ==
    {a} \cup UNION { Counted[s] : s \in {t \in ToSet(AppOf[a].subs) : IsGroup(t)} }

\* An App and those above it, without the root.
Lineage[a \in Apps] == IF a = Root THEN {} ELSE {a} \cup Lineage[Parent(a)]

OptionsOf(S) == UNION { ToSet(AppOf[a].opts) : a \in S }

\* The App that owns an option.
Owner(o) == CHOOSE a \in Apps : o \in ToSet(AppOf[a].opts)
=============================================================================
