--------------------------- MODULE MCCommandLine ----------------------------
(* Trees of Apps and command lines for TLC.                                *)
EXTENDS CommandLine

CONSTANT MaxLength

\* An App, a group and an option with the library's default settings.
Plain(parent, subs, opts) ==
    [parent |-> parent, subs |-> subs, opts |-> opts, group |-> FALSE, disabled |-> FALSE,
     silent |-> FALSE, completes |-> FALSE, immediate |-> FALSE, fallthrough |-> FALSE,
     subFallthrough |-> TRUE, posAtEnd |-> FALSE, validates |-> FALSE,
     validatesOptional |-> FALSE, max |-> 0, extras |-> "Error", prefix |-> "Off"]

Group(parent, subs, opts) == [Plain(parent, subs, opts) EXCEPT !.group = TRUE]

Takes(min, max) ==
    [positional |-> FALSE, required |-> FALSE, min |-> min, max |-> max, extra |-> FALSE,
     trigger |-> FALSE, accepts |-> {}]
Positional_(min, max, required) ==
    [Takes(min, max) EXCEPT !.positional = TRUE, !.required = required]

TheseLines(T) == UNION { [1..n -> T] : n \in 0..MaxLength }
ShortLines == {<<>>} \cup { <<w>> : w \in Words }
NoPaths == <<>>
Named(opts) == [sub |-> NoApp, opts |-> opts, value |-> NoValue]
Dotted(sub, opts) == [sub |-> sub, opts |-> opts, value |-> NoValue]

\* root --v <1..2> [--gx] pos
\*   add [--v] items [to]  falls through
\*   run                  completes early; holds leaf
\*   (group) [--gx] and the subcommand extra
\*   sub --t <1..2> --u <1..> words  may lose again what it was given: --t and
\*                        words are triggers, and it starts anew when
\*                        repeated; holds inner --q
TypicalApps == {"root", "add", "run", "leaf", "group", "extra", "sub", "inner"}
TypicalOptions ==
    {"root-v", "root-pos", "add-v", "add-items", "add-to", "gx", "leaf-pos",
     "sub-t", "sub-u", "sub-words", "inner-q"}
TypicalAppOf ==
    [a \in TypicalApps |->
        CASE a = "root"  -> Plain(NoApp, <<"add", "run", "group", "sub">>, <<"root-v", "root-pos">>)
          [] a = "add"   -> [Plain("root", <<>>, <<"add-v", "add-items", "add-to">>) EXCEPT !.fallthrough = TRUE]
          [] a = "run"   -> [Plain("root", <<"leaf">>, <<>>)
                                EXCEPT !.completes = TRUE, !.fallthrough = TRUE]
          [] a = "leaf"  -> Plain("run", <<>>, <<"leaf-pos">>)
          [] a = "group" -> Group("root", <<"extra">>, <<"gx">>)
          [] a = "extra" -> Plain("group", <<>>, <<>>)
          [] a = "sub"   -> [Plain("root", <<"inner">>, <<"sub-t", "sub-u", "sub-words">>)
                                EXCEPT !.immediate = TRUE, !.fallthrough = TRUE]
          [] a = "inner" -> [Plain("sub", <<>>, <<"inner-q">>) EXCEPT !.fallthrough = TRUE]]
TypicalOptionOf ==
    [o \in TypicalOptions |->
        CASE o = "root-v"    -> Takes(1, 2)
          [] o = "root-pos"  -> Positional_(1, 1, TRUE)
          [] o = "add-v"     -> Takes(0, 0)
          [] o = "add-items" -> Positional_(1, 2, FALSE)
          [] o = "add-to"    -> Positional_(1, 1, FALSE)
          [] o = "gx"        -> Takes(0, 1)
          [] o = "leaf-pos"  -> Positional_(1, 1, TRUE)
          [] o = "sub-t"     -> [Takes(1, 2) EXCEPT !.trigger = TRUE]
          [] o = "sub-u"     -> Takes(1, Unlimited)
          [] o = "sub-words" -> [Positional_(1, 2, FALSE) EXCEPT !.trigger = TRUE]
          [] o = "inner-q"   -> Takes(1, 1)]
TypicalTokens ==
    ("--v" :> Named({"root-v", "add-v"})) @@ ("--gx" :> Named({"gx"}))
        @@ ("--t" :> Named({"sub-t"})) @@ ("--u" :> Named({"sub-u"}))
        @@ ("--sub.t" :> Dotted("sub", {"sub-t"})) @@ ("--inner.q" :> Dotted("inner", {"inner-q"}))
TypicalLines ==
    TheseLines({"w", "--v", "--gx", "add", "run", "leaf", "extra", "++"})
        \cup TheseLines({"w", "--t", "--u", "--sub.t", "--inner.q", "sub", "inner"})

\* A root that takes two subcommands at most and leaves what it does not know
\* to a group; subcommands that treat extras in the various ways.
\*   any    takes unknown options with their arguments, starts anew when repeated
\*   one    takes unknown options with one argument, is not listed
\*   strict accepts no extras at all
\*   pre    is a prefix command; takes --p [values], which must be good
\*   ends   has its positionals at the end, and validates them
SettingsApps == {"root", "misc", "any", "one", "strict", "pre", "ends", "off"}
SettingsOptions == {"pre-p", "ends-opt", "ends-req"}
SettingsAppOf ==
    [a \in SettingsApps |->
        CASE a = "root" -> [Plain(NoApp, <<"misc", "any", "one", "strict", "pre", "ends", "off">>, <<>>)
                                EXCEPT !.max = 2]
          [] a = "misc" -> [Group("root", <<>>, <<>>) EXCEPT !.extras = "Capture"]
          [] a = "any" -> [Plain("root", <<>>, <<>>)
                                EXCEPT !.extras = "AssumeMultipleArguments", !.immediate = TRUE]
          [] a = "one" -> [Plain("root", <<>>, <<>>)
                                EXCEPT !.extras = "AssumeSingleArgument", !.silent = TRUE]
          [] a = "strict" -> [Plain("root", <<>>, <<>>)
                                EXCEPT !.extras = "ErrorImmediately", !.subFallthrough = FALSE]
          [] a = "pre" -> [Plain("root", <<>>, <<"pre-p">>)
                                EXCEPT !.prefix = "On", !.validatesOptional = TRUE]
          [] a = "ends" -> [Plain("root", <<>>, <<"ends-opt", "ends-req">>)
                                EXCEPT !.posAtEnd = TRUE, !.validates = TRUE]
          [] OTHER -> [Plain("root", <<>>, <<>>) EXCEPT !.disabled = TRUE]]
SettingsOptionOf ==
    [o \in SettingsOptions |->
        CASE o = "pre-p" -> [Takes(0, 2) EXCEPT !.accepts = {"good"}]
          [] o = "ends-opt" -> [Positional_(1, 1, FALSE) EXCEPT !.accepts = {"good", "bad"}]
          [] o = "ends-req" -> [Positional_(1, 1, TRUE) EXCEPT !.accepts = {"good"}]]
SettingsTokens == ("--p" :> Named({"pre-p"})) @@ ("--u" :> Named({}))
SettingsLines ==
    TheseLines({"good", "bad", "--p", "--u", "--", "any", "one", "strict", "pre", "ends"})

\* Two subcommands at most below the root, one below first, any below third;
\* what first does not know falls through to the root.
LimitsApps == {"root", "first", "second", "third", "inner", "other"}
LimitsAppOf ==
    [a \in LimitsApps |->
        CASE a = "root" -> [Plain(NoApp, <<"first", "second", "third">>, <<>>) EXCEPT !.max = 2]
          [] a = "first" -> [Plain("root", <<"inner", "other">>, <<>>)
                                EXCEPT !.max = 1, !.fallthrough = TRUE]
          [] a = "other" -> [Plain("first", <<>>, <<"other-pos">>) EXCEPT !.fallthrough = TRUE]
          [] a = "third" -> [Plain("root", <<>>, <<"third-x">>)
                                EXCEPT !.completes = TRUE, !.fallthrough = TRUE]
          [] OTHER -> Plain(IF a = "inner" THEN "first" ELSE "root", <<>>, <<>>)]
LimitsOptionOf ==
    [o \in {"other-pos", "third-x"} |->
        IF o = "third-x" THEN Takes(1, 1) ELSE Positional_(1, 1, FALSE)]
LimitsTokens == "--third.xx" :> Dotted("third", {"third-x"})
LimitsWords == (LimitsApps \ {"root"}) \cup {"++", "--third.xx"}
LimitsLines ==
    TheseLines(LimitsWords \cup {"w", "--"}) \cup { <<"first">> \o line : line \in TheseLines(LimitsWords) }

\* Two subcommands, of which the first waits for a word it accepts.
WaitingApps == {"root", "first", "second"}
WaitingAppOf ==
    [a \in WaitingApps |->
        CASE a = "root" -> Plain(NoApp, <<"first", "second">>, <<>>)
          [] a = "first" -> [Plain("root", <<>>, <<"first-pos">>) EXCEPT !.validates = TRUE]
          [] a = "second" -> Plain("root", <<>>, <<>>)]
WaitingLines == TheseLines({"good", "first", "second"})
WaitingOptionOf == [o \in {"first-pos"} |-> [Positional_(1, 1, TRUE) EXCEPT !.accepts = {"good"}]]
=============================================================================
