---------------------------- MODULE MCProcessing -----------------------------
(* A tree of Apps and configuration files for TLC.                         *)
EXTENDS Processing

Plain(parent, subs, opts) ==
    [parent |-> parent, subs |-> subs, opts |-> opts, group |-> FALSE, disabled |-> FALSE,
     silent |-> FALSE, completes |-> FALSE, immediate |-> FALSE, fallthrough |-> FALSE,
     subFallthrough |-> TRUE, posAtEnd |-> FALSE, validates |-> FALSE,
     validatesOptional |-> FALSE, max |-> 0, extras |-> "Error", prefix |-> "Off"]
Free ==
    [final |-> TRUE, configurable |-> FALSE, required |-> FALSE, help |-> NoOption,
     needs |-> {}, excludes |-> {}, minSubs |-> 0, minOpts |-> 0, maxOpts |-> 0]
Ordinary ==
    [priority |-> "Normal", required |-> FALSE, env |-> FALSE, needs |-> {}, excludes |-> {}]

\* root [--help] [--v needs w, environment] [--w], asks for a subcommand
\*   (early)  a group that completes: [--e]
\*   (late)   a group whose --l and subcommand extra are asked for when it is
\*            used
\*   run      completes and starts anew each time: [--help, environment], --r
\*            required, from the environment, priority Last
\*   add      may be a section of a file: [--help], [--a excludes w], one of them
TheApps == {"root", "early", "late", "extra", "run", "add"}
TheOptions == {"help", "v", "w", "e", "l", "r", "run-help", "add-help", "a"}
TheAppOf ==
    [a \in TheApps |->
        CASE a = "root"  -> Plain(NoApp, <<"early", "late", "run", "add">>, <<"help", "v", "w">>)
          [] a = "early" -> [Plain("root", <<>>, <<"e">>) EXCEPT !.group = TRUE, !.completes = TRUE]
          [] a = "late"  -> [Plain("root", <<"extra">>, <<"l">>) EXCEPT !.group = TRUE]
          [] a = "extra" -> Plain("late", <<>>, <<>>)
          [] a = "run"   -> [Plain("root", <<>>, <<"run-help", "r">>)
                                EXCEPT !.completes = TRUE, !.immediate = TRUE, !.fallthrough = TRUE]
          [] a = "add"   -> Plain("root", <<>>, <<"add-help", "a">>)]
TheRulesOf ==
    [a \in TheApps |->
        CASE a = "root"  -> [Free EXCEPT !.help = "help", !.minSubs = 1, !.maxOpts = 3]
          [] a = "early" -> [Free EXCEPT !.final = FALSE]
          [] a = "run"   -> [Free EXCEPT !.excludes = {"extra"}, !.help = "run-help"]
          [] a = "extra" -> [Free EXCEPT !.excludes = {"run"}, !.required = TRUE]
          [] a = "add"   -> [Free EXCEPT !.configurable = TRUE, !.help = "add-help",
                                         !.minOpts = 1, !.needs = {"early"}]
          [] OTHER       -> Free]
Flags == {"help", "run-help", "add-help", "e"}
TheOptionOf ==
    [o \in TheOptions |->
        [positional |-> FALSE, required |-> FALSE, extra |-> FALSE, trigger |-> FALSE, accepts |-> {},
         min |-> IF o \in Flags THEN 0 ELSE 1,
         max |-> IF o \in Flags THEN 0 ELSE 1]]
TheOptionRules ==
    [o \in TheOptions |->
        CASE o = "help" -> [Ordinary EXCEPT !.priority = "First"]
          [] o = "run-help" -> [Ordinary EXCEPT !.env = TRUE]
          [] o = "v" -> [Ordinary EXCEPT !.env = TRUE, !.needs = {"w"}]
          [] o = "l" -> [Ordinary EXCEPT !.required = TRUE]
          [] o = "r" -> [Ordinary EXCEPT !.priority = "Last", !.required = TRUE, !.env = TRUE]
          [] o = "a" -> [Ordinary EXCEPT !.excludes = {"w"}]
          [] o = "w" -> [Ordinary EXCEPT !.excludes = {"a"}]
          [] OTHER -> Ordinary]
\* The same, where the group that completes has a final callback, too.
EndingRulesOf == [TheRulesOf EXCEPT !["early"].final = TRUE]
Section(a, items) == <<[open |-> a]>> \o items \o <<[close |-> a]>>
TheFiles ==
    {<<>>, <<[set |-> "w"], [set |-> "e"]>>, Section("add", <<[set |-> "a"]>>),
     Section("run", <<[set |-> "r"]>>)}
NoFiles == {<<>>}
Nothing == <<>>
=============================================================================
