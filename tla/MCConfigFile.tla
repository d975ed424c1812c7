---------------------------- MODULE MCConfigFile -----------------------------
(* A program with a group, two subcommands and below the first another and  *)
(* a group of a group, and the lines somebody may type for it.              *)
EXTENDS ConfigFile

TheApps == {"root", "group", "a", "outer", "inner", "b", "c"}
TheGroups == {"group", "outer", "inner"}
TheNames == [x \in TheApps |-> CASE x = "root" -> "app" [] x \in TheGroups -> "" [] OTHER -> x]
TheSubs ==
    [x \in TheApps |-> CASE x = "root" -> <<"group", "a", "c">>
                         [] x = "a" -> <<"outer", "b">>
                         [] x = "outer" -> <<"inner">>
                         [] OTHER -> <<>>]
TheOptions ==
    [x \in TheApps |-> CASE x = "root" -> <<"v">>
                         [] x = "group" -> <<"w">>
                         [] x = "a" -> <<"v", "locked">>
                         [] x \in {"b", "c"} -> <<"v">>
                         [] OTHER -> <<>>]
TheFlags == { <<"root", "v">>, <<"group", "w">>, <<"b", "v">>, <<"c", "v">> }
TheGatherers == { <<"root", "v">> }
TheFixed == { <<"group", "w">> }
TheMost == [o \in TheFlags |-> IF o = <<"b", "v">> THEN 2 ELSE 1]
TheLocked == { <<"a", "locked">> }

Entering(path, inputs) == Line("entry", path, inputs)
Heading(path) == Line("header", path, <<>>)
Typeable ==
    { Heading(p) : p \in {<<>>, <<"a">>, <<"a", "b">>, <<"a", "b", "x">>, <<"c", "b">>} }
    \cup { Entering(<<"v">>, <<"1">>), Entering(<<"v">>, <<"1", "2">>),
           Entering(<<"b", "v">>, <<"1">>) }
Oddities ==
    { Heading(<<"a">>), Heading(<<"c">>), Entering(<<"v">>, <<>>), Entering(<<"x">>, <<"1">>),
      Entering(<<"w">>, <<Invalid>>), Entering(<<"w">>, <<"1", "1">>), Entering(<<"w">>, <<"1", "2">>),
      Entering(<<"v">>, <<"1", "2", "1">>), Entering(<<"locked">>, <<"1">>), Line("short", <<>>, <<>>),
      [Line("array", <<"v">>, <<"1", "2">>) EXCEPT !.closed = FALSE],
      [Line("text", <<"v">>, <<"1">>) EXCEPT !.closed = FALSE],
      [Line("quotes", <<>>, <<>>) EXCEPT !.closed = FALSE, !.ends = "double"] }

\* A section that comes again, and entries that set nothing.
Repeats ==
    { Heading(<<>>), Heading(<<"a">>), Entering(<<"v">>, <<"1">>), Entering(<<"v">>, <<>>),
      Entering(<<"a", "v">>, <<"1">>) }

Plain == [section |-> "", index |-> -1, layers |-> 255, duplicates |-> FALSE]
Readers ==
    { Plain, [Plain EXCEPT !.duplicates = TRUE], [Plain EXCEPT !.section = "a", !.index = 1],
      [Plain EXCEPT !.section = "a", !.layers = 1] }

TheTypists ==
    [sections |-> [lines |-> Typeable, most |-> 5],
     anything |-> [lines |-> Typeable \cup Oddities, most |-> 3],
     more |-> [lines |-> Typeable \cup Oddities, most |-> 2],
     again |-> [lines |-> Repeats, most |-> 5]]
Typing(reader, typist) ==
    [configurable |-> {"a", "b", "c"}, completes |-> {"a", "c"}, immediate |-> {"c"},
     extras |-> "Ignore", reader |-> reader, given |-> {}, got |-> {}, mode |-> typist]
Sections == { Typing(r, "sections") : r \in Readers \ { [Plain EXCEPT !.section = "a", !.layers = 1] } }
Anything == { Typing(r, "anything") : r \in Readers }
\* A program whose command line has used the subcommand a.
Afterwards ==
    { [Typing(Plain, "more") EXCEPT
        !.configurable = {"a"}, !.immediate = {"a"}, !.extras = e,
        !.given = {<<"a", "v">>}, !.got = {"a"}] : e \in ExtrasModes }

Again == { [Typing(Plain, "again") EXCEPT !.immediate = i] : i \in {{}, {"a"}} }

\* Programs that write: sets of options and of subcommands used.
Writing ==
    { [configurable |-> conf, completes |-> {"a"}, immediate |-> {}, extras |-> "Error",
       reader |-> Plain, given |-> given, got |-> got, mode |-> m] :
        conf \in SUBSET {"a", "b", "c"},
        given \in SUBSET { <<"root", "v">>, <<"group", "w">>, <<"a", "v">>, <<"b", "v">>, <<"c", "v">> },
        got \in { g \in SUBSET {"a", "b", "c"} : "b" \in g => "a" \in g },
        m \in Modes }
AllPrograms == Sections \cup Anything \cup Afterwards \cup Again \cup Writing
=============================================================================
