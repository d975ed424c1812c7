------------------------------ MODULE Registry ------------------------------
(***************************************************************************)
(* How a program builds its tree of Apps: the names it gives to Apps and   *)
(* Options, the lists that hold them, the pointers to the special flags    *)
(* and the needs and excludes links -- and every call that changes one of  *)
(* them, with what is left of the call when it throws.                     *)
(*                                                                         *)
(* Apps and Options are numbered in the order of their creation; App 1 is  *)
(* the root.  The whole registry is one record r, and an operation is an   *)
(* operator from a registry to the registry it leaves, since the calls of  *)
(* the library are built from one another.                                 *)
(***************************************************************************)
EXTENDS Names, FiniteSets

CONSTANTS
    MaxApps,        \* bound on the Apps ever created
    MaxOptions,     \* bound on the Options ever created
    MaxLinks,       \* bound on the links that exist at a time
    MaxChanges,     \* bound on the changes of settings
    AppNamesGiven,  \* the names the program gives to Apps, NoName for none
    AliasesGiven,   \* the aliases it gives them
    EnvironmentGiven, \* the environment variables it names for Options
    Declarations,   \* the option names the program declares
    Settings,       \* what the program sets an App to
    Calls           \* the families of calls the program makes

Apps == 1..MaxApps
Options == 1..MaxOptions
Nobody == 0         \* no App, no Option: a null pointer
Root == 1

Declaration(short, long, positional) ==
    [short |-> short, long |-> long, positional |-> positional,
     env |-> NoName, ignoreCase |-> FALSE, ignoreUnderscore |-> FALSE, configurable |-> TRUE]

ASSUME RegistryAssumption ==
    /\ MaxApps \in Nat \ {0}
    /\ MaxOptions \in Nat
    /\ MaxLinks \in Nat
    /\ MaxChanges \in Nat
    /\ AppNamesGiven \subseteq Names \cup {NoName}
    /\ AliasesGiven \subseteq Names
    /\ EnvironmentGiven \subseteq Names \cup {NoName}
    /\ Declarations \subseteq { o \in OptionNames :
            /\ ~o.ignoreCase /\ ~o.ignoreUnderscore /\ o.configurable /\ o.env = NoName
            /\ NonPositional(o) \/ o.positional # NoName }
    /\ Settings \subseteq [fallthrough : BOOLEAN, prefix : BOOLEAN,
                           optCase : BOOLEAN, optUnderscore : BOOLEAN]

VARIABLES
    reg,            \* the registry
    call            \* the last call and whether it threw

vars == <<reg, call>>

Startups == {"stable", "enabled", "disabled"}
Special == {"help", "helpAll", "config", "version"}

\* name_, aliases_ and flags of an App; optCase and optUnderscore belong to its
\* option_defaults_, and group tells that it is an Option_group.
AppType ==
    [name : Names \cup {NoName}, aliases : Seq(Names),
     ignoreCase : BOOLEAN, ignoreUnderscore : BOOLEAN, prefix : BOOLEAN,
     disabled : BOOLEAN, startup : Startups, fallthrough : BOOLEAN,
     optCase : BOOLEAN, optUnderscore : BOOLEAN, group : BOOLEAN]

NewApp ==
    [name |-> NoName, aliases |-> <<>>, ignoreCase |-> FALSE, ignoreUnderscore |-> FALSE,
     prefix |-> FALSE, disabled |-> FALSE, startup |-> "stable", fallthrough |-> FALSE,
     optCase |-> FALSE, optUnderscore |-> FALSE, group |-> FALSE]

NoOption == Declaration({}, {}, NoName)

\* home is the App whose options_ holds the Option and place its position
\* there, owner its parent_; parent and seat are the same for subcommands_.
\* switched remembers that some App was disabled once, and left the list that
\* an Option was removed from.
RegistryType ==
    [apps : Nat, options : Nat, changes : Nat, switched : BOOLEAN,
     app : [Apps -> AppType],
     parent : [Apps -> Apps \cup {Nobody}],
     seat : [Apps -> Nat],
     opt : [Options -> OptionNames],
     home : [Options -> Apps \cup {Nobody}],
     place : [Options -> Nat],
     owner : [Options -> Apps \cup {Nobody}],
     left : [Options -> Apps \cup {Nobody}],
     pointer : [Apps -> [Special -> Options \cup {Nobody}]],
     needs : SUBSET (Options \X Options),
     excludes : SUBSET (Options \X Options),
     appNeeds : SUBSET (Apps \X Apps),
     appExcludes : SUBSET (Apps \X Apps),
     appNeedsOption : SUBSET (Apps \X Options),
     appExcludesOption : SUBSET (Apps \X Options)]

Operations ==
    {"none", "app", "option", "link", "declare", "retire", "special", "tree", "move", "parse"}

TypeOK ==
    /\ reg \in RegistryType
    /\ call \in [op : Operations, thrown : BOOLEAN]

\* App name("") after set_help_flag(""): no Option yet.
Init ==
    /\ reg = [apps |-> 1, options |-> 0, changes |-> 0, switched |-> FALSE,
              app |-> [a \in Apps |-> NewApp],
              parent |-> [a \in Apps |-> Nobody],
              seat |-> [a \in Apps |-> 0],
              opt |-> [o \in Options |-> NoOption],
              home |-> [o \in Options |-> Nobody],
              place |-> [o \in Options |-> 0],
              owner |-> [o \in Options |-> Nobody],
              left |-> [o \in Options |-> Nobody],
              pointer |-> [a \in Apps |-> [s \in Special |-> Nobody]],
              needs |-> {}, excludes |-> {}, appNeeds |-> {}, appExcludes |-> {},
              appNeedsOption |-> {}, appExcludesOption |-> {}]
    /\ call = [op |-> "none", thrown |-> FALSE]

-----------------------------------------------------------------------------
(* The tree.                                                               *)

Lives(r, a) == a = Root \/ r.parent[a] # Nobody
Nameless(r, a) == r.app[a].name = NoName
OptionsOf(r, a) == {o \in Options : r.home[o] = a}
Subcommands(r, a) == {s \in Apps : r.parent[s] = a}

\* App::_get_fallthrough_parent and the top_level_parent of add_option: the
\* first App from a on, or above it, that has a name or no parent.
TopLevel(r, a) ==
    LET up[b \in Apps] ==
            IF Nameless(r, b) /\ r.parent[b] # Nobody THEN up[r.parent[b]] ELSE b
    IN  up[a]
FallthroughParent(r, a) == TopLevel(r, r.parent[a])

\* The enabled Apps that share a level with a: itself, and what it holds if
\* it is an option group.
Level(r, a) ==
    LET level[b \in Apps] ==
            {b} \cup IF Nameless(r, b)
                     THEN UNION {level[s] : s \in {t \in Subcommands(r, b) : ~r.app[t].disabled}}
                     ELSE {}
    IN  level[a]

\* App::_compare_subcommand_names finds a name of x that base cannot take.
\* Every pair of one App at the level of x and one at the level of another
\* subcommand of base is compared; the calls it makes of itself reach them all.
Taken(r, x, base) ==
    /\ ~r.app[x].disabled
    /\ \E y \in Subcommands(r, base) \ {x} :
        /\ ~r.app[y].disabled
        /\ \E u \in Level(r, x), v \in Level(r, y) :
            u # v /\ Collide(r.app[u], r.app[v])

\* What App::get_option_no_throw finds for the query: the first of its own
\* options, or else of its option groups, or else of the parent it falls
\* through to.
First(S, rank) == CHOOSE x \in S : \A y \in S : rank[x] <= rank[y]

Find(r, a, q) ==
    LET own(b) == {o \in OptionsOf(r, b) : CheckName(r.opt[o], q)}
        groups(b) == {s \in Subcommands(r, b) : Nameless(r, s)}
        down[b \in Apps] ==
            LET found == {s \in groups(b) : down[s] # Nobody}
            IN  IF own(b) # {} THEN First(own(b), r.place)
                ELSE IF found # {} THEN down[First(found, r.seat)] ELSE Nobody
        up[b \in Apps] ==
            IF down[b] # Nobody THEN down[b]
            ELSE IF r.app[b].fallthrough /\ r.parent[b] # Nobody /\ ~Nameless(r, b)
            THEN up[FallthroughParent(r, b)] ELSE Nobody
    IN  up[a]

-----------------------------------------------------------------------------
(* Calls that name an App.                                                 *)

Returns(r) == [reg |-> r, thrown |-> FALSE, made |-> Nobody]
Makes(r, o) == [reg |-> r, thrown |-> FALSE, made |-> o]
Throws(r) == [reg |-> r, thrown |-> TRUE, made |-> Nobody]

\* A call on App a has set something; if base cannot take the names of a now,
\* it puts back what it has set, and throws.
Compared(set, restored, a, base) ==
    IF base # Nobody /\ Taken(set, a, base) THEN Throws(restored) ELSE Returns(set)

LevelOf(r, a) == IF r.parent[a] = Nobody THEN Nobody ELSE FallthroughParent(r, a)

\* App::name.
SetName(r, a, n) ==
    LET set == [r EXCEPT !.app[a].name = n]
    IN  Compared(set, [set EXCEPT !.app[a].name = r.app[a].name], a, LevelOf(r, a))

\* App::alias: pushed back, and popped again.
AddAlias(r, a, n) ==
    LET set == [r EXCEPT !.app[a].aliases = Append(@, n)]
    IN  Compared(set, [set EXCEPT !.app[a].aliases = Front(@)], a, LevelOf(r, a))

\* App::ignore_case and ignore_underscore: an App without a parent is compared
\* with its own subcommands.
OwnLevel(r, a) == IF r.parent[a] = Nobody THEN a ELSE FallthroughParent(r, a)

IgnoreCase(r, a, value) ==
    LET set(v) == [r EXCEPT !.app[a].ignoreCase = v]
    IN  IF value /\ ~r.app[a].ignoreCase
        THEN Compared(set(TRUE), set(FALSE), a, OwnLevel(r, a)) ELSE Returns(set(value))

IgnoreUnderscore(r, a, value) ==
    LET set(v) == [r EXCEPT !.app[a].ignoreUnderscore = v]
    IN  IF value /\ ~r.app[a].ignoreUnderscore
        THEN Compared(set(TRUE), set(FALSE), a, OwnLevel(r, a)) ELSE Returns(set(value))

\* App::disabled.
Disabled(r, a, value) ==
    Returns([r EXCEPT !.app[a].disabled = value, !.switched = @ \/ value])

\* App::disabled_by_default and enabled_by_default.
ByDefault(r, a, mode, value) ==
    Returns([r EXCEPT !.app[a].startup =
                IF value THEN mode ELSE IF @ = mode THEN "stable" ELSE @])

\* TriggerOn and TriggerOff leave the App to be switched so; the callback
\* they install calls App::disabled.
Trigger(r, a, on) ==
    LET mode  == IF on THEN "disabled" ELSE "enabled"
        other == IF on THEN "enabled" ELSE "disabled"
    IN  ByDefault(ByDefault(r, a, other, FALSE).reg, a, mode, TRUE)

\* App::_configure, at the start of every parse: the default startup modes.
Configured(r) ==
    LET off(a) == IF r.app[a].startup = "stable" THEN r.app[a].disabled
                  ELSE r.app[a].startup = "disabled"
    IN  [r EXCEPT
            !.app = [a \in Apps |->
                IF ~Lives(r, a) THEN r.app[a]
                ELSE [r.app[a] EXCEPT !.disabled = off(a),
                                      !.fallthrough = @ /\ (a = Root \/ ~Nameless(r, a))]],
            !.switched = @ \/ \E a \in Apps : Lives(r, a) /\ off(a)]

-----------------------------------------------------------------------------
(* Calls that add, name, move and remove an Option.                        *)

Listed(r, a, o) == r.home[o] = a

\* Option::ignore_case and ignore_underscore compare with the options of the
\* App that created the Option, wherever it was moved since: set first, and
\* reset when a name of another one matches.
ComparedOption(set, restored, o) ==
    IF \E p \in OptionsOf(set, set.owner[o]) \ {o} : Matches(set.opt[p], set.opt[o])
    THEN Throws(restored) ELSE Returns(set)

\* Mutated form: what was set stays when the call throws.
OptionIgnoreCaseFirst(r, o, value) ==
    LET set(v) == [r EXCEPT !.opt[o].ignoreCase = v]
    IN  IF value /\ ~r.opt[o].ignoreCase THEN ComparedOption(set(TRUE), set(TRUE), o)
        ELSE Returns(set(value))

OptionIgnoreCase(r, o, value) ==
    LET set(v) == [r EXCEPT !.opt[o].ignoreCase = v]
    IN  IF value /\ ~r.opt[o].ignoreCase THEN ComparedOption(set(TRUE), set(FALSE), o)
        ELSE Returns(set(value))

OptionIgnoreUnderscore(r, o, value) ==
    LET set(v) == [r EXCEPT !.opt[o].ignoreUnderscore = v]
    IN  IF value /\ ~r.opt[o].ignoreUnderscore THEN ComparedOption(set(TRUE), set(FALSE), o)
        ELSE Returns(set(value))

\* The tests of App::add_option that look beyond the list itself: a name that
\* a configuration file could not tell from another one.
Ambiguous(r, a, names) ==
    LET top == TopLevel(r, a)
        configurable(q) ==
            LET o == Find(r, top, q) IN o # Nobody /\ r.opt[o].configurable
        positional(n) ==
            LET o == Find(r, top, <<"bare", n>>) IN o # Nobody /\ ~NonPositional(r.opt[o])
        dashed(n) == IF n \in OneLetter THEN <<"short", n>> ELSE <<"long", n>>
    IN  IF ~NonPositional(names)
        THEN configurable(dashed(names.positional)) \/ positional(names.positional)
        ELSE /\ top # a
             /\ \/ \E n \in names.long :
                    \/ configurable(<<"bare", n>>) \/ configurable(<<"long", n>>)
                    \/ n \in OneLetter /\ configurable(<<"short", n>>)
                \/ \E n \in names.short, dash \in {"bare", "short", "long"} :
                    configurable(<<dash, n>>)

\* The position at the end of the list of a, and the positions in a list S
\* once x is erased from it.
LastPlace(r, a) == Cardinality(OptionsOf(r, a)) + 1

Erased(position, S, x) ==
    [y \in DOMAIN position |->
        IF y = x THEN 0
        ELSE IF y \in S /\ position[y] > position[x] THEN position[y] - 1
        ELSE position[y]]

\* What a call goes on with, if the call it makes first has not thrown.
ThenUnderscore(cased, o, value) ==
    IF cased.thrown THEN cased ELSE OptionIgnoreUnderscore(cased.reg, o, value)
ThenMakes(both, o) == IF both.thrown THEN both ELSE Makes(both.reg, o)

\* App::add_option.  The defaults of the App are applied to the Option when it
\* is in the list already, and may throw there.
AddOption(r, a, names) ==
    LET o     == r.options + 1
        added == [r EXCEPT !.options = o, !.opt[o] = names,
                           !.home[o] = a, !.owner[o] = a, !.place[o] = LastPlace(r, a)]
    IN  IF \E p \in OptionsOf(r, a) : Matches(r.opt[p], names) THEN Throws(r)
        ELSE IF Ambiguous(r, a, names) THEN Throws(r)
        ELSE ThenMakes(ThenUnderscore(OptionIgnoreCase(added, o, r.app[a].optCase),
                                      o, r.app[a].optUnderscore), o)

\* Mutated form: other options may still exclude the one removed.
RemoveOptionNeeds(r, a, o) ==
    Returns([r EXCEPT !.needs = { l \in @ : l[1] # o /\ l[2] # o },
                      !.home[o] = IF @ = a THEN Nobody ELSE @,
                      !.left[o] = IF r.home[o] = a THEN a ELSE @])

\* App::remove_option: the links of the other options in the list, the
\* pointers of this App (but not version_ptr_) and the Option itself.
RemoveOption(r, a, o) ==
    LET gone(links) == { l \in links :
            \/ r.home[o] = a /\ l[1] = o
            \/ r.home[l[1]] = a /\ l[2] = o }
    IN  Returns([r EXCEPT
            !.needs = @ \ gone(@),
            !.excludes = @ \ gone(@),
            !.pointer[a] = [s \in Special |->
                IF s # "version" /\ @[s] = o THEN Nobody ELSE @[s]],
            !.home[o] = IF @ = a THEN Nobody ELSE @,
            !.place = IF r.home[o] = a THEN Erased(@, OptionsOf(r, a), o) ELSE @,
            !.left[o] = IF r.home[o] = a THEN a ELSE @])

ThenNoPositional(new, a, names) ==
    IF ~new.thrown /\ names.positional # NoName
    THEN Throws(RemoveOption(new.reg, a, new.made).reg) ELSE new

\* App::_add_flag_internal: a flag with a positional name is taken out again.
AddFlag(r, a, names) == ThenNoPositional(AddOption(r, a, names), a, names)

\* App::set_help_flag, set_help_all_flag, set_version_flag and set_config: the
\* former option is removed before the new one is tried.
WithoutSpecial(r, a, s) ==
    LET former == r.pointer[a][s]
    IN  IF former = Nobody THEN r
        ELSE [RemoveOption(r, a, former).reg EXCEPT !.pointer[a][s] = Nobody]

ThenFlag(new, a, s, names) == IF s = "config" THEN new ELSE ThenNoPositional(new, a, names)
ThenPointed(new, a, s) ==
    IF new.thrown THEN new
    ELSE Returns([new.reg EXCEPT !.pointer[a][s] = new.made,
                                 !.opt[new.made].configurable = FALSE])
SetSpecial(r, a, s, names) ==
    LET without == WithoutSpecial(r, a, s)
    IN  IF names = NoOption THEN Returns(without)
        ELSE ThenPointed(ThenFlag(AddOption(without, a, names), a, s, names), a, s)

\* Mutated form: a help flag may be moved.
MoveAnyOption(r, o, g) ==
    IF \/ r.home[o] # r.parent[g]
       \/ \E p \in OptionsOf(r, g) : Matches(r.opt[p], r.opt[o])
    THEN Throws(r)
    ELSE Returns([r EXCEPT !.home[o] = g,
                           !.place = [Erased(@, OptionsOf(r, r.parent[g]), o)
                                        EXCEPT ![o] = LastPlace(r, g)]])

\* App::_move_option, for Option_group::add_option: only the list of the group
\* is searched, and the Option keeps its parent_.
MoveOption(r, o, g) ==
    IF \/ r.home[o] # r.parent[g]
       \/ o \in {r.pointer[r.parent[g]][s] : s \in Special \ {"version"}}
       \/ \E p \in OptionsOf(r, g) : Matches(r.opt[p], r.opt[o])
    THEN Throws(r)
    ELSE Returns([r EXCEPT !.home[o] = g,
                           !.place = [Erased(@, OptionsOf(r, r.parent[g]), o)
                                        EXCEPT ![o] = LastPlace(r, g)]])

\* get_name(false, true): a positional name only where there is no other.
AllNames(o) ==
    Declaration(o.short, o.long, IF NonPositional(o) THEN NoName ELSE o.positional)

\* retire_option: the Option, if it is in the list of a, is replaced by one of
\* the same names.
RetireOption(r, a, o) ==
    AddOption(RemoveOption(r, a, o).reg, a, AllNames(r.opt[o]))

-----------------------------------------------------------------------------
(* Calls that add, move and remove an App.                                 *)

\* Mutated form: the position counted from the end.
LastSeatBefore(r, a) == Cardinality(Subcommands(r, a)) - 1

LastSeat(r, a) == Cardinality(Subcommands(r, a)) + 1

\* The settings that an App has from its parent.
Inheriting(app, parent) ==
    [app EXCEPT !.ignoreCase = parent.ignoreCase, !.ignoreUnderscore = parent.ignoreUnderscore,
                !.fallthrough = parent.fallthrough, !.prefix = parent.prefix,
                !.optCase = parent.optCase, !.optUnderscore = parent.optUnderscore]

ThenRepeat(new, r, a, p, s) ==
    IF new.thrown THEN new
    ELSE SetSpecial(new.reg, a, s, IF r.pointer[p][s] = Nobody THEN NoOption
                                   ELSE AllNames(r.opt[r.pointer[p][s]]))
ThenInherit(new, r, a, p) ==
    IF new.thrown THEN Throws(r)
    ELSE Returns([new.reg EXCEPT !.app[a] = Inheriting(@, r.app[p])])

\* The constructor of a subcommand: the help flags of the parent are repeated
\* before its settings are inherited.
Constructed(r, p, n) ==
    LET a     == r.apps + 1
        blank == [r EXCEPT !.apps = a, !.parent[a] = p, !.seat[a] = LastSeat(r, p),
                           !.app[a] = [NewApp EXCEPT !.name = n]]
    IN  ThenInherit(ThenRepeat(ThenRepeat(Returns(blank), r, a, p, "help"), r, a, p, "helpAll"), r, a, p)

\* Mutated form: the level of a group is not that of its parent.
AttachedHere(lost, new, a, p) ==
    IF Taken([new EXCEPT !.parent[a] = Nobody], a, p) THEN Throws(lost) ELSE Returns(new)

\* App::add_subcommand(App_p): a has come to p in new, and is lost if it may
\* not stay.  Its names are compared before it is in the list.
Attached(lost, new, a, p) ==
    LET base == IF Nameless(new, p) /\ new.parent[p] # Nobody
                THEN FallthroughParent(new, p) ELSE p
    IN  IF Taken([new EXCEPT !.parent[a] = Nobody], a, base) THEN Throws(lost)
        ELSE Returns(new)

ThenAttached(r, new, a, p) == IF new.thrown THEN new ELSE Attached(r, new.reg, a, p)
AddSubcommand(r, p, n) == ThenAttached(r, Constructed(r, p, n), r.apps + 1, p)

ThenGroup(new, a) ==
    IF new.thrown THEN new
    ELSE SetSpecial([new.reg EXCEPT !.app[a].fallthrough = FALSE, !.app[a].group = TRUE],
                    a, "help", NoOption)

\* App::add_option_group: no name, no help flag, no fallthrough.
AddOptionGroup(r, p) ==
    LET a == r.apps + 1
    IN  ThenAttached(r, ThenGroup(Constructed(r, p, NoName), a), a, p)

\* A subcommand taken out of the list of its parent: its siblings and itself
\* forget their links.
TakenOut(r, a) ==
    LET p == r.parent[a]
        forgotten(links) == { l \in links :
            \/ l[2] = a /\ r.parent[l[1]] = p
            \/ l[1] = a /\ r.parent[l[2]] = p }
    IN  [r EXCEPT !.appExcludes = @ \ forgotten(@),
                  !.appNeeds = { l \in @ : ~(l[2] = a /\ r.parent[l[1]] = p) },
                  !.parent[a] = Nobody, !.seat = Erased(@, Subcommands(r, p), a)]

\* Everything in the App is destroyed with it.
Under(r, a) ==
    LET under[b \in Apps] == {b} \cup UNION {under[s] : s \in Subcommands(r, b)}
    IN  under[a]

Destroyed(r, S) ==
    LET lost == {o \in Options : r.home[o] \in S}
    IN  [r EXCEPT !.parent = [a \in Apps |-> IF a \in S THEN Nobody ELSE @[a]],
                  !.home = [o \in Options |-> IF o \in lost THEN Nobody ELSE @[o]],
                  !.seat = [a \in Apps |-> IF a \in S THEN 0 ELSE @[a]],
                  !.place = [o \in Options |-> IF o \in lost THEN 0 ELSE @[o]],
                  !.pointer = [a \in Apps |->
                                  IF a \in S THEN [s \in Special |-> Nobody] ELSE @[a]],
                  !.needs = {l \in @ : l[1] \notin lost},
                  !.excludes = {l \in @ : l[1] \notin lost},
                  !.appNeeds = {l \in @ : l[1] \notin S},
                  !.appExcludes = {l \in @ : l[1] \notin S},
                  !.appNeedsOption = {l \in @ : l[1] \notin S},
                  !.appExcludesOption = {l \in @ : l[1] \notin S}]

\* App::remove_subcommand; nobody else holds the App.
RemoveSubcommand(r, a) == Returns(Destroyed(TakenOut(r, a), Under(r, a)))

\* Option_group::add_subcommand: taken out first, and lost if it is refused.
MoveSubcommand(r, a, g) ==
    LET out   == TakenOut(r, a)
        moved == [out EXCEPT !.parent[a] = g, !.seat[a] = LastSeat(out, g)]
    IN  Attached(Destroyed(out, Under(r, a)), moved, a, g)

-----------------------------------------------------------------------------
(* Links.                                                                  *)

\* Option::needs, excludes, remove_needs and remove_excludes.
Needs(r, o, p) == Returns(IF o = p THEN r ELSE [r EXCEPT !.needs = @ \cup {<<o, p>>}])
Excludes(r, o, p) ==
    IF o = p THEN Throws(r) ELSE Returns([r EXCEPT !.excludes = @ \cup {<<o, p>>, <<p, o>>}])
RemoveNeeds(r, o, p) == Returns([r EXCEPT !.needs = @ \ {<<o, p>>}])
RemoveExcludes(r, o, p) == Returns([r EXCEPT !.excludes = @ \ {<<o, p>>}])

\* App::needs, excludes, remove_needs and remove_excludes, for an App.
AppNeeds(r, a, b) ==
    IF a = b THEN Throws(r) ELSE Returns([r EXCEPT !.appNeeds = @ \cup {<<a, b>>}])
\* Mutated form: the second App is not told.
AppExcludesOneWay(r, a, b) ==
    IF a = b THEN Throws(r) ELSE Returns([r EXCEPT !.appExcludes = @ \cup {<<a, b>>}])
AppExcludes(r, a, b) ==
    IF a = b THEN Throws(r)
    ELSE Returns([r EXCEPT !.appExcludes =
                    IF <<a, b>> \in @ THEN @ ELSE @ \cup {<<a, b>>, <<b, a>>}])
AppRemoveNeeds(r, a, b) == Returns([r EXCEPT !.appNeeds = @ \ {<<a, b>>}])
AppRemoveExcludes(r, a, b) ==
    Returns([r EXCEPT !.appExcludes =
                IF <<a, b>> \in @ THEN @ \ {<<a, b>>, <<b, a>>} ELSE @])

\* The same for an Option.
AppNeedsOption(r, a, o) == Returns([r EXCEPT !.appNeedsOption = @ \cup {<<a, o>>}])
AppExcludesOption(r, a, o) == Returns([r EXCEPT !.appExcludesOption = @ \cup {<<a, o>>}])
AppRemoveOptionLinks(r, a, o) ==
    Returns([r EXCEPT !.appNeedsOption = @ \ {<<a, o>>}, !.appExcludesOption = @ \ {<<a, o>>}])

-----------------------------------------------------------------------------
(* The program's calls, on Apps and Options that exist.                    *)

Existing == {a \in 1..reg.apps : Lives(reg, a)}
Declared == {o \in 1..reg.options : reg.home[o] # Nobody}

Calling(op, family, result) ==
    /\ family \in Calls
    /\ reg' = result.reg
    /\ call' = [op |-> op, thrown |-> result.thrown]

\* A call counted against the bound.
Setting(op, family, result) ==
    /\ reg.changes < MaxChanges
    /\ Calling(op, family, IF result.thrown THEN result
                          ELSE [result EXCEPT !.reg.changes = @ + 1])

NameApp == \E a \in Existing, n \in AppNamesGiven :
    Calling("app", "names", SetName(reg, a, n))

AliasApp == \E a \in Existing :
    \/ \E n \in AliasesGiven : Setting("app", "aliases", AddAlias(reg, a, n))
    \/ Setting("app", "aliases", Returns([reg EXCEPT !.app[a].aliases = <<>>]))

FoldApp == \E a \in Existing, v \in BOOLEAN :
    \/ Setting("app", "folding", IgnoreCase(reg, a, v))
    \/ Setting("app", "folding", IgnoreUnderscore(reg, a, v))

SwitchApp == \E a \in Existing, v \in BOOLEAN :
    \/ Setting("app", "startup", Disabled(reg, a, v))
    \/ \E mode \in {"enabled", "disabled"} :
        Setting("app", "startup", ByDefault(reg, a, mode, v))
    \/ Setting("app", "startup", Trigger(reg, a, v))

\* App::fallthrough, allow_subcommand_prefix_matching and option_defaults.
SetApp == \E a \in Existing, new \in Settings :
    Setting("app", "settings",
        Returns([reg EXCEPT !.app[a] =
            [@ EXCEPT !.fallthrough = new.fallthrough, !.prefix = new.prefix,
                      !.optCase = new.optCase, !.optUnderscore = new.optUnderscore]]))

DeclareOption == \E a \in Existing, names \in Declarations :
    /\ reg.options < MaxOptions
    /\ \/ Calling("declare", "options", AddOption(reg, a, names))
       \/ Calling("declare", "options", AddFlag(reg, a, names))

NameOption == \E o \in Declared, v \in BOOLEAN :
    \/ /\ Lives(reg, reg.owner[o])
       /\ \/ Calling("option", "renaming", OptionIgnoreCase(reg, o, v))
          \/ Setting("option", "folding", OptionIgnoreUnderscore(reg, o, v))
    \/ Setting("option", "folding", Returns([reg EXCEPT !.opt[o].configurable = v]))
    \/ \E n \in EnvironmentGiven :
        Setting("option", "folding", Returns([reg EXCEPT !.opt[o].env = n]))

DropOption == \E o \in Declared, a \in Existing :
    Calling("option", "removal", RemoveOption(reg, a, o))

PlaceOption == \E o \in Declared, g \in Existing \ {Root} :
    /\ reg.app[g].group
    /\ Calling("option", "groups", MoveOption(reg, o, g))

ReplaceOption == \E o \in Declared, a \in Existing :
    /\ reg.options < MaxOptions
    /\ Calling("retire", "removal", RetireOption(reg, a, o))

SetFlag == \E a \in Existing, s \in Special, names \in Declarations \cup {NoOption} :
    /\ reg.options < MaxOptions
    /\ Calling("special", "special", SetSpecial(reg, a, s, names))

\* How many Options a new subcommand of p gets with its help flags.
Repeated(r, p, s) == IF r.pointer[p][s] = Nobody THEN 0 ELSE 1

GrowTree == \E p \in Existing :
    /\ reg.apps < MaxApps
    /\ reg.options + Repeated(reg, p, "help") + Repeated(reg, p, "helpAll") <= MaxOptions
    /\ \/ \E n \in AppNamesGiven : Calling("tree", "tree", AddSubcommand(reg, p, n))
       \/ Calling("tree", "groups", AddOptionGroup(reg, p))

PruneTree == \E a \in Existing \ {Root} : Calling("tree", "removal", RemoveSubcommand(reg, a))

PlaceSubcommand == \E a \in Existing \ {Root}, g \in Existing :
    /\ reg.app[g].group /\ g \notin Under(reg, a)
    /\ Calling("move", "groups", MoveSubcommand(reg, a, g))

FewLinks ==
    Cardinality(reg.needs) + Cardinality(reg.excludes) + Cardinality(reg.appNeeds)
        + Cardinality(reg.appExcludes) + Cardinality(reg.appNeedsOption)
        + Cardinality(reg.appExcludesOption) < MaxLinks

LinkOptions == \E o, p \in Declared :
    \/ FewLinks /\ Calling("link", "links", Needs(reg, o, p))
    \/ FewLinks /\ Calling("link", "links", Excludes(reg, o, p))
    \/ Calling("link", "links", RemoveNeeds(reg, o, p))
    \/ Calling("link", "links", RemoveExcludes(reg, o, p))

LinkApps == \E a, b \in Existing :
    \/ FewLinks /\ Calling("link", "links", AppNeeds(reg, a, b))
    \/ FewLinks /\ Calling("link", "links", AppExcludes(reg, a, b))
    \/ Calling("link", "links", AppRemoveNeeds(reg, a, b))
    \/ Calling("link", "links", AppRemoveExcludes(reg, a, b))

LinkAppToOption == \E a \in Existing, o \in Declared :
    \/ FewLinks /\ Calling("link", "links", AppNeedsOption(reg, a, o))
    \/ FewLinks /\ Calling("link", "links", AppExcludesOption(reg, a, o))
    \/ Calling("link", "links", AppRemoveOptionLinks(reg, a, o))

BeginParse == Calling("parse", "startup", Returns(Configured(reg)))

Next ==
    \/ NameApp \/ AliasApp \/ FoldApp \/ SwitchApp \/ SetApp
    \/ DeclareOption \/ NameOption \/ DropOption \/ PlaceOption \/ ReplaceOption \/ SetFlag
    \/ GrowTree \/ PruneTree \/ PlaceSubcommand
    \/ LinkOptions \/ LinkApps \/ LinkAppToOption
    \/ BeginParse

Spec == Init /\ [][Next]_vars

-----------------------------------------------------------------------------
(* Properties.                                                             *)

\* Among the options that add_option put into one list, no option answers to a
\* short or long name of another, whatever was renamed, removed, moved away,
\* retired or refused since (App::add_option, Option::ignore_case).  The name of
\* the environment variable, which check_name accepts as well, is not one of
\* those that the comparison keeps apart.
NoNameShadowed ==
    \A o, p \in Options :
        /\ o # p
        /\ reg.home[o] # Nobody /\ reg.home[p] = reg.home[o]
        /\ reg.owner[o] = reg.home[o] /\ reg.owner[p] = reg.home[o]
        => ~Shadows(reg.opt[o], reg.opt[p])

\* Two Apps at one level never share a whole name, however they were renamed,
\* aliased, grouped and moved, as long as no App was ever disabled (App::name,
\* alias, ignore_case, add_subcommand).  An alias of an option group is not
\* compared with what the group holds.
LevelNamesDistinct ==
    ~reg.switched =>
        \A a \in Existing :
            \A u, v \in UNION {Level(reg, s) : s \in Subcommands(reg, a)} :
                u \notin Level(reg, v) /\ v \notin Level(reg, u) => ~SameName(reg.app[u], reg.app[v])

\* The help, help-all and configuration pointers of an App lead to an option
\* in its own list, however options were replaced, retired, moved or removed
\* (App::remove_option, App::_move_option, App::set_help_flag).
PointersLive ==
    \A a \in Existing, s \in Special \ {"version"} :
        reg.pointer[a][s] # Nobody => reg.home[reg.pointer[a][s]] = a

\* While two Apps exist, exclusion between them is mutual (App::excludes,
\* App::remove_excludes, App::remove_subcommand).
AppExclusionMutual ==
    \A a, b \in Existing : <<a, b>> \in reg.appExcludes => <<b, a>> \in reg.appExcludes

\* An option in the list that it was declared in has no link to an option that
\* was removed from that list, wherever the other one came from
\* (App::remove_option).  With four Apps an option may come back to that list,
\* when a group is moved into its own former subgroup, and bring such a link.
NoLinkToRemoved ==
    \A l \in reg.needs \cup reg.excludes :
        reg.home[l[1]] # Nobody /\ reg.home[l[1]] = reg.owner[l[1]]
        => reg.left[l[2]] # reg.home[l[1]]

\* Whatever of r is neither one of these Apps nor one of these Options is the
\* same in s: its names and settings, the list that it is in, its pointers, and
\* the links between them.
Spared(r, s, lostApps, lostOptions) ==
    LET apps    == {a \in Apps : Lives(r, a)} \ lostApps
        options == {o \in Options : r.home[o] # Nobody} \ lostOptions
    IN  /\ \A a \in apps :
            /\ s.app[a] = r.app[a] /\ s.parent[a] = r.parent[a]
            /\ \A x \in Special \ {"version"} :
                r.pointer[a][x] \in options \cup {Nobody} => s.pointer[a][x] = r.pointer[a][x]
        /\ \A o \in options : s.opt[o] = r.opt[o] /\ s.home[o] = r.home[o]
        /\ \A o, p \in options :
            /\ <<o, p>> \in r.needs <=> <<o, p>> \in s.needs
            /\ <<o, p>> \in r.excludes <=> <<o, p>> \in s.excludes
        /\ \A a, b \in apps :
            /\ <<a, b>> \in r.appNeeds <=> <<a, b>> \in s.appNeeds
            /\ <<a, b>> \in r.appExcludes <=> <<a, b>> \in s.appExcludes
        /\ \A a \in apps, o \in options :
            /\ <<a, o>> \in r.appNeedsOption <=> <<a, o>> \in s.appNeedsOption
            /\ <<a, o>> \in r.appExcludesOption <=> <<a, o>> \in s.appExcludesOption

\* A call that throws leaves the rest of the registry alone: what it has set is
\* put back, and no other App or Option changes its names or its list, or
\* loses a pointer or a link, whatever parts of the call were done before it
\* threw.  What it may cost is what it was about: the option that was to be
\* retired, or was the former flag; the App that was to be moved, with all that
\* is in it.  And it may leave one option more, which add_option has listed
\* before the defaults of the App made it throw (App::name, alias, ignore_case,
\* Option::ignore_case, App::add_option, add_subcommand, retire_option,
\* set_help_flag, Option_group::add_subcommand).
FailedCallsSpareTheRest ==
    [][call'.thrown =>
        /\ \/ call'.op \in {"app", "option", "link", "tree"} /\ reg' = reg
           \/ call'.op = "declare" /\ Spared(reg, reg', {}, {})
           \/ /\ call'.op \in {"retire", "special"}
              /\ \E o \in Options : Spared(reg, reg', {}, {o})
           \/ /\ call'.op = "move"
              /\ \E a \in Existing \ {Root} :
                    LET lost == Under(reg, a)
                    IN  Spared(reg, reg', lost, {o \in Options : reg.home[o] \in lost})
        /\ Existing' \subseteq Existing
        /\ Cardinality(Declared' \ Declared) <= 1]_vars
=============================================================================
