# CLI11 in TLA+

CLI11 is a header-only C++ parser for command lines: a program builds a tree of
`App` objects (the program, its subcommands, its option groups), gives them
`Option` objects, and calls `parse`. Parsing consumes the tokens, reads a
configuration file and the environment, checks what was required, and calls the
program back in between. The library is single-threaded. What makes it hard is
that one parse is a long walk over shared mutable objects, re-entered through
callbacks, second uses of a subcommand, second parses and calls of the program,
and that any step may leave by an exception.

Paths below are relative to `include/CLI/` unless they start otherwise.

## Inventory

| Component | State it keeps | Operations | Where |
|---|---|---|---|
| Option: results | `results_`, `proc_results_` (a mutable cache), `current_option_state_`, policy, default | `add_result`, `run_callback`, `clear`, `as`, `results`, `reduced_results`, `default_val`, `multi_option_policy` | `Option.hpp`, `impl/Option_inl.hpp` |
| App: the command line | `parsed_`, `pre_parse_called_`, `parsed_subcommands_`, `missing_`, the arguments not used yet | `_parse`, `_parse_single`, `_recognize`, `_parse_arg`, `_parse_positional`, `_parse_subcommand`, `_trigger_pre_parse`, `clear` | `impl/App_inl.hpp` |
| App: processing | which callbacks have run, a pending file error | `_process`, `_process_callbacks`, `_process_help_flags`, `_process_requirements`, `_process_env`, `_process_config_file`, `_process_completion_callbacks`, `run_callback` | `impl/App_inl.hpp` |
| App: configuration items | counts and lists, through sections | `_parse_config`, `_parse_single_config`, `_add_flag_like_result` | `impl/App_inl.hpp` |
| App: construction | the lists of options and subcommands, their names, aliases and settings, the pointers to the help, version and configuration options | `add_option`, `add_flag`, `set_help_flag`, `remove_option`, `add_subcommand`, `add_option_group`, `remove_subcommand`, `name`, `alias`, `ignore_case`, `disabled_by_default`, `_move_option` | `App.hpp`, `impl/App_inl.hpp` |
| Links | `needs_`, `excludes_` of options and Apps | `needs`, `excludes`, `remove_needs`, `remove_excludes` | `impl/Option_inl.hpp`, `impl/App_inl.hpp` |
| Trigger helpers | `disabled_` and the startup mode of Apps | `TriggerOn`, `TriggerOff`, `deprecate_option`, `retire_option` | `impl/App_inl.hpp` |
| Configuration reader and writer | the open section, array, text or comment while it reads | `from_config`, `to_config` | `impl/Config_inl.hpp` |
| Strings | none | `split_up`, `remove_escaped_characters`, `process_quoted_string`, `convert_arg_for_ini` | `impl/StringTools_inl.hpp`, `impl/Config_inl.hpp` |
| Conversions | none | `integral_conversion`, `to_flag_value`, `lexical_conversion`, the type sizes, `checked_multiply` | `TypeTools.hpp`, `impl/TypeTools_inl.hpp` |
| Validators | what the functions have captured | `Range`, `Bound`, `IsMember`, `Transformer`, `AsNumberWithUnit`, `operator&`, `\|`, `!` | `Validators.hpp`, `ExtraValidators.hpp` |
| Help formatter, errors, encoding, timer | none that matters | | `impl/Formatter_inl.hpp`, `Error.hpp`, ... |

How they interact: an App owns its options and subcommands; parsing adds strings
to options and never looks at them, except through validators when positionals
are validated. Processing walks the same tree again in several rounds, and asks
options to reduce their strings and call back. The program's callbacks may call
into options at any moment. A configuration file is turned into items, and items
re-enter the tree through the same counts, lists and completion as tokens do.

The behaviours that are hard here:

* *Order.* Eight callback priorities, help, files, environment, requirements and
  final callbacks, with a part of the tree done early when a subcommand has a
  `parse_complete_callback`.
* *Stale state.* `_recognize` decides, `_parse_subcommand` decides again in
  another App; `proc_results_` is a cache that readers and the parser share;
  `parsed_` and `parsed_subcommands_` are kept by different functions.
* *Partial failure.* An exception leaves between two assignments, and the next
  parse, or the next read, starts from there.
* *Liveness.* `_parse` goes on as long as `_parse_single` returns true.
* *Limits.* `require_subcommand_max_` is compared at five places; numbers are converted
  with 64 bits and narrowed; type sizes and expected counts are multiplied.
* *Sequences of legal calls.* A tree is built by calls that compare names with what is
  there, move things into groups and remove them, and each may be refused half way.
* *Two ways.* What `to_config` writes, `from_config` must read as the same thing, through
  sections, quotes, separators and validators.

`PROJECT.json` lists each hazard at the line where it bites, with the properties
that would catch it.

What makes each component correct: the strings of an option are validated once,
reduced by the present policy, and delivered once; every token gets to exactly one
place and every parse ends; callbacks run once, in order, on a state that meets
the requirements; names stay unambiguous, pointers and links lead to what is there, and
a refused call costs nothing but what it was about; sections open and close in pairs and a written file
reads back; words arrive in the variable as the type means them, and nothing is stored
that a validator would refuse.

## Modules

```
OptionPolicies       what a policy makes of strings (pure)
  OptionContract         what an option promises (abstract)
  OptionResults          the life of one option             MCOptionResults
    OptionResults_proofs
AppTree              the fixed tree, settings, tokens (pure)
    AppTree_proofs
  CommandLine            which App gets which token         MCCommandLine
    CommandLine_proofs, CommandOrder_proofs
  Processing             when the callbacks run             MCProcessing
    Processing_proofs
Names                when two names are the same (pure)
  Registry               building and changing the tree     MCRegistry
    Registry_proofs
Recursion_proofs     recursive definitions over a finite tree
ConfigReader         lines, sections and items (pure)
  ConfigFile             a file from its writing to its effect  MCConfigFile
    ConfigFile_proofs
Text                 splitting, quotes, escapes (pure)
  Numbers                integers and flags (pure)
    Types                  types, sizes, conversion (pure)
      Checks                 validators (pure)
        Values                 words to value to file and back  MCValues
```

A definition named "Mutated form" above it is not the model: it is the definition
below it with a plausible bug, used to see that a property notices.

### OptionPolicies and OptionResults

One option with types of size one. A string is a record of a value and of how
often validators have rewritten it (`runs`), a result is a sequence of such parts
(`Join` and `Sum` make one out of several). `OptionPolicies` has `_validate_results`,
`_reduce_results` and `_add_result`; `OptionResults` has the state machine
`option_state` and two kinds of actions: those of the parser (`BeginParse`,
`ParseArgument`, `ProcessCallback`, `ProcessConfig`, `ProcessEnv`, `ReenterOwner`,
...) and those of the program (`Read`, `ReadReduced`, `DefaultVal`,
`MultiOptionPolicy`, `AddResult`). `phase` says where the parse of the owning App
is: on the command line, in a stream, in a section of a file, in the round of priority First,
at the file and the environment, in the later rounds. Exceptions are outcomes of `call`. An owner that
completes early gets a file's value in a section: `EnterSection` opens it, which may clear the option, and
its closing is one more completion. There the model allows more than the code: after a section it may
read the environment once more.

`OptionContract` is the same option without its buffers and without `option_state`: the
strings of this parse (`given`), whether the callback has had them (`delivered`) and what it
was given (`bound`). A parse may end well only if nothing waits (`Settled`). `OptionResults`
implements it: `KeepsContract` is the specification of the contract under the mapping that
strips the results of what validators have done to them, and takes the state `callback_run` for
`delivered`; the buffers and the other two states have no counterpart.

### AppTree and CommandLine

The tree is constant: `_configure` has run. A token is classified as the code
classifies it, but what `split_long` makes of an option token is given (`TokenOf`).
A step is one `_parse_single` of the topmost frame; a frame is an activation of
`App::_parse`, and remembers how it was entered, because `_parse_subcommand` and
`_parse_positional` list a subcommand differently when it returns. `Taker`
and `Knower` are the recursive searches through parents and groups, as the
list of Apps asked in turn. Calls that change several fields one after the other
(`clear`, `_trigger_pre_parse`, `_move_to_missing`) are operators on a record of
the tree. What `_process` does is one nondeterministic outcome here: it may throw.
An option with `trigger_on_parse` runs its callback with each token that gives it something, so it has
results exactly when its callback has run, and `Ready` clears it before it is given more. An unlimited
option without `allow_extra_args` takes what it needs and no more (`Most`).

### Processing

The same tree with what it requires (`RulesOf`, `OptionRules`). The line is any
order of options given, subcommands begun and ended, which is what `CommandLine`
makes of tokens. `agenda` is the call stack of `_process`, written out: the calls
still to come, the next one first. `Stage` is one priority with its `PreHelp` round
and its look for help; `Process` and `Completion` are the two sequences of stages in
the code; `Callbacks` and `Finals` are the two recursive walks, `Satisfied` is
`_process_requirements`. A call that may throw ends the parse. A file is a sequence of
items, `ReadFile` chooses one, and may find the next unreadable, in which case the environment
is not read. `Asking` is whether the help option of an App was used and belongs to the priority at hand.

### Names and Registry

`Names` has the comparisons: of two options (`Matches`, `Option::matching_name`), of an option
and a queried name (`CheckName`, which knows the name of the environment variable, too) and of two Apps (`Collide`, `App::_compare_subcommand_names`),
with case, underscores and prefixes folded as both sides have them set. `Registry` is a record
`reg` of everything the program builds, and `call`, the last call and whether it threw. Calls of
the library are made of one another, so an operation is an operator from a registry to the
registry it leaves, with `thrown` and, for `add_option`, the option made; a `Then...` operator
goes on with what the call before it left, unless that threw. `name`, `alias` and `ignore_case` set first,
compare what they have set, and put back each field they know of (`Compared`, `ComparedOption`). What is left behind by a call that
throws is therefore what the code leaves: `add_option` keeps the option that the inherited
defaults refuse, `set_help_flag` has removed the former flag, `Option_group::add_subcommand` has
taken the App out of its old list and lost it. The actions choose Apps, options and names from
those that exist.

### ConfigReader and ConfigFile

A line is what the reader finds it to be: a header, an entry, the beginning of an array, a text
or a comment that may go on, or too short; `ConfigReader` is what `from_config` does with one:
`generate_parents`, the openings and closings it makes up (`checkParentSegments`), the merging
of equal fields, the choice of one section. `ConfigFile` is the life of a file. A program
with some options given either writes it (`ToConfig`, in the three modes of `to_config`) or
somebody types it, line by line. The loop of the reader is one action per line, `at` holds the
section it is in, `open` what goes on over several lines. When the file ends, `_parse_config` hands
over the items one action each: `OpenSection`, `CloseSection`, `SetOption`, `Extra`, and errors.
`increment_parsed` counts the groups in groups as well (`Counting`); a flag with too many arguments takes them
all if its policy gathers, adds them up to the first that is no value of a flag if `disable_flag_override` is
set, and throws otherwise (`Overfull`).
`CompletionSeesSection` has three exceptions: a section that comes again clears what an App with
`immediate_callback` holds, even what the section before had set; an entry without arguments
sets nothing; and a file that leaves `[a.b]` for `[default]` never closes `a`. Five lines of the typist
`again` reach the first two.

### Text, Numbers, Types, Checks and Values

Strings are sequences of characters here, since what is at stake is which characters are
eaten. `Text` has `split_up`, `close_sequence`, the escapes, the quoting of a written argument
and how a reader takes it apart. `Numbers` has `strtoll` and `strtoull` (external), the casts
to the width of the type, `integral_conversion`, `to_flag_value` and `checked_multiply`. `Types` are
terms (numbers, texts, Booleans, complex numbers, optionals, containers, tuples) with the
sizes `TypeTools` computes and `lexical_conversion` for each shape. `Checks` are validators as
records, and `Func` runs one; `AsNumberWithUnit` compares units without regard to case unless told otherwise. `Values` is one option from its declaration to its file: the program adds
validators (`Check`, `Transform`), the line uses the option (`Use` is `_parse_arg`), `RunCallback`
validates, reduces and converts, `ToConfig` writes and `FromConfig` reads in another run.

## What the runs check

Every parse of the model starts in `Init` or after an earlier parse, as in a
program that calls `parse` again.

| Run | Instance | What it shows |
|---|---|---|
| OptionLifecycle | 23 declarations, 7 policies, 3 strings of which validators refuse one; up to 2 results, vectors of up to 2 | after a parse, `as` and `reduced_results` give the strings validated once and reduced by the present policy, they agree with the bound variable, the callback has run exactly once, from whichever source; every behaviour is one of the contract |
| OptionAnyCalls | 5 declarations; reads at any moment, `default_val`, `multi_option_policy` and `add_result` between parses, `parse_from_stream` | the buffers keep their form, and `validated` is left behind only by a reduction that threw |
| CommandTypical | 7 subcommands and groups, 11 options, all lines of up to 4 of 8 tokens, and of 7 others with triggers, an unlimited option, dotted options, and an immediate subcommand with one of its own; then a second parse | positionals in order; lists and counts agree; only a trigger that gets new results and an immediate App that begins again take results away; what was recognised is found again |
| CommandSettings | extras modes, prefix commands, positionals at the end, validated, silent, immediate, disabled; lines of up to 4 of 10 tokens | no word is lost, the top level never breaks off |
| CommandLimits | limits on two levels, dotted options, marks; lines of up to 3 of 9 tokens and 4 that begin with `first` | `require_subcommand_max_` is respected on lines without `--` and without dotted words, and every parse ends |
| CommandLoop | two subcommands, the first waits for a word it accepts | a parse that does not end (see Findings) |
| ProcessingOrder | two groups, three subcommands, nine options, four files, environment; a minimum of subcommands, one of options, a required subcommand, help flags of two priorities, one from the environment | final callbacks once and last, every option delivered, completion callbacks see their options and no request for help, requirements kept, help first, file errors last |
| RegistryNames | trees of up to 4 Apps and groups, two names that differ by case, and one alias, folding or change of startup mode | names at one level stay distinct |
| RegistryOptions | 2 Apps, 2 options of three declarations, one change of settings, all calls on options | no option answers to the name of another; the special pointers lead into the list; a refused call spares what it was not about |
| RegistryLinks | up to 3 Apps, 2 options, a link made while there was none, then anything removed or moved | exclusion of Apps stays mutual; no link to an option removed from the list |
| ConfigFile | typed files of up to 5 lines of sections and entries, of up to 3 with arrays, texts and comments left open, of up to 5 that open a section again, of up to 2 after a command line that used the subcommand; the written files of all programs with any of 5 options, 6 sets of subcommands, 8 of configurable ones, 3 modes | sections nest, a completed subcommand has what its section set, a written file reads back, only the configured section is read |
| Values | 34 declarations: 4-bit numbers in all texts of up to 3 of 7 characters, Booleans, structured types, awkward texts, validators | conversion is exact, words arrive as the type means them, what is stored is accepted, a written file gives the same value |

Bounds. Strings: one that validators refuse, two they accept, is what the policies
can tell apart. Two results reach every branch of `_reduce_results` (too few, as many
as, more than expected) for the sizes declared. Four tokens are a subcommand, an
option, its argument and one more, or a subcommand, its subcommand, a repeat and a word;
the pairs of Apps that compete for a token are all there. Four tokens are also a subcommand, its
option with an argument, and the subcommand again. In `ProcessingOrder`, any of the nine options may be on
the line, and `MaxUses` bounds the uses of one subcommand, two, since the second use is the only one that differs. Four Apps are a group in a
group with an App in it and one beside it, or two levels and two names in each. Two options are
what comparisons, moves and links need; `MaxChanges` is one, as the folding of one App or option is
what brings two names together. In `ConfigFile`, five lines open, leave and open again two
nested sections. In `Values`, numbers have 4 bits, `strtoll` 6 and an `int` 8: two or three digits reach
past each end of the type and of `long long`; `Long` is 6 in place of the 100 characters after
which a text is written over several lines.

Fairness. Only `Termination` needs any: `WF_vars(ParserStep)`. The parser is one
thread that does nothing but parse; as long as `_parse_single` can be called, it is.
Nothing is assumed of the program, which may never parse again.

CHECK_DEADLOCK is off where the program may stop: in `ProcessingOrder`, `ConfigFile` and `Values`
a parse returns or throws and the model ends there; in the `Registry` runs the bounds may
leave no call.

The models of the command line and of processing were compared with the compiled
library: about 30,000 command lines of the trees Typical, Settings, Limits and two
small ones ended in exactly the state of the model, and 21,000 behaviours of the
Processing tree (lines, files, unreadable files, environment, a callback that throws)
gave the same outcome, the same callbacks in the same order, the same counts and lists. For
the registry, configuration files and values, the cases under "Seen while modelling" were.

## What is proved

`OptionResults_proofs`, for all declarations, strings, policies and bounds:

* `TypeCorrect`: `Spec => []TypeOK`. Not inductive alone: `reduced_results` reduces
  `proc_results_` if it is not empty, and a reduction reduced again would not have
  the form of a reduction. What excludes that is the state machine, so the invariant is
  `IInv == TypeOK /\ ValidatedMeansReductionThrew`: in the state `validated` the cache is
  empty, because only a reduction that threw leaves the state there.
* `ValidatedOnlyAfterThrow`: the second part of `IInv`, which is a property of its
  own. The argument is one step per action; `RunCallbackType` says what `run_callback`
  may leave, `DeliversKeepsIInv` and `QuietKeepsIInv` are the two ways an action ends.
* `CallbackOnce`: `Spec => []CallbackRunsOncePerParse`, under the assumptions of the run
  that checks it: the program only reads, and a subcommand that completes early
  is one that resets its options. `DeliveryInv` adds what each phase says of state,
  results and `deliveries`; the rounds are left only when nothing is due.

Lemmas about the operators (`ValidatedType`, `TrimmedType`, `ReducedType`,
`RunCallbackType`) carry the data; the steps of the proofs cite them.

The refinement, in the same module, under the
assumption `Ordinary`: the program only reads, an App that completes early also
resets, and a trigger is not a vector positional (for which the code does validate twice):

* `OptionKeepsContract`: `Spec => KeepsContract`, the refinement. Initial states map to initial
  states, and each action to an action of the contract or a stutter.
* `ValidationOnce`: `Spec => []EachResultValidatedOnce`.
* `ReadsAgree`: `Spec => []ReadsAgreeWithBoundVariable`.
* `ReadsCurrent`: `Spec => []ReadsAfterParseAreCurrent`, if also every option of priority First has
  validators (`FirstIsChecked`; without it the property is false, see "Seen while modelling").

The first three share the invariant `ContractInv`, which adds to `IInv` what the mapping needs: a string that
waits has not been validated (`Waiting`), one that was delivered has been validated exactly once
(`Counted`), and the cache holds what the callback was given (`Agreed`). Without the first, a step
of `run_callback` would map to the delivery of strings that were rewritten twice. `ReadsCurrent`
adds `ReadInv`: once the callback has run the cache is the reduction of the results stored beside it
(`Current`), and no parse succeeds before the callback has got them (`Served`). What earlier reads left
in the cache is then either replaced, or not looked at while the strings are still to be validated.

`Registry_proofs`, for all numbers of Apps and options, names, declarations and orders of calls,
from the assumptions on the constants alone:

* `RegistryTyped`, `NamesStayDistinct` (`NoNameShadowed`) and `PointersStayLive` (`PointersLive`), from
  the inductive invariant `RegistryInv`: the registry is `Good`, which is its type, the numbering
  of what exists, `Distinct` and `Pointing`. `NoNameShadowed` is inductive only together with
  the numbering, since an option created next must not be in a list already; `PointersLive` needs
  that no pointer leads to an option not created yet. There is one lemma per operation, from a good
  registry to a good one, and operations made of others cite theirs; actions then need a line each.
* `FailuresSpareTheRest`: the action property `FailedCallsSpareTheRest`, checked in `RegistryOptions` for calls on
  options and proved for all, those that name, fold, add and move Apps included. Calls that set, compare and restore
  put back the field they have set, and with it the registry that was; the calls that are made of others may throw in
  between, and `Spared` says what of the registry is left alone by each part: it is composed along the calls
  (`SparedTwice`), as `retire_option` removes one option, adds another and moves it, and `set_help_flag`
  has removed the former flag when `add_flag` throws. The App that `Option_group::add_subcommand` loses takes with
  it what is below it, and no more: the walk down the tree from it (`Under`) meets no App that stays.
* `ExclusionStaysMutual` (`AppExclusionMutual`). The property speaks of Apps that are still in
  the tree, and what takes an App out of it walks the tree; so the invariant `Bonded` says that
  parents make a tree (`Rooted`: no set of Apps in which everyone's parent is in the set) and
  that links are mutual (`Mutual`). A removal forgets the links of all that is below the removed App.
* `LevelsStayDistinct` (`LevelNamesDistinct`). A call compares names from one App (the first above, groups without
  a name passed over) downwards through such groups; the property speaks of all levels at once. The invariant
  `Leveled` says it from below: `Passed` are the Apps on the way up from an App to the first with a
  name, and two of which the ways end together (`Meet`) share no name unless one holds the other (`Apart`).
  `TopLevelIs` and `LevelIs` show that the code's two walks are that way, once upwards and once downwards.
  Moving an App, or giving a group its first name or none, joins or cuts ways (`RejoinedApart`), and the
  comparison of the code covers what meets newly (`ComparedApart`); removing and folding less join none. No App
  is disabled as long as the program disabled none (`Enabled`), since the walk downwards leaves those out.

`CommandLine_proofs` and `CommandOrder_proofs`, for all trees of Apps and
groups, options, settings, tokens and lines, from `TreeAssumption`: an App has one parent, is in its list
once and is not above itself, an option has one owner, which is what `add_subcommand` and `add_option` build.

* `CommandLineTyped` (`TypeOK`), with the shape of the stack of activations (`Framed`): the lowest
  frame is the root's, and only a frame of a subcommand remembers who asked for it.
* `NeverHorrible` (`NoHorribleError`). `_recognize` looks along a path of Apps and
  `_parse_subcommand` in one App at a time; the lemma is that the second search, which walks
  up while the first one has found nothing yet, ends where the first one did.
* `LoopNotLeftEarly` (`TopLevelNeverBreaks`): the root never refuses a token and yet returns.
* `OptionsOnlyGain`: the action property `OptionsKeepResults`. A trigger is cleared before it is given
  more, and an option below an immediate App that has begun before (`Restarted`) when that App begins again;
  the proof follows the path by which a token, dotted or not, reached its option and shows that every other
  option keeps what it has.
* `FillInOrder` (`PositionalsFillInOrder`, which leaves out Apps that validate positionals or want them at the
  end, positionals that have a name as well, and triggers ahead of one), from the invariant `Ordered`, which states the order
  for every App whatever the status: clearing keeps it, since it empties all options of an App
  together, and a positional is chosen only as the first that is not full, or as a required one.
* `WordsConserved` (`NoWordLost`). The invariant `Booked` counts: occurrences on the line are
  those still to come and those kept in results and missing arguments, where each step moves
  a number of them (`Moves`) and clears none. The property has the premise `NothingForgotten`: no App
  ignores extras, no option triggers on parse (a trigger forgets its earlier words), and an immediate App that is
  reset holds nothing; the tree of the run meets it.

`Processing_proofs`, for the same trees with any requirements, callback priorities, early
completions and configuration files, from `TreeAssumption` and `RulesAssumption`:

* `ProcessingTyped` (`TypeOK`) and `CallsInOrder`, from the inductive invariant `InOrder`. It says
  of every call on the agenda what may stand behind it (`Behind`): behind an item of a file, the
  rest of `_process` and nothing to deliver; behind the environment, the check of requirements and all
  rounds but the first; behind the end of an App, none of its rounds; behind a final callback that
  runs once, final callbacks. And it says whom a call may concern (`Stands`), which ties the agenda
  to the line: as long as the line is not empty, the App that ends is the innermost. Calls are
  pushed as sequences, so the proof has a calculus for them: `Fits` for a sequence in front of
  others, `JoinedFit`, `AgendaTaken` and `AgendaGrown`, and one lemma per sequence the code
  pushes (`StageIs`, `CheckedIs`, `CompletionIs`, `ProcessIs`, `CallbacksAre`, `FinalsAre`).
* `DeliveriesPrecedeFinals`: the action property `FinalsLast`.
* `OptionsAllDelivered` (`EveryOptionDelivered`). `NoneMissed` says where each option with results
  that waits is to be delivered (`ToCome`): by a call, by a round of its `Station`, which is
  the next App above it that completes on its own or the root, or by a station whose end has not begun.
  `RoundDelivers` is the lemma about the recursion: a round at the station reaches the option, as all
  Apps between the two are used, and none of them ends by itself.
* `CompletionsSeeOptions` (`CompletionSeesOptions`) and `FileErrorsComeLast` (`FileErrorComesLast`), from
  these two and `RequirementsMet`: before the end of an App that completes, and before the
  error of a file is thrown, its requirements are yet to be checked or are met. That nobody asks for help
  when a completion callback runs on the command line is `HelpHeard`: while a completion is on the agenda, each
  priority has its look for help still to come, or nobody that the look would hear asks for it. The look for help of
  priority First comes before the environment is read, all others after it: that is the exception
  (`HelpMayBeLate`); the closing of a section does not look for help at all.
* `FinalsRunOnce` (`FinalOnce`). `FinalsCounted` says of each App whose final callback is not early that
  `run_callback` of the root is yet to come and the callback has neither run nor is on the agenda
  (`Unreached`), or that only ends and final callbacks are left, and the callback is on the agenda once or has
  run once if it should, and neither otherwise (`Reached`). Between the two lies one step, and `FinalsOnce` is
  what it puts on the agenda: by induction down the tree, the walk comes to an App along one
  way only (`OneWayDown`), each subcommand on it listed and each group used. `InOrder` says that nothing but final
  callbacks stands behind that step.

`ConfigFile_proofs`, for all trees of Apps and groups, programs, lines typed in any order and files
written, from `ReaderAssumption` and `FileAssumption`: an App has one parent and is not above itself, as
`add_subcommand` builds it, and the names of options are not `++` and `--`.

* `SectionsBalance` (`SectionsNest`). Inductive is `ReadingInv`. Its part `ItemsOK` says of every
  path, not only of those that occur in the items, that it is open once if it is a prefix of the last header
  and not at all otherwise (`Once`, in `Exact`), or at least as often, once the file has strayed to `[default]`
  (`Held`); and when the last item closes a section, which is all that `checkParentSegments` looks at, that
  the reader is in `[default]` and the parents of that section are still open (`Nested`). `BalOpens` and
  `BalCloses` count what a run of openings or closings does to every path, `OpenedAfterClosing` and
  `OpenedAfterEntry` say which runs the code makes up, `HeaderNests` and `EndNests` put them together.
* `OnlyThatSection` (`OnlyTheSection`). The part `SectionOK` says that `inSection` is set only under a
  header of the right name and number; an entry that repeats another (`AddedIs`) keeps the origin of the first.
* `FileTypes` (`TypeOK`), with `TreeOK` for what the items do to Apps and options. `ToConfigIs`
  unrolls `to_config` along the tree, so that whatever it writes can be read (`Readable`); `LocateIs` and
  `OptionIs` say where the names of an item lead.
* `SectionsComplete` (`CompletionSeesSection`). `Exact` has two parts, `Once` for the balance and `Enclosed`:
  every entry is followed by a closing of the section it was read in, or that section is open. At the
  end of the file none is, so `ClosingComes`. `SeenInv` is the invariant while the items are applied: what
  an entry has set is there, and its App has been completed with it or has the closing still to come. Each
  of the four actions must keep results, and must note them when it applies the closing (`SeenStep`); the two
  exceptions of the property are where `OpenSection` and `SetOption` would not.

The walks of the model (`Chain`, `Subtree`, `Counted`, the searches in `CommandLine`, `Used`,
`Callbacks` and `Finals` in `Processing`, `FindSub`, `FindOption`, `Under` and `ToConfig` in
`ConfigFile`) are recursive functions, that is, CHOOSE of a function
that satisfies an equation. `Recursion_proofs` shows that there is one: `RecursionSolved` for an equation whose value at x depends on values at the members
of D[x], where D has no cycle, and `InductionAlong` to prove something of all its values.
`AppTree_proofs` applies both to the parents and to the subcommands of a finite tree, and has the
sums that `NoWordLost` needs.

Only model-checked:

* `ListedOnceParsed` (without dotted options) and `MaxRespected`, which hold on the trees of the runs and not on every
  tree: see "Seen while modelling" for a word after `--`, dotted words, groups, and fallthrough
  without `subcommand_fallthrough`. Stated with these exceptions they would restate the code.
* `NoLinkToRemoved`, false with four Apps (see the registry below).
* `RequirementsKept`, which holds on the tree of the run and not on every tree: the environment
  may give a value to an option of a disabled group, whose requirements are not looked at, and
  a section of a file may use a subcommand whose parent is not used. `HelpComesFirst` likewise: a help
  flag of priority First that only a file or the environment sets is looked at by nobody.
* `WrittenFileReadsBack`, an induction over the lines of what a recursive function has written.
* `Values`, which is made of RECURSIVE operators, beyond the provers, as are Liveness (`Termination`)
  and ENABLED.

## Findings

The run `CommandLoop` expects a violation: with `validate_positionals`, the name of a
subcommand that a required positional refuses is looked at for ever (impl/App_inl.hpp:2185).

### Seen while modelling

Reproduced with the compiled library. The models follow the code; the properties name these
cases as exceptions, or the instances leave them out.

The option:

* Option.hpp:818 and `README.md` 926: `default_val` after a parse leaves the default in
  `proc_results_`, and `as<T>()` returns it instead of the result.
* A First priority option without validators with a default and an environment variable:
  `as<T>()` before the parse fills the cache, and after a parse in which only the environment
  gave it a value `as<T>()` still returns the default.
* impl/App_inl.hpp:2080: a trigger that is a vector positional validates its strings twice.
* Option.hpp:705: `as<T>()` before a parse fills `proc_results_`; a single unvalidated
  result that arrives later is read from the old cache until the callback has run.
* impl/Option_inl.hpp:365 and `README.md` 514-515: a forced default is delivered, then
  `as<T>()` finds neither results nor default and reads an empty string.
* Option.hpp:799: `default_val` with `run_callback_for_default` on an option with
  `trigger_on_parse` does not deliver the default.
* impl/App_inl.hpp:1639 and `README.md` 448: an option of priority First that only the
  environment sets never runs its callback.

The command line, processing and sections:

* impl/App_inl.hpp:2497 and `README.md` 1289-1292: a subcommand with a `parse_complete_callback` that
  is called again resets its options only with `immediate_callback`.
* impl/App_inl.hpp:2107 and `README.md` 613-614: a word after `--` may begin a subcommand again,
  even one too many for `require_subcommand_max_`.
* impl/App_inl.hpp:2105: with fallthrough but `subcommand_fallthrough(false)`, a word that falls
  through to the parent begins a subcommand there that no App lists.
* impl/App_inl.hpp:2184: a dotted word such as `first.inner` begins `inner` although the App that holds
  `first` has reached its limit, as `_recognize` asks for the limit of the App above `inner` only.
* impl/App_inl.hpp:2108, against the comment at 1579: an option group begins its subcommand
  although its parent has reached its limit.
* impl/App_inl.hpp:1461: a group with a `parse_complete_callback` runs its final callback twice, and
  so does what it holds.
* impl/App_inl.hpp:1363, 2336-2338 and `README.md` 1088-1089: a dotted option
  enters a subcommand past `require_subcommand_max_`, and lists it without counting it, so that after two
  of them `get_subcommands` has it twice.
* impl/App_inl.hpp:2340: a dotted option is parsed before the App above it is triggered. With `immediate_callback`
  on that App, used before, this clears what was just set: after `sub --leaf.q w` the count of `q` is 0, after
  `sub leaf --q w ++` it is 1, which `README.md` 1004-1005 calls equivalent.
* impl/App_inl.hpp:1862: a section of a file lists a configurable subcommand that the
  command line has listed; its final callback runs twice, the limit is exceeded, and with
  `immediate_callback` the values from the command line are cleared.
* impl/App_inl.hpp:1870: closing the section of a subcommand with both callbacks runs its
  final callback, which runs again at the end.
* impl/App_inl.hpp:1930: a flag that a file sets below a subcommand with a
  `parse_complete_callback` has a count, but its callback never runs.
* impl/App_inl.hpp:1624: requirements of a subcommand that only a file has set options of
  are not checked, since it was not called.
* impl/App_inl.hpp:1716: `app --help sub` reports what `sub` lacks, if `sub` completes early.
* A silent subcommand is not listed: its help flag and its final callback are ignored.

The registry:

* impl/App_inl.hpp:487: removing an option leaves the links of options in other lists, groups
  among them, and `version_ptr_`.
* An option moved to a group and then told to ignore case is compared with the options of the App
  it came from.
* `add_option` that throws while it applies the inherited defaults leaves the option in the list.
* Names are accepted or refused by order: `bar,--foo` and then `--bar` is accepted, the reverse is not.
* `Option_group::add_subcommand` drops the exclusions between the App and its siblings, and loses
  the App if it is refused.
* An alias of an option group is not compared with what the group holds.
* `retire_option` of an option that is in a group leaves it there and adds a second one; the links
  that options of the App's own list had to it are gone.
* A group moved into its own former subgroup may bring an option back to the list it was declared in, with a
  link to one removed from that list.

The configuration file:

* impl/Config_inl.hpp:543 and `book/chapters/config.md` 438: with `section("config")` only the first
  entry under the header loses the section's name; a dotted entry `config.x` in the default
  section turns the rest of that section on.
* `[a.b]` and then `[default]` never closes `a`.
* `config_to_str` of a configurable subcommand that holds one that is not writes dotted names behind
  the section, and the header of a deeper one relative to it (`book/chapters/config.md` 327-334).
* An empty array with duplicate fields allowed reads the last element of an empty vector.
* An array left open swallows the header after it.
* `config_extras_mode::capture` does not keep items whose parents are not found.

Values:

* An unsigned 64-bit option takes `0o-1` for 2^64-1, a signed one `0o-7` for -7, and both `0o` for 0
  (TypeTools.hpp:1001, although 964 rejects a minus sign for `strtoull`).
* `pair<int, vector<int>>` used twice drops the second use; from a file, the list loses its last
  element, as does the vector of `tuple<vector<int>, int>`; `pair<complex, int>` of `1 2 3` drops the 3.
* A vector of triples from a file with four elements is padded with zeros; the line throws.
* An inner tuple of fixed size with too few strings erases past the end.
* `AsNumberWithUnit` with a required unit cannot read back what it has written.
* impl/Config_inl.hpp:660: `Join` with a delimiter and a leading empty string is not read back; two empty
  strings take the last character of an empty one.
* A long text that begins and ends with the same quote and has a character to escape is read back without
  the quotes, or not at all.
* `A & B` and `A | B` are inactive when one operand is, ignore whether an operand may modify, and
  an operand that throws leaves `|`.
* A `Transformer` that maps a to b and b to c changes a value each time it is written and read.

## Not modelled

In `OptionResults`: types of several elements and their separators (they are in `Values`),
`expected` changed between parses, `as<T>()` with two types.
In `CommandLine`: bundled short flags, Windows-style and non-standard options, prefix
matching of names, `inject_separator`, groups within groups, put-back of a trigger that got nothing from its word, unnamed roots, positionals that
expect nothing; dots separate one level. Splitting one argument into several results
counts as one. In `Processing`: `help_all` and version flags as outcomes of their own,
repeated subcommands reached by fallthrough, the option that names the file, extras,
environment variables that validators refuse. The environment may differ from one
read to the next in the model, which allows more than a program can see.
In `Registry`: how a name string is taken apart, Windows-style and non-standard names, an App that is shared
by two trees, the callbacks of `TriggerOn` and `TriggerOff` during a parse (they are `SwitchApp`),
`deprecate_option`, which only prints. In `ConfigFile`: the characters of a line (those of an
entry are in `Text`), other delimiters than the defaults, comments and descriptions in a written
file. In `Values`: floating point, wide characters, streams and conversions of the program's own,
files, paths, IP addresses and permissions as validators.

The help formatter only lays out text. Errors and exit codes are outcomes of the models without their
wording. Encodings, the argument vector of the operating system and the timer are calls to the
system.

## What remains

*Parser*: `CommandLine` composed with `Processing` on one small tree, so that tokens decide
what completes when. Today the line of `Processing` is any order of uses that some tokens give.
