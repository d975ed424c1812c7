--------------------------- MODULE OptionResults ----------------------------
(***************************************************************************)
(* The life of one Option: the strings it collects (results_), what the    *)
(* multi option policy makes of them (proc_results_), the option_state     *)
(* machine, and the calls that move it -- those App makes while it parses  *)
(* (add_result, run_callback, clear) and those a program makes between     *)
(* parses or inside another option's callback (as<T>, reduced_results,     *)
(* default_val, multi_option_policy, add_result).                          *)
(*                                                                         *)
(* How the program declared the option is a record fixed in Init:          *)
(*   min, max    get_items_expected_min / _max, for a type of size one     *)
(*   validators  it has at least one validator or transform                *)
(*   callback    callback_ is set (it is for every bound variable)         *)
(*   first       its callback priority is First or FirstPreHelp            *)
(*   trigger     trigger_on_result_                                        *)
(*   force       force_callback_                                           *)
(*   runDefault  run_callback_for_default_                                 *)
(*   positional  its arguments arrive through _parse_positional            *)
(*   completes   its App is a subcommand with a parse_complete_callback_   *)
(*   resets      its App has immediate_callback_ set                       *)
(***************************************************************************)
EXTENDS OptionPolicies

CONSTANTS
    Declarations,   \* the declarations to examine
    ChosenPolicies, \* the policies the program sets
    Defaults,       \* the values a program gives as a default
    Typed,          \* the strings a user, a file or the environment gives
    ClientCalls,    \* the kinds of calls the program makes itself
    MaxResults,     \* bound on the stored results
    MaxArgument     \* bound on the results one argument contributes

DeclarationType ==
    [min : Nat, max : Nat, validators : BOOLEAN, callback : BOOLEAN, first : BOOLEAN,
     trigger : BOOLEAN, force : BOOLEAN, runDefault : BOOLEAN, positional : BOOLEAN,
     completes : BOOLEAN, resets : BOOLEAN]

ASSUME DeclarationsAssumption ==
    /\ Declarations \subseteq DeclarationType
    /\ ChosenPolicies \subseteq Policies
    /\ Defaults \subseteq Values
    /\ Typed \subseteq Values \cup {EmptyVec}
    /\ MaxResults \in Nat
    /\ MaxArgument \in Nat

VARIABLES
    opt,            \* the declaration
    policy,         \* multi_option_policy_
    default,        \* what default_str_ adds to the results
    results,        \* results_
    procResults,    \* proc_results_
    state,          \* current_option_state_
    phase,          \* where the parse of the owning App is
    bound,          \* what the callback last stored in the bound variable
    deliveries,     \* how often this parse ran the callback: 0, 1 or more
    call            \* the last call, how it ended and the strings it handed out

optionVars == <<results, procResults, state>>
outside == <<opt, policy, default>>
vars == <<opt, policy, default, results, procResults, state, phase, bound, deliveries, call>>

OptionStates == {"parsing", "validated", "callback_run"}
Parsing == {"cmdline", "stream", "section", "early", "sources", "late"}
Resting == {"never", "ok", "failed"}
Outcomes == {"ok", "ValidationError", "ArgumentMismatch", "ConversionError"}
Operations == {"none", "parse", "callback", "as", "reduced_results", "default_val", "other"}

\* default_str_ empty: adding it contributes one empty string.
NoDefault == <<Fresh(Blank)>>

\* What one argument contributes; a bracketed vector is several strings.
TakesVectors == opt.max > 1
Arguments ==
    { vs \in UNION {[1..n -> Typed] : n \in 0..MaxArgument} :
        Len(vs) # 1 => TakesVectors }

Said(op, outcome, got) == [op |-> op, outcome |-> outcome, got |-> got]
Quiet(op) == Said(op, "ok", <<>>)

TypeOK ==
    /\ opt \in DeclarationType
    /\ policy \in Policies
    /\ default \in {<<Fresh(v)>> : v \in Strings}
    /\ results \in Seq(PlainItem)
    /\ procResults \in Seq(Item)
    /\ state \in OptionStates
    /\ phase \in Parsing \cup Resting
    /\ bound \in Seq(Item)
    /\ deliveries \in 0..2
    /\ call \in [op : Operations, outcome : Outcomes, got : Seq(Item)]

Init ==
    /\ opt \in Declarations
    /\ policy \in ChosenPolicies
    /\ default \in {NoDefault} \cup {<<Fresh(v)>> : v \in Defaults}
    /\ results = <<>>
    /\ procResults = <<>>
    /\ state = "parsing"
    /\ phase = "never"
    /\ bound = <<>>
    /\ deliveries = 0
    /\ call = Quiet("none")

-----------------------------------------------------------------------------
(* Option::run_callback, as the state it leaves and the way it ends.  It   *)
(* starts from the results res, the reduced results proc and the state st. *)

Forced(res) == opt.force /\ res = <<>>

RunCallback(res, proc, st) ==
    LET given   == IF Forced(res) THEN default ELSE res
        entry   == IF Forced(res) THEN "parsing" ELSE st
        checked == IF entry = "parsing" THEN Validated(opt, given) ELSE given
        out     == IF entry = "callback_run" THEN proc ELSE Reduced(opt, policy, checked)
        sent    == Chosen(out, checked)
        clears  == Forced(res) /\ opt.callback /\ sent # <<>>
        end(r, p, s, how, got) ==
            [results |-> r, proc |-> p, state |-> s, outcome |-> how, got |-> got]
    IN  IF entry = "parsing" /\ ValidationFails(opt, given)
        THEN end(checked, proc, "parsing", "ValidationError", <<>>)
        ELSE IF entry # "callback_run" /\ ReductionFails(opt, policy, checked)
        THEN end(checked, <<>>, "validated", "ArgumentMismatch", <<>>)
        ELSE end(IF clears THEN <<>> ELSE checked,
                 IF clears THEN <<>> ELSE out,
                 "callback_run",
                 IF opt.callback /\ \E i \in DOMAIN sent : Holds(sent[i], Unconvertible)
                 THEN "ConversionError" ELSE "ok",
                 IF opt.callback THEN sent ELSE <<>>)

\* The option after run_callback ended as r, and what the world saw of it.
\* The callback stores the value only when the conversion succeeds.
Delivers(r) ==
    /\ results' = r.results
    /\ procResults' = r.proc
    /\ state' = r.state
    /\ bound' = IF r.outcome = "ok" /\ r.got # <<>> THEN r.got ELSE bound
    /\ deliveries' = IF r.got # <<>> /\ deliveries < 2 THEN deliveries + 1 ELSE deliveries
    /\ call' = Said("callback", r.outcome, r.got)

-----------------------------------------------------------------------------
(* The calls App makes.                                                    *)

\* Mutated form: results_ survives.
ClearForgetsResults ==
    /\ UNCHANGED results
    /\ procResults' = <<>>
    /\ state' = "parsing"

\* Option::clear, which App::clear calls for every option.
Clear ==
    /\ results' = <<>>
    /\ procResults' = <<>>
    /\ state' = "parsing"

\* App::parse: a second parse first clears what the first one stored.
BeginParse ==
    /\ phase \in Resting
    /\ phase' = "cmdline"
    /\ IF phase # "never" THEN Clear ELSE UNCHANGED optionVars
    /\ deliveries' = 0
    /\ call' = Quiet("parse")
    /\ UNCHANGED <<outside, bound>>

\* App::parse_from_stream: configuration input only, and nothing is cleared.
BeginStream ==
    /\ "stream" \in ClientCalls
    /\ phase \in Resting
    /\ phase' = "stream"
    /\ deliveries' = 0
    /\ call' = Quiet("parse")
    /\ UNCHANGED <<outside, optionVars, bound>>

\* Mutated form: a trigger adds to what it has delivered.
RestartsNot == FALSE

Restarts == opt.trigger /\ state = "callback_run"

\* An argument for the option, in _parse_arg and in _parse_positional.
ParseArgument ==
    /\ phase = "cmdline"
    /\ \E vs \in Arguments :
        LET kept == IF Restarts THEN <<>> ELSE results
            now  == kept \o Added(vs)
            proc == IF Restarts THEN <<>> ELSE procResults
            run  == RunCallback(now, proc, "parsing")
        IN  /\ vs = <<>> => opt.positional
            /\ Len(now) <= MaxResults
            /\ \/ /\ opt.trigger /\ now # <<>>
                  /\ Delivers(run)
                  /\ phase' = IF run.outcome = "ok" THEN phase ELSE "failed"
               \/ /\ ~(opt.trigger /\ now # <<>>)
                  /\ results' = IF Restarts THEN results ELSE now
                  /\ procResults' = proc
                  /\ state' = "parsing"
                  /\ call' = Quiet("parse")
                  /\ UNCHANGED <<phase, bound, deliveries>>
    /\ UNCHANGED outside

\* Mutated form: that the option is forced is not considered.
DueIfGiven ==
    /\ phase = IF opt.first THEN "early" ELSE "late"
    /\ results # <<>>
    /\ state # "callback_run"

\* _process and _process_completion_callbacks go through three stages: the
\* callbacks of priority First, the configuration file and the environment,
\* and all other callbacks.
Due ==
    /\ phase = IF opt.first THEN "early" ELSE "late"
    /\ results # <<>> \/ opt.force
    /\ state # "callback_run"

\* _process_callbacks, for this option.
ProcessCallback ==
    LET run == RunCallback(results, procResults, state)
    IN  /\ Due
        /\ Delivers(run)
        /\ phase' = IF run.outcome = "ok" THEN phase ELSE "failed"
        /\ UNCHANGED outside

Moves(from, to) ==
    /\ phase = from
    /\ phase' = to
    /\ call' = Quiet("parse")

\* The arguments are used up, or the owning subcommand is done with its part
\* of them; the stages follow one another.
NextStage ==
    /\ ~Due
    /\ \/ Moves("cmdline", "early")
       \/ Moves("stream", "early")
       \/ Moves("section", "early")
       \/ Moves("early", "sources")
       \/ Moves("sources", "late")
       \/ Moves("late", "ok")
    /\ UNCHANGED <<outside, optionVars, bound, deliveries>>

\* _trigger_pre_parse of an owner that was used before.
Retriggered == IF opt.resets THEN Clear ELSE UNCHANGED optionVars

\* A subcommand that was completed appears again.
ReenterOwner ==
    /\ opt.completes /\ ~Due
    /\ Moves("late", "cmdline")
    /\ Retriggered
    /\ deliveries' = 0
    /\ UNCHANGED <<outside, bound>>

\* A section of a file opens a subcommand that completes: ++.  Its callbacks
\* have run before the file is read, and run again when the section closes.
\* A stream may be the first to use the owner, or not.  The model allows more
\* than the code: after a section it may read the environment once more.
EnterSection ==
    /\ opt.completes /\ ~Due
    /\ \/ Moves("late", "section") /\ Retriggered
       \/ Moves("stream", "section") /\ (Retriggered \/ UNCHANGED optionVars)
    /\ deliveries' = 0
    /\ UNCHANGED <<outside, bound>>

\* _process_env: a value the validators accept, if there is no other.
ProcessEnv ==
    /\ phase = "sources"
    /\ results = <<>>
    /\ \E v \in Typed :
        /\ ~Refused(opt, Fresh(v))
        /\ results' = <<Fresh(v)>>
    /\ state' = "parsing"
    /\ call' = Quiet("parse")
    /\ UNCHANGED <<outside, procResults, phase, bound, deliveries>>

\* _parse_single_config: add_result and run_callback, unless the item was
\* taken as a flag.  The reader puts the entries of a subcommand into a section.
ProcessConfig ==
    /\ phase \in IF opt.completes THEN {"section"} ELSE {"stream", "sources"}
    /\ results = <<>>
    /\ \E vs \in Arguments :
        LET run == RunCallback(Added(vs), procResults, "parsing")
        IN  /\ vs # <<>>
            /\ Len(vs) <= MaxResults
            /\ \/ /\ Delivers(run)
                  /\ phase' = IF run.outcome = "ok" THEN phase ELSE "failed"
               \/ /\ opt.min = 0
                  /\ results' = Added(vs)
                  /\ state' = "parsing"
                  /\ call' = Quiet("parse")
                  /\ UNCHANGED <<procResults, phase, bound, deliveries>>
    /\ UNCHANGED outside

\* Some other part of the command line was in error.
ParseFails ==
    /\ \E from \in Parsing : Moves(from, "failed")
    /\ UNCHANGED <<outside, optionVars, bound, deliveries>>

ParserNext ==
    \/ BeginParse \/ BeginStream \/ ParseArgument \/ ReenterOwner \/ EnterSection
    \/ NextStage
    \/ ProcessEnv \/ ProcessConfig \/ ProcessCallback \/ ParseFails

-----------------------------------------------------------------------------
(* The calls the program makes.                                            *)

\* reduced_results makes a copy of base, or throws.
ReducedFrom(base) ==
    LET fresh == state = "parsing"
        res   == IF fresh THEN Validated(opt, base) ELSE base
    IN  IF fresh /\ ValidationFails(opt, base)
        THEN Said("reduced_results", "ValidationError", <<>>)
        ELSE IF state = "callback_run" \/ res = <<>>
        THEN Said("reduced_results", "ok", res)
        ELSE IF ReductionFails(opt, policy, res)
        THEN Said("reduced_results", "ArgumentMismatch", <<>>)
        ELSE Said("reduced_results", "ok", Chosen(Reduced(opt, policy, res), res))

ReducedResults ==
    ReducedFrom(IF state = "parsing" THEN results ELSE Chosen(procResults, results))

\* The default as results(T&) presents it when there are no results.
DefaultResults ==
    LET res == Validated(opt, default)
    IN  IF default = NoDefault THEN Said("as", "ok", NoDefault)
        ELSE IF ValidationFails(opt, default) THEN Said("as", "ValidationError", <<>>)
        ELSE IF ReductionFails(opt, policy, res) THEN Said("as", "ArgumentMismatch", <<>>)
        ELSE Said("as", "ok", Chosen(Reduced(opt, policy, res), res))

\* results(T&) reads what is stored when the callback ran, or when there is
\* one result and nothing to validate.
ReadsStored == state = "callback_run" \/ (Len(results) = 1 /\ ~opt.validators)

\* Mutated form: the stored results are read as they were given.
AsGiven ==
    IF ReadsStored
    THEN Said("as", "ok", IF results = <<>> THEN <<Fresh(Blank)>> ELSE results)
    ELSE IF results = <<>> THEN DefaultResults
    ELSE [ReducedResults EXCEPT !.op = "as"]

As ==
    IF ReadsStored
    THEN Said("as", "ok", IF Chosen(procResults, results) = <<>> THEN <<Fresh(Blank)>>
                          ELSE Chosen(procResults, results))
    ELSE IF results = <<>> THEN DefaultResults
    ELSE [ReducedResults EXCEPT !.op = "as"]

\* results(T&) keeps what it computed in the mutable proc_results_.
Read ==
    /\ "reads" \in ClientCalls
    /\ call' = As
    /\ procResults' = IF As.outcome = "ok" /\ ~(ReadsStored /\ Chosen(procResults, results) # <<>>)
                      THEN As.got ELSE procResults
    /\ UNCHANGED <<outside, results, state, phase, bound, deliveries>>

ReadReduced ==
    /\ "reads" \in ClientCalls
    /\ call' = ReducedResults
    /\ UNCHANGED <<outside, optionVars, phase, bound, deliveries>>

\* default_val: the results are set aside, the default is added, and the
\* callback runs on it or it is only validated.
DefaultVal ==
    /\ "defaults" \in ClientCalls
    /\ phase \in Resting
    /\ \E v \in Defaults :
        LET given   == <<Fresh(v)>>
            runs    == opt.runDefault /\ ~opt.trigger
            run     == RunCallback(given, procResults, "parsing")
            outcome == IF runs THEN run.outcome
                       ELSE IF ValidationFails(opt, given) THEN "ValidationError" ELSE "ok"
        IN  /\ default' = IF outcome = "ok" THEN given ELSE default
            /\ state' = IF runs /\ outcome = "ok" THEN "parsing" ELSE state
            /\ procResults' = IF runs THEN run.proc ELSE procResults
            /\ bound' = IF runs /\ outcome = "ok" /\ run.got # <<>> THEN run.got ELSE bound
            /\ call' = Said("default_val", outcome, IF runs THEN run.got ELSE <<>>)
    /\ UNCHANGED <<opt, policy, results, phase, deliveries>>

\* Mutated form: the state machine is not set back.
MultiOptionPolicyKeepsState ==
    /\ "policy" \in ClientCalls
    /\ phase \in Resting
    /\ policy' \in ChosenPolicies \ {policy}
    /\ call' = Quiet("other")
    /\ UNCHANGED <<opt, default, optionVars, phase, bound, deliveries>>

\* multi_option_policy; the change of expected_max_ keeps an older behaviour.
MultiOptionPolicy ==
    /\ "policy" \in ClientCalls
    /\ phase \in Resting
    /\ policy' \in ChosenPolicies \ {policy}
    /\ opt' = IF policy = "Throw" /\ opt.max = Unlimited /\ opt.min > 1
              THEN [opt EXCEPT !.max = opt.min] ELSE opt
    /\ state' = "parsing"
    /\ call' = Quiet("other")
    /\ UNCHANGED <<default, results, procResults, phase, bound, deliveries>>

\* add_result, called by the program.
AddResult ==
    /\ "add" \in ClientCalls
    /\ phase \in Resting
    /\ \E vs \in Arguments :
        /\ Len(results) + Len(vs) <= MaxResults
        /\ results' = results \o Added(vs)
    /\ state' = "parsing"
    /\ call' = Quiet("other")
    /\ UNCHANGED <<outside, procResults, phase, bound, deliveries>>

ClientNext == Read \/ ReadReduced \/ DefaultVal \/ MultiOptionPolicy \/ AddResult

Next == ParserNext \/ ClientNext

Spec == Init /\ [][Next]_vars

-----------------------------------------------------------------------------
(* Properties.                                                             *)

\* What the option ought to hand out: the strings it was given, or else its
\* default, each validated exactly once and reduced by the present policy.
Promised ==
    LET given == IF results = <<>> THEN default ELSE results
        once(item) ==
            [i \in 1..Len(item) |->
                [item[i] EXCEPT !.runs = IF opt.validators /\ ~Exempt(opt, item) THEN 1 ELSE 0]]
        base == [i \in 1..Len(given) |-> once(given[i])]
    IN  Chosen(Reduced(opt, policy, base), base)

Reads == {"as", "reduced_results"}

\* Once a parse has succeeded, as<T>() and reduced_results() hand out the
\* promised strings of an option that was used, and as<T>() the default of one
\* that was not, whatever reads were made before and during the parse
\* (Option::results, Option::run_callback).  A forced option is left out: its
\* default has gone to the callback.  It fails for a First priority option
\* without validators: the environment, or a file a flag, gives it a string when its
\* callback no longer runs, and as<T>() hands out what an earlier read stored.
ReadsAfterParseAreCurrent ==
    /\ phase = "ok" /\ call.op \in Reads /\ call.outcome = "ok"
    /\ results # <<>> \/ (call.op = "as" /\ default # NoDefault /\ ~opt.force)
    => call.got = Promised

\* After a successful parse, as<T>() agrees with the bound variable if the
\* callback has run, although the callback filled it from another buffer.
ReadsAgreeWithBoundVariable ==
    phase = "ok" /\ call.op = "as" /\ call.outcome = "ok" /\ results # <<>>
        /\ opt.callback /\ state = "callback_run"
        => call.got = bound

\* A parse that succeeds ran the callback of an ordinary option exactly once
\* if the option was used or is forced and not at all otherwise, whichever of
\* the command line, the environment and a file the value came from.
CallbackRunsOncePerParse ==
    phase = "ok" /\ opt.callback /\ ~opt.trigger /\ ~opt.first
        => deliveries = IF results # <<>> \/ opt.force THEN 1 ELSE 0

\* Validators may rewrite a string, so none is validated twice, and every
\* one that a callback got in a successful parse was validated.
EachResultValidatedOnce ==
    \A i \in DOMAIN results :
        /\ results[i][1].runs <= 1
        /\ /\ phase = "ok" /\ state = "callback_run"
           /\ opt.validators /\ ~Exempt(opt, results[i])
           => results[i][1].runs = 1

\* An option is left in the validated state only by a reduction that threw,
\* so that a later reduced_results() does not reduce an old reduction again.
ValidatedMeansReductionThrew ==
    state = "validated" =>
        /\ procResults = <<>>
        /\ results # <<>>
        /\ ReductionFails(opt, policy, results)

-----------------------------------------------------------------------------
(* The promise that the two buffers and the three states keep.             *)

Contract == INSTANCE OptionContract WITH
    busy      <- phase \in Parsing,
    given     <- [i \in 1..Len(results) |-> results[i][1].val],
    delivered <- state = "callback_run"

\* The option keeps its contract through every order of arguments, stages,
\* errors, reads and parses: the callback is handed all strings of the parse,
\* each validated once and reduced as the policy says, and only once
\* (Option::run_callback, App::_process_callbacks).
KeepsContract == Contract!Spec
=============================================================================
