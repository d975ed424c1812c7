------------------------------- MODULE Values --------------------------------
(***************************************************************************)
(* The strings of one option on their way to the value of its variable:    *)
(* the program declares the option and adds validators, the command line   *)
(* uses it, run_callback validates, reduces and converts what it holds,    *)
(* the configuration writer writes it, and another run of the program      *)
(* reads the file.  The declaration is a record:                           *)
(*   type       the type of the variable, which gives the sizes            *)
(*   policy     multi_option_policy_                                       *)
(*   delimiter  delimiter_, a set of at most one character                 *)
(*   checks     the validators the program may pass to check()             *)
(*   transforms the ones it may pass to transform()                        *)
(*   words      the arguments the user may give, at most most to a use     *)
(*   uses       how often, at most, the line has the option                *)
(***************************************************************************)
EXTENDS Checks

CONSTANTS
    Declarations,
    MaxValidators   \* bound on the calls of check and transform

ASSUME ValuesAssumption == MaxValidators \in Nat

VARIABLES
    option,         \* the declaration
    validators,     \* validators_
    line,           \* the arguments of each use on the command line
    results,        \* results_
    phase,          \* how far the option is, or the error that was thrown
    value,          \* the variable, <<>> before it is assigned
    file,           \* what stands behind the name in the written file
    again           \* the variable of the run that reads the file

vars == <<option, validators, line, results, phase, value, file, again>>

TypeSizeMin == TypeCountMin(option.type)
TypeSizeMax == TypeCount(option.type)
ExpectedMax == ExpectedCount(option.type)
AllowExtraArgs == ExpectedMax = ExpectedMaxVectorSize
InjectSeparator == TypeSizeMax >= ExpectedMaxVectorSize

\* get_items_expected_min and get_items_expected_max; every declaration
\* expects one use at least.
ItemsExpectedMin == TypeSizeMin
ItemsExpectedMax ==
    LET n == CheckedMultiply(TypeSizeMax, ExpectedMax, IntBits)
    IN  IF n = Failed THEN ExpectedMaxVectorSize ELSE n[1]

\* _add_result: the strings one argument contributes.
RECURSIVE AddResult(_)
AddResults(parts) ==
    FlattenSeq([i \in DOMAIN parts |-> IF parts[i] = <<>> THEN <<>> ELSE AddResult(parts[i])])
AddResult(s) ==
    IF IsProtected(s) THEN <<Unprotected(s)>>
    ELSE IF /\ AllowExtraArgs \/ ExpectedMax > 1 \/ TypeSizeMin > 1
            /\ s # <<>> /\ Head(s) = "[" /\ Last(s) = "]"
    THEN AddResults(SplitUp(Inner(s), {","}))
    ELSE IF ToSet(s) \cap option.delimiter = {} THEN <<s>>
    ELSE SelectSeq(Split(s, CHOOSE c \in option.delimiter : TRUE), LAMBDA part : part # <<>>)

-----------------------------------------------------------------------------
(* The command line, and what run_callback does with the results.          *)

\* _parse_arg: arguments are taken until the minimum is there, and then as
\* long as the maximum allows, counted by the results they contribute.  One
\* use is expected at least, so the maximum without extra arguments is the same.
MinNum == Min({TypeSizeMin, ItemsExpectedMin})
RECURSIVE Collected(_, _)
Collected(words, taken) ==
    IF words = <<>> \/ ~(Len(taken) < MinNum \/ Len(taken) < ItemsExpectedMax \/ AllowExtraArgs)
    THEN [taken |-> taken, left |-> words]
    ELSE Collected(Tail(words), taken \o AddResult(Head(words)))

\* Mutated form: a use that ends inside an element is not closed.
NotClosed(taken) == taken
\* A use that ends inside an element closes it, if elements differ in size.
Closed(taken) ==
    IF MinNum > 0 /\ Len(taken) % TypeSizeMax # 0 /\ TypeSizeMax # TypeSizeMin
    THEN Append(taken, <<>>) ELSE taken

Injected(res) ==
    IF InjectSeparator /\ res # <<>> /\ Last(res) # <<>> THEN Append(res, <<>>) ELSE res

\* Mutated form: the index runs on over the separators of an element.
NextIndexRunning(s, index) == index
\* _validate_results: the index counts within one element of the type; the
\* strings that the policy will drop have negative ones.
NextIndex(s, index) ==
    IF TypeSizeMax > 1 /\ IsSeparator(s) /\ TypeSizeMax # TypeSizeMin /\ index >= 0 THEN 0 ELSE index
FirstIndex(res) ==
    LET most == IF TypeSizeMax > 1 THEN ItemsExpectedMax ELSE ExpectedMax
    IN  IF option.policy \in {"TakeLast", "Reverse"} /\ most < Len(res) THEN most - Len(res) ELSE 0
Skips(s, index) == TypeSizeMax > 1 /\ IsSeparator(s) /\ TypeSizeMax # TypeSizeMin /\ index >= 0
Checked(acc, s, said) ==
    IF Skips(s, acc.index) THEN [acc EXCEPT !.res = Append(@, s), !.index = NextIndex(s, @)]
    ELSE [res |-> Append(acc.res, said.text), index |-> acc.index + 1, how |-> said.how]
ValidateResults(res) ==
    LET at(index) == IF TypeSizeMax > 1 /\ index >= 0 THEN index % TypeSizeMax ELSE index
    IN  FoldLeft(LAMBDA acc, s :
                    IF acc.how # "accepts" THEN [acc EXCEPT !.res = Append(@, s)]
                    ELSE Checked(acc, s, Validate(validators, s, at(acc.index))),
                 [res |-> <<>>, index |-> FirstIndex(res), how |-> "accepts"], res)

\* _reduce_results and what run_callback and reduced_results choose of it;
\* detail::join leaves out the delimiter that an empty last string would follow.
JoinedBy(res) ==
    LET mark == IF option.delimiter = {} THEN Newline ELSE CHOOSE c \in option.delimiter : TRUE
        all  == FoldLeft(LAMBDA out, i : IF i = 1 THEN res[1] ELSE out \o <<mark>> \o res[i], <<>>,
                         [i \in DOMAIN res |-> i])
    IN  IF all # <<>> /\ Last(all) = mark THEN Front(all) ELSE all
ReduceResults(res) ==
    LET kept == Min({Max({ItemsExpectedMax, 1}), Len(res)})
        out  == CASE option.policy = "TakeLast"  -> From(res, Len(res) - kept + 1)
                  [] option.policy = "Reverse"   -> Reverse(From(res, Len(res) - kept + 1))
                  [] option.policy = "TakeFirst" -> SubSeq(res, 1, kept)
                  [] option.policy = "Join"      -> IF Len(res) > 1 THEN <<JoinedBy(res)>> ELSE res
                  [] OTHER                       -> res
        most == Max({1, ItemsExpectedMax})
    IN  IF /\ option.policy = "Throw"
           /\ \/ Len(res) < ItemsExpectedMin
              \/ Len(res) > most /\ ~(most = 1 /\ res = <<EmptyVec, EndMark>>)
        THEN <<>>
        ELSE IF out = <<EmptyVec>> THEN <<EmptyVec, EndMark>> ELSE out

\* run_callback, from the results it starts with: what it leaves, the error it
\* throws and the value.
Left(res, how, v) == [results |-> res, how |-> how, value |-> v]
Converted(res, got) ==
    IF got = Failed THEN Left(res, "ConversionError", Failed) ELSE Left(res, "parsed", got)
ReducedAndConverted(res, reduced) ==
    IF reduced = <<>> THEN Left(res, "ArgumentMismatch", Failed)
    ELSE Converted(res, Conversion(reduced, option.type))
AfterChecks(checked) ==
    IF checked.how # "accepts" THEN Left(checked.res, "ValidationError", Failed)
    ELSE ReducedAndConverted(checked.res, ReduceResults(checked.res))
Processed(res) == AfterChecks(ValidateResults(res))

-----------------------------------------------------------------------------
(* The configuration file.                                                 *)

\* ConfigBase::to_config: the order of Reverse is undone, and strings that
\* were joined are written one by one unless splitting gives them back.  The
\* last character of an empty joined string is undefined, so either may come.
WrittenAs(reduced) ==
    LET mark    == CHOOSE c \in option.delimiter : TRUE
        marks   == Cardinality({ i \in DOMAIN reduced[1] : reduced[1][i] = mark })
        splits  == /\ Last(reduced[1]) # mark
                   /\ Len(results) > marks
                   /\ ~HasPart(reduced[1], <<mark, mark>>)
    IN  IF option.policy = "Reverse" THEN {Reverse(reduced)}
        ELSE IF option.policy # "Join" \/ Len(results) <= 1 THEN {reduced}
        ELSE IF option.delimiter = {} THEN {results}
        ELSE IF reduced[1] = <<>> THEN {reduced, results}
        ELSE {IF splits THEN reduced ELSE results}
ToWrite == WrittenAs(ReduceResults(results))
WrittenValue(res) ==
    IF Len(results) = 1 /\ res = <<EmptyVec, EndMark>> THEN <<Quote>> \o EmptyVec \o <<Quote>>
    ELSE Joined(res)

\* from_config and _parse_single_config: the inputs become results.
FromInputs(inputs) ==
    IF Thrown \in ToSet(inputs) THEN Failed
    ELSE Processed(FlattenSeq([i \in DOMAIN inputs |-> AddResult(inputs[i])])).value
FromFile(text) == FromInputs(ReadBack(text))

-----------------------------------------------------------------------------

Init ==
    /\ option \in Declarations
    /\ validators = <<>>
    /\ line = <<>>
    /\ results = <<>>
    /\ phase = "declared"
    /\ value = <<>>
    /\ file = <<>>
    /\ again = <<>>

\* The program configures the option.
Check(v) ==
    /\ phase = "declared" /\ line = <<>> /\ Len(validators) < MaxValidators
    /\ validators' = Checking(validators, v)
    /\ UNCHANGED <<option, line, results, phase, value, file, again>>
Transform(v) ==
    /\ phase = "declared" /\ line = <<>> /\ Len(validators) < MaxValidators
    /\ validators' = Transforming(validators, v)
    /\ UNCHANGED <<option, line, results, phase, value, file, again>>

\* The line has the option once more, with the words up to the next one.
Use(words) ==
    /\ phase = "declared" /\ Len(line) < option.uses
    /\ line' = Append(line, words)
    /\ \E c \in {Collected(words, <<>>)} :
        /\ results' = Injected(results) \o Closed(c.taken)
        /\ phase' = IF Len(c.taken) < MinNum THEN "ArgumentMismatch"
                    ELSE IF MinNum > 0 /\ Len(c.taken) % TypeSizeMax # 0 /\ TypeSizeMax = TypeSizeMin
                    THEN "PartialType"
                    ELSE IF c.left # <<>> THEN "ExtrasError" ELSE "declared"
    /\ UNCHANGED <<option, validators, value, file, again>>

\* The line ends and _process_callbacks runs the option's callback.
RunCallback ==
    /\ phase = "declared" /\ results # <<>>
    /\ \E p \in {Processed(results)} :
        results' = p.results /\ phase' = p.how /\ value' = p.value
    /\ UNCHANGED <<option, validators, line, file, again>>

ToConfig ==
    /\ phase = "parsed"
    /\ phase' = "written"
    /\ \E res \in ToWrite : file' = WrittenValue(res)
    /\ UNCHANGED <<option, validators, line, results, value, again>>

\* Another run of the program, with no options on its line.
FromConfig ==
    /\ phase = "written"
    /\ phase' = "read"
    /\ again' = FromFile(file)
    /\ UNCHANGED <<option, validators, line, results, value, file>>

Next ==
    \/ \E v \in option.checks : Check(v)
    \/ \E v \in option.transforms : Transform(v)
    \/ \E n \in 1..option.most : \E words \in [1..n -> option.words] : Use(words)
    \/ RunCallback
    \/ ToConfig
    \/ FromConfig

Spec == Init /\ [][Next]_vars

-----------------------------------------------------------------------------
(* What a text stands for, read as a person reads it.                      *)

\* The numbers that a text denotes: none or one.  Nothing goes before 0o and 0b.
Denoted(s, signed) ==
    LET whole == SelectSeq(s, LAMBDA c : c \notin Separators)
        plain == Trim(whole)
        minus == IsPrefix(<<"-">>, plain)
        body  == IF minus \/ IsPrefix(<<"+">>, plain) THEN Tail(plain) ELSE plain
        marked == Marked(whole)
        base  == IF IsPrefix(<<"0", "x">>, body) THEN 16
                 ELSE IF marked /\ body[2] \in BinaryMarks THEN 2
                 ELSE IF IsPrefix(<<"0">>, body) THEN 8 ELSE 10
        digits == IF base = 16 \/ marked THEN From(body, 3) ELSE body
        size(i) == DigitValue(digits[i]) * base ^ (Len(digits) - i)
        n == MapThenSumSet(size, DOMAIN digits)
    IN  IF digits = <<>> \/ ~(ToSet(digits) \subseteq DigitsOf(base)) \/ (minus /\ ~signed) THEN {}
        ELSE {IF minus THEN -n ELSE n}

Typed == UNION { ToSet(line[i]) : i \in DOMAIN line }

\* integral_conversion accepts exactly the texts that denote a number of its
\* type and gives that number, whichever way the text is written.  Excepted are
\* 0o and 0b without a digit behind them: alone they are read as zero, and a
\* sign or a space there goes to strtoll.
Broken(s) ==
    LET plain == Trim(SelectSeq(s, LAMBDA c : c \notin Separators))
    IN  Marked(plain) /\ (Len(plain) = 2 \/ plain[3] \notin Digits)
ConversionExact ==
    option.type.is = "number" =>
        \A s \in { w \in Typed : ~Broken(w) } :
            LET t == option.type
                n == { d \in Denoted(s, t.signed) : Fits(d, t.bits, t.signed) }
            IN  LexicalCast(s, t) = SetToSeq(n)

\* The values that words can be read as, for a type whose parts are cut
\* anywhere.
RECURSIVE Readings(_, _)
Readings(words, t) ==
    CASE Scalar(t) -> IF Len(words) = 1 THEN ToSet(LexicalCast(words[1], t)) ELSE {}
      [] t.is = "complex" ->
            IF Len(words) = 1 THEN ToSet(LexicalCast(words[1], t))
            ELSE IF Len(words) = 2
            THEN { <<re, im>> : re \in ToSet(LexicalCast(words[1], t.of)), im \in ToSet(LexicalCast(words[2], t.of)) }
            ELSE {}
      [] t.is = "wrapper" -> { <<v>> : v \in Readings(words, t.of) }
      [] t.is = "tuple" ->
            IF t.parts = <<>> THEN IF words = <<>> THEN {<<>>} ELSE {}
            ELSE UNION { { <<v>> \o vs : v \in Readings(SubSeq(words, 1, k), Head(t.parts)),
                                         vs \in Readings(From(words, k + 1), TupleType(Tail(t.parts))) }
                         : k \in 1..Len(words) }
      [] t.is = "container" ->
            IF words = <<>> THEN {<<>>}
            ELSE UNION { { <<v>> \o vs : v \in Readings(SubSeq(words, 1, k), t.of),
                                         vs \in Readings(From(words, k + 1), t) }
                         : k \in 1..Len(words) }

\* Each use gives a container of containers one element; other containers take
\* the words of all uses, and one value is given by the last use or the only one.
LineReadings ==
    LET t == option.type
        every(i) == Readings(line[i], t.of)
    IN  IF IsContainer(t) /\ IsContainer(t.of)
        THEN { vs \in [DOMAIN line -> UNION { every(i) : i \in DOMAIN line }] :
                    \A i \in DOMAIN line : vs[i] \in every(i) }
        ELSE IF IsContainer(t) \/ t.is = "wrapper" THEN Readings(FlattenSeq(line), t)
        ELSE IF option.policy = "TakeLast" THEN Readings(Last(line), t)
        ELSE IF Len(line) = 1 THEN Readings(line[1], t) ELSE {}

\* A word that stands for itself: it is not cut at brackets or the delimiter
\* and is not one of the strings with a meaning of their own.
Plain(s) == AddResult(s) = <<s>> /\ ~IsSeparator(s) /\ s # EmptyVec

\* The words of the line arrive in the variable as the type of the option
\* means them, through separators, reduction and conversion, and a line is
\* refused only if its words mean nothing (_parse_arg, lexical_conversion).
ValueArrives ==
    (\A s \in Typed : Plain(s)) /\ validators = <<>> /\ option.policy \in {"Throw", "TakeLast", "TakeAll"} =>
        /\ phase = "parsed" => value[1] \in LineReadings
        /\ phase \in {"PartialType", "ExtrasError", "ArgumentMismatch", "ConversionError"} =>
                LineReadings = {}

\* The place of a string of results_ in its element, -1 for a dropped one.
PlaceOf(i) ==
    LET most    == IF TypeSizeMax > 1 THEN ItemsExpectedMax ELSE ExpectedMax
        dropped == IF option.policy \in {"TakeLast", "Reverse"} THEN Max({0, Len(results) - most}) ELSE 0
        starts  == { j \in 1..(i - 1) : TypeSizeMax # TypeSizeMin /\ IsSeparator(results[j]) } \cup {dropped}
    IN  IF i <= dropped THEN -1
        ELSE IF TypeSizeMax = 1 THEN i - dropped - 1 ELSE (i - Max(starts) - 1) % TypeSizeMax

\* What an option holds after a parse is accepted by every check the program
\* has added, in whatever order it has added checks and transformations and at
\* whichever place in the type a check is applied (Option::check, transform,
\* _validate_results).
StoredIsAccepted ==
    phase = "parsed" =>
        \A i \in DOMAIN results : \A v \in ToSet(validators) :
            /\ ~v.modifying /\ v.active
            /\ v.index = -1 \/ v.index = PlaceOf(i)
            /\ ~(TypeSizeMax # TypeSizeMin /\ IsSeparator(results[i]))
            => Func(v, results[i]).how = "accepts"

\* The file that a run writes gives the next run the value that this one had,
\* whatever the strings look like, if the option's validators let the strings
\* that they have stored pass as they are (to_config, convert_arg_for_ini,
\* from_config, _add_result).
Settled == LET c == ValidateResults(results) IN c.how = "accepts" /\ c.res = results
SameAfterWriting == phase = "read" /\ Settled => again = value
=============================================================================
