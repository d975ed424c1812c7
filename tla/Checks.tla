------------------------------- MODULE Checks --------------------------------
(***************************************************************************)
(* Validators: what the ones the library provides make of a string, how    *)
(* they are combined, and how an option runs the list it holds.  A         *)
(* validator is a record; does says which function it holds, and the other *)
(* fields are what that function has captured.  A run of it gives the      *)
(* string it leaves and whether it was accepted, refused or threw.         *)
(***************************************************************************)
EXTENDS Types

Said(text, how) == [text |-> text, how |-> how]
Verdict(text, accepted) == Said(text, IF accepted THEN "accepts" ELSE "refuses")

\* A validator as its constructor leaves it.
Made(does, captured) ==
    [does |-> does, captured |-> captured, index |-> -1, active |-> TRUE, modifying |-> TRUE]

InRange(low, high, t) == Made("range", [low |-> low, high |-> high, type |-> t])
Bound(low, high, t) == Made("bound", [low |-> low, high |-> high, type |-> t])
OfType(t) == Made("type", [type |-> t])
IsMember(texts, fold) == Made("member", [keys |-> texts, fold |-> fold])
Transformer(keys, values, fold) ==
    Made("transformer", [keys |-> keys, values |-> values, fold |-> fold])
CheckedTransformer(keys, values, fold) ==
    Made("checked", [keys |-> keys, values |-> values, fold |-> fold])
\* validate_mapping: without regard to case the units are kept in small letters.
AsNumberWithUnit(units, factors, t, required, fold) ==
    Made("unit", [units |-> [i \in DOMAIN units |-> IF fold THEN Lower(units[i]) ELSE units[i]],
                  factors |-> factors, type |-> t, required |-> required, fold |-> fold])

Combination(does, v, w) ==
    [Made(does, <<v, w>>) EXCEPT !.active = v.active /\ w.active, !.index = v.index]
And(v, w) == Combination("and", v, w)
Or(v, w) == Combination("or", v, w)
Not(v) == Combination("not", v, v)

ApplicationIndex(v, index) == [v EXCEPT !.index = index]
Inactive(v) == [v EXCEPT !.active = FALSE]

-----------------------------------------------------------------------------

\* ignore_case as the filter function of a validator.
Filtered(s, fold) == IF fold THEN Lower(s) ELSE s

\* detail::search: an exact match goes before one of the filtered keys.
Search(keys, s, fold) ==
    LET exact == { i \in DOMAIN keys : keys[i] = s }
        loose == { i \in DOMAIN keys : Filtered(keys[i], fold) = s }
    IN  IF exact # {} THEN exact ELSE loose

Within(n, c) == n # Failed /\ n[1] >= c.low /\ n[1] <= c.high
Bounded(s, n, c) ==
    IF n = Failed THEN Verdict(s, FALSE)
    ELSE Verdict(IF n[1] < c.low THEN Numeral(c.low)
                 ELSE IF n[1] > c.high THEN Numeral(c.high) ELSE s, TRUE)
Member(s, c) ==
    LET found == Search(c.keys, Filtered(s, c.fold), c.fold)
    IN  Verdict(IF found # {} /\ c.fold THEN c.keys[Min(found)] ELSE s, found # {})
Transformed(s, c) ==
    LET found == Search(c.keys, Filtered(s, c.fold), c.fold)
    IN  Verdict(IF found # {} THEN c.values[Min(found)] ELSE s, TRUE)
CheckedTransformed(s, c) ==
    LET found == Search(c.keys, Filtered(s, c.fold), c.fold)
    IN  Verdict(IF found # {} THEN c.values[Min(found)] ELSE s, found # {} \/ s \in ToSet(c.values))

\* The number before the unit is cut out of the string before anything is
\* looked at, so that is what is left when it throws.
UnitLetters == {"A", "a", "b", "k", "m"}
Multiplied(number, n, known, c) ==
    LET factor == c.factors[Min(known)]
    IN  IF number = <<>> THEN <<factor>> ELSE CheckedMultiply(n[1], factor, c.type.bits)
Product(number, product) ==
    IF product = Failed THEN Said(number, "throws") ELSE Said(Numeral(product[1]), "accepts")
NumberAndUnit(number, unit, n, c) ==
    LET known == { i \in DOMAIN c.units : c.units[i] = Filtered(unit, c.fold) }
    IN  IF unit = <<>> THEN Said(number, IF c.required \/ n = Failed THEN "throws" ELSE "accepts")
        ELSE IF known = {} \/ (number # <<>> /\ n = Failed) THEN Said(number, "throws")
        ELSE Product(number, Multiplied(number, n, known, c))
WithUnit(s, c) ==
    LET text   == TrimRight(s)
        cut    == Max({0} \cup { i \in DOMAIN text : text[i] \notin UnitLetters })
        number == Trim(SubSeq(text, 1, cut))
    IN  IF text = <<>> THEN Said(text, "throws")
        ELSE NumberAndUnit(number, From(text, cut + 1), LexicalCast(number, c.type), c)

\* func_: the operands of & and | work on the same string, and what one of
\* them throws leaves the combination.
RECURSIVE Func(_, _)
Func(v, s) ==
    LET c      == v.captured
        first  == Func(c[1], s)
        second == Func(c[2], first.text)
        both(accepted) == IF first.how = "throws" THEN first
                          ELSE IF second.how = "throws" THEN second
                          ELSE Verdict(second.text, accepted)
    IN  CASE v.does = "range"       -> Verdict(s, Within(LexicalCast(s, c.type), c))
          [] v.does = "bound"       -> Bounded(s, LexicalCast(s, c.type), c)
          [] v.does = "type"        -> Verdict(s, LexicalCast(s, c.type) # Failed)
          [] v.does = "member"      -> Member(s, c)
          [] v.does = "transformer" -> Transformed(s, c)
          [] v.does = "checked"     -> CheckedTransformed(s, c)
          [] v.does = "unit"        -> WithUnit(s, c)
          [] v.does = "and"         -> both(first.how = "accepts" /\ second.how = "accepts")
          [] v.does = "or"          -> both(first.how = "accepts" \/ second.how = "accepts")
          [] v.does = "not"         -> IF first.how = "throws" THEN first
                                       ELSE Verdict(first.text, first.how = "refuses")

\* Validator::operator().
Call(v, s) ==
    IF ~v.active THEN Verdict(s, TRUE)
    ELSE [Func(v, s) EXCEPT !.text = IF v.modifying THEN @ ELSE s]

-----------------------------------------------------------------------------

\* Option::check and Option::transform.
Checking(validators, v) == Append(validators, [v EXCEPT !.modifying = FALSE])
\* Mutated form: the transformation runs after the validators there are.
TransformingLast(validators, v) == Append(validators, v)
Transforming(validators, v) == <<v>> \o validators

\* Option::_validate: the first validator that does not accept ends the loop.
Validate(validators, s, index) ==
    FoldLeft(LAMBDA said, v :
                IF said.how # "accepts" \/ v.index \notin {-1, index} THEN said ELSE Call(v, said.text),
             Said(s, "accepts"), validators)
=============================================================================
