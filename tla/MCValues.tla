------------------------------ MODULE MCValues -------------------------------
(***************************************************************************)
(* Options of many types, each with the words that can go wrong for it.    *)
(***************************************************************************)
EXTENDS Values

Small == NumberType(4, TRUE)
Natural == NumberType(4, FALSE)
Pair == TupleType(<<Small, Small>>)
Triple == TupleType(<<Small, Small, Small>>)

\* What _recognize does not take for an option.
Argument(s) == s # <<>> => s[1] # "-" \/ (Len(s) > 1 /\ s[2] \in Digits)
UpTo(n, chars) == { s \in UNION { [1..k -> chars] : k \in 1..n } : Argument(s) }

One == <<"1">>
Two == <<"2">>
BadWord == <<"9", "k">>
Few == {One, Two, BadWord}

Declared(type, policy, words, most, uses) ==
    [type |-> type, policy |-> policy, delimiter |-> {}, checks |-> {}, transforms |-> {},
     words |-> words, most |-> most, uses |-> uses]

\* Single numbers, in every way they can be written in a few characters.
Short == UpTo(3, {"0", "1", "9", "x", "o", "b", "-", "_", " "})
Marks == { <<"0", m, c, d>> : m \in {"o", "O", "b", "B"}, c \in {"0", "1", "7", "_", "-"}, d \in {"1", "7", "8", " "} }
         \cup { <<c, "0", "b", "1">> : c \in {"_", "-", " "} }
Numerals == { Declared(t, "Throw", Short \cup Marks, 1, 1) : t \in {Small, Natural} }

Booleans == { Declared(BooleanType, "TakeLast",
                       {TrueText, <<"O", "N">>, <<"o", "f", "f">>, <<"n">>, <<"0">>, <<"-", "1">>, BadWord}, 1, 2) }

Structured ==
    { Declared(t, "Throw", Few, 3, 2) :
        t \in {Pair, Triple, ComplexType(Small), WrapperType(Small)} }
    \cup { Declared(t, "TakeAll", Few, 3, 2) :
        t \in {ContainerType(Small), ContainerType(Pair), ContainerType(Triple),
               ContainerType(ContainerType(Small)), ContainerType(ComplexType(Small)),
               WrapperType(ContainerType(Small))} }
    \cup { Declared(TupleType(<<Small, ContainerType(Small)>>), "Throw", Few, 3, 1),
           Declared(TupleType(<<Small, Pair, ContainerType(Small)>>), "Throw", Few, 3, 1),
           Declared(Pair, "TakeLast", Few, 3, 2), Declared(Small, "TakeFirst", Few, 3, 2) }

\* Texts with a meaning in a file, on their own.
Odd == {<<>>, <<" ">>, <<"a", " ", "b">>, <<"a", ",", "b">>, <<"[", "a", "]">>, <<"[", "a">>,
        <<Literal>>, <<Quote>>, <<Escape>>, <<Newline>>, <<Control>>, <<"a", Newline, "b">>,
        <<Literal, "a", Literal>>, <<Quote, "a", Quote>>, <<"~", "a", "~">>, <<"#">>, <<"a", "#", "b">>,
        EmptyVec, EndMark, <<"0", "x", "1">>, <<"a", Control>>, <<Escape, "x", Control>>,
        <<Literal, Control>>, <<"B", Quote, "(", ")", Quote>>, <<"[", Quote, "]">>,
        <<Newline, "a", "b", "c", "d", "e", "f">>, <<"a", "b", "c", "d", "e", "f", Newline>>,
        <<"a", " ", Quote, "b", "c", Escape, "d">>, <<Quote, Literal, Literal, Literal, "a", "b", "c">>,
        <<"1", "_", "0">>, <<"-", "1">>, <<"a", "b", Literal>>}
\* Texts that a delimiter cuts; an empty text before a delimiter that joins is
\* not read back, so it is only used where nothing is joined by a delimiter.
Cut == {<<"a">>, <<"a", ",", "b">>, <<"a", ",">>, <<",", ",">>, <<" ">>}
Texts ==
    { Declared(TextType, p, Odd, 1, 1) : p \in {"Throw", "TakeLast"} }
    \cup { Declared(ContainerType(TextType), p, Odd, 2, 1) : p \in {"TakeAll", "Reverse"} }
    \cup { [Declared(ContainerType(TextType), p, Cut \cup (IF p = "Join" /\ d # {} THEN {} ELSE {<<>>}), 2, 1)
                EXCEPT !.delimiter = d] : p \in {"Join", "TakeAll", "TakeFirst"}, d \in {{}, {","}} }

\* Validators, for each place of a type and of the kinds that rewrite.
At(i, v) == ApplicationIndex(v, i)
Validated ==
    { [Declared(t, p, {One, Two, <<"5">>, BadWord}, 2, IF IsContainer(t) THEN 2 ELSE 1)
        EXCEPT !.checks = {At(0, InRange(1, 1, Small)), At(1, Not(InRange(1, 1, Small))),
                           Or(InRange(1, 1, Small), InRange(5, 5, Small))},
               !.transforms = {Bound(2, 4, Small)}] :
        t \in {ContainerType(Pair), TupleType(<<Small, ContainerType(Small)>>),
               ContainerType(ContainerType(Small))},
        p \in {"TakeAll", "TakeLast"} }
    \cup
    { [Declared(TextType, "TakeLast", {<<"a">>, <<"A">>, <<"b">>, <<"1", "A">>, <<"1">>}, 1, 2)
        EXCEPT !.checks = {IsMember(<< <<"a">>, <<"b">> >>, TRUE), And(OfType(Small), InRange(0, 7, Small)),
                           Inactive(InRange(9, 9, Small)),
                           CheckedTransformer(<< <<"a">> >>, << <<"b">> >>, TRUE)},
               !.transforms = {Transformer(<< <<"a">> >>, << <<"b">> >>, TRUE),
                               IsMember(<< <<"a">>, <<"b">> >>, TRUE),
                               CheckedTransformer(<< <<"a">> >>, << <<"1">> >>, FALSE),
                               AsNumberWithUnit(<< <<"A">> >>, <<5>>, Small, FALSE, TRUE)}] }

MCDeclarations == Numerals \cup Booleans \cup Structured \cup Texts \cup Validated
=============================================================================
