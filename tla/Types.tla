------------------------------- MODULE Types ---------------------------------
(***************************************************************************)
(* The types an option can be bound to, as terms, with the sizes TypeTools *)
(* computes from a type and lexical_conversion, which makes a value of it  *)
(* out of the strings an option holds.  A value of a container or a tuple  *)
(* is the sequence of its parts, one of a wrapper that is empty is <<>>.   *)
(***************************************************************************)
EXTENDS Numbers

NumberType(bits, signed) == [is |-> "number", bits |-> bits, signed |-> signed]
TextType == [is |-> "text"]
BooleanType == [is |-> "boolean"]
ComplexType(part) == [is |-> "complex", of |-> part]
WrapperType(t) == [is |-> "wrapper", of |-> t]
ContainerType(t) == [is |-> "container", of |-> t]
TupleType(ts) == [is |-> "tuple", parts |-> ts]

Scalar(t) == t.is \in {"number", "text", "boolean"}
IsContainer(t) == t.is = "container"
IsTuple(t) == t.is = "tuple"

Total(f, ts) == FoldLeft(LAMBDA n, i : n + f[i], 0, [i \in DOMAIN ts |-> i])

\* type_count_base.
RECURSIVE TypeCountBase(_)
TypeCountBase(t) ==
    IF IsContainer(t) THEN TypeCountBase(t.of) ELSE IF IsTuple(t) THEN Len(t.parts) ELSE 1

\* type_count and subtype_count.
RECURSIVE TypeCount(_)
SubtypeCount(t, count) == IF IsContainer(t) THEN ExpectedMaxVectorSize ELSE count
TypeCount(t) ==
    LET sub(u) == SubtypeCount(u, IF IsContainer(u) THEN 0 ELSE TypeCount(u))
    IN  CASE t.is = "complex"   -> 2
          [] t.is = "container" -> sub(t.of)
          [] t.is = "wrapper"   -> TypeCount(t.of)
          [] t.is = "tuple"     -> Total([i \in DOMAIN t.parts |-> sub(t.parts[i])], t.parts)
          [] OTHER              -> 1

\* type_count_min and subtype_count_min.
RECURSIVE TypeCountMin(_)
SubtypeCountMin(t) ==
    IF ~IsContainer(t) THEN TypeCountMin(t)
    ELSE IF TypeCount(t) < ExpectedMaxVectorSize THEN TypeCount(t) ELSE 0
TypeCountMin(t) ==
    CASE t.is \in {"container", "wrapper"} -> SubtypeCountMin(t.of)
      [] t.is = "tuple" -> Total([i \in DOMAIN t.parts |-> SubtypeCountMin(t.parts[i])], t.parts)
      [] OTHER -> 1

\* expected_count.
RECURSIVE ExpectedCount(_)
ExpectedCount(t) ==
    IF IsContainer(t) THEN ExpectedMaxVectorSize
    ELSE IF t.is = "wrapper" THEN ExpectedCount(t.of) ELSE 1

-----------------------------------------------------------------------------

EmptyVec == <<"{", "}">>
EndMark == <<"%", "%">>
IsSeparator(s) == s = <<>> \/ s = EndMark

\* The values of several conversions, if none of them failed.
All(converted) ==
    IF \E i \in DOMAIN converted : converted[i] = Failed THEN Failed
    ELSE <<[i \in DOMAIN converted |-> converted[i][1]]>>

\* A complex number in one string: 1+2i, 2i or 1; what a stream would read, (1,2),
\* is left out.
ComplexCast(s, part) ==
    LET signs  == { i \in 2..Len(s) : s[i] \in {"+", "-"} }
        bare(t) == IF t # <<>> /\ Last(t) \in {"i", "j"} THEN Front(t) ELSE t
        re == IF signs # {} THEN SubSeq(s, 1, Max(signs) - 1)
              ELSE IF bare(s) # s THEN <<"0">> ELSE s
        im == IF signs # {} THEN bare(From(s, Max(signs)))
              ELSE IF bare(s) # s THEN bare(s) ELSE <<"0">>
    IN  All(<<Integral(re, part.bits, part.signed), Integral(im, part.bits, part.signed)>>)

\* lexical_cast, for the types that one string gives.
RECURSIVE LexicalCast(_, _)
LexicalCast(s, t) ==
    CASE t.is = "number"  -> Integral(s, t.bits, t.signed)
      [] t.is = "boolean" -> Boolean(s)
      [] t.is = "complex" -> ComplexCast(s, t.of)
      [] t.is = "wrapper" -> All(<<LexicalCast(s, t.of)>>)
      [] t.is = "text"    -> <<s>>

\* A value that is default constructed.
RECURSIVE Blank(_)
Blank(t) ==
    CASE t.is = "number"  -> 0
      [] t.is = "boolean" -> FALSE
      [] t.is = "complex" -> <<0, 0>>
      [] t.is = "tuple"   -> [i \in DOMAIN t.parts |-> Blank(t.parts[i])]
      [] OTHER            -> <<>>

\* lexical_assign: an empty string is a default value, but for a text.
LexicalAssign(s, t) == IF s = <<>> /\ t.is # "text" THEN <<Blank(t)>> ELSE LexicalCast(s, t)

RECURSIVE Conversion(_, _)

\* tuple_type_conversion: the value of one part, and the strings left.  A part
\* of fixed size takes what it needs, another one goes to a separator.
FixedPart(strings, t, size) ==
    [value |-> IF size = 1 THEN LexicalAssign(strings[1], t) ELSE Conversion(strings, t),
     rest  |-> From(strings, size + 1)]
OpenPart(strings, t, least, most) ==
    LET index == Min({ i \in least..most : i = most \/ IsSeparator(strings[i + 1]) } \cup {Max({least, most})})
    IN  [value |-> Conversion(SubSeq(strings, 1, index), t), rest |-> From(strings, index + 2)]
PartConversion(strings, t) ==
    IF ~IsContainer(t) /\ TypeCount(t) = TypeCountMin(t) THEN FixedPart(strings, t, TypeCount(t))
    ELSE OpenPart(strings, t, SubtypeCountMin(t),
                  Min({SubtypeCount(t, IF IsContainer(t) THEN 0 ELSE TypeCount(t)), Len(strings) - 1}))

\* tuple_conversion: parts without strings keep their default values.
RECURSIVE TupleConversion(_, _)
BeforeOthers(part, ts) == <<part.value>> \o TupleConversion(part.rest, ts)
TupleConversion(strings, ts) ==
    IF ts = <<>> THEN <<>>
    ELSE IF strings = <<>> THEN <<<<Blank(Head(ts))>>>> \o TupleConversion(strings, Tail(ts))
    ELSE BeforeOthers(PartConversion(strings, Head(ts)), Tail(ts))

\* A container whose elements are pairs.
RECURSIVE PairsConversion(_, _)
PairOf(one, two, ts) == <<All(<<one.value, two.value>>)>> \o PairsConversion(two.rest, ts)
PairFrom(one, ts) ==
    IF one.rest = <<>> THEN <<Failed>> ELSE PairOf(one, PartConversion(one.rest, ts[2]), ts)
PairsConversion(strings, ts) ==
    IF strings = <<>> THEN <<>> ELSE PairFrom(PartConversion(strings, ts[1]), ts)

\* A container whose elements take several strings, up to size or a separator.
RECURSIVE ChunksConversion(_, _, _)
ChunksConversion(strings, t, size) ==
    IF strings = <<>> THEN <<>>
    ELSE LET end   == Min({ i \in DOMAIN strings : IsSeparator(strings[i]) } \cup {size, Len(strings)})
             chunk == IF size > TypeCountMin(ContainerType(t)) /\ IsSeparator(strings[end])
                      THEN SubSeq(strings, 1, end - 1) ELSE SubSeq(strings, 1, end)
         IN  <<Conversion(chunk, t)>> \o ChunksConversion(From(strings, end + 1), t, size)

ContainerConversion(strings, t) ==
    LET size == TypeCount(ContainerType(t))
    IN  IF strings = <<>> THEN <<<<>>>>
        ELSE IF size = 1
        THEN IF strings = <<EmptyVec>> THEN <<<<>>>>
             ELSE IF Len(strings) = 2 /\ strings[1] = EmptyVec /\ IsSeparator(strings[2])
             THEN All(<<LexicalAssign(EmptyVec, t)>>)
             ELSE All([i \in DOMAIN strings |-> LexicalAssign(strings[i], t)])
        ELSE IF TypeCountBase(t) = 2 THEN All(PairsConversion(strings, t.parts))
        ELSE All(ChunksConversion(strings, t, size))

\* lexical_conversion.
Conversion(strings, t) ==
    CASE Scalar(t) -> LexicalAssign(strings[1], t)
      [] t.is = "complex" ->
            IF Len(strings) >= 2 /\ strings[2] # <<>>
            THEN LET im == IF Last(strings[2]) \in {"i", "j"} THEN Front(strings[2]) ELSE strings[2]
                 IN  All(<<LexicalCast(strings[1], t.of), LexicalCast(im, t.of)>>)
            ELSE LexicalAssign(strings[1], t)
      [] t.is = "wrapper" ->
            IF strings = <<>> \/ strings[1] = <<>> THEN <<<<>>>> ELSE All(<<Conversion(strings, t.of)>>)
      [] t.is = "tuple" /\ Len(t.parts) = 2 /\ TypeCount(t) <= 2 ->
            All(<<LexicalAssign(strings[1], t.parts[1]),
                  LexicalAssign(IF Len(strings) > 1 THEN strings[2] ELSE <<>>, t.parts[2])>>)
      [] t.is = "tuple" /\ ~(Len(t.parts) = 2 /\ TypeCount(t) <= 2) -> All(TupleConversion(strings, t.parts))
      [] t.is = "container" -> ContainerConversion(strings, t.of)
=============================================================================
