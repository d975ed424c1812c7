------------------------------ MODULE Numbers --------------------------------
(***************************************************************************)
(* Texts as numbers: the conversions of TypeTools to signed and unsigned   *)
(* integers, to Booleans and to flag values, and the multiplication that   *)
(* notices an overflow.  A conversion gives <<>> when it fails and <<n>>   *)
(* when it succeeds.  Integers have the widths the constants give them.    *)
(***************************************************************************)
EXTENDS Text

CONSTANTS
    LongBits,   \* of the integers that strtoll and strtoull return
    IntBits     \* of an int

ASSUME NumbersAssumption == LongBits \in 2..31 /\ IntBits \in 4..31

Failed == <<>>

Lowest(bits, signed) == IF signed THEN -(2 ^ (bits - 1)) ELSE 0
Highest(bits, signed) == IF signed THEN 2 ^ (bits - 1) - 1 ELSE 2 ^ bits - 1
Fits(n, bits, signed) == n \in Lowest(bits, signed)..Highest(bits, signed)

DigitOrder == <<"0", "1", "2", "3", "4", "5", "6", "7", "8", "9", "a", "b", "c", "d", "e", "f">>
DigitValue(c) == (CHOOSE i \in DOMAIN DigitOrder : DigitOrder[i] = c) - 1
DigitsOf(base) == { DigitOrder[i] : i \in 1..base }
ValueOf(digits, base) == FoldLeft(LAMBDA n, c : n * base + DigitValue(c), 0, digits)

\* Decimal digits of a number, as detail::to_string gives them.
Numeral(n) ==
    LET digits[k \in Nat] == (IF k > 9 THEN digits[k \div 10] ELSE <<>>) \o <<DigitOrder[(k % 10) + 1]>>
    IN  IF n < 0 THEN <<"-">> \o digits[-n] ELSE digits[n]

\* strtoll and strtoull: spaces, a sign, a prefix if base is 0, digits.  end is
\* the place after the last digit, 1 if there is none; the second wraps a
\* negative number round.
SignAt(s, i) == i <= Len(s) /\ s[i] \in {"-", "+"}
HexAt(s, i, base) ==
    base = 0 /\ i + 2 <= Len(s) /\ s[i] = "0" /\ s[i + 1] = "x" /\ s[i + 2] \in HexDigits
Radix(s, i, base) ==
    IF base # 0 THEN base ELSE IF HexAt(s, i, base) THEN 16
    ELSE IF i <= Len(s) /\ s[i] = "0" THEN 8 ELSE 10
Read(n, size, end, signed) ==
    [n |-> IF signed THEN n ELSE n % (2 ^ LongBits), end |-> end,
     range |-> ~Fits(IF signed THEN n ELSE size, LongBits, signed)]
Signed(size, minus, end, signed) == Read(IF minus THEN -size ELSE size, size, end, signed)
DigitsAt(s, from, radix, minus, signed) ==
    LET end == FirstOf(s, from, ToSet(s) \ DigitsOf(radix))
    IN  IF end = from THEN [n |-> 0, end |-> 1, range |-> FALSE]
        ELSE Signed(ValueOf(SubSeq(s, from, end - 1), radix), minus, end, signed)
StrTo(s, base, signed) ==
    LET start == FirstOf(s, 1, ToSet(s) \ Spaces)
        first == IF SignAt(s, start) THEN start + 1 ELSE start
    IN  DigitsAt(s, IF HexAt(s, first, base) THEN first + 2 ELSE first, Radix(s, first, base),
                 SignAt(s, start) /\ s[start] = "-", signed)

-----------------------------------------------------------------------------

\* get_group_separators in the C locale.
Separators == {"_", Literal, ","}
TrueText == <<"t", "r", "u", "e">>

\* A cast to a type of bits bits keeps the low ones.
Cast(n, bits, signed) ==
    LET low == n % (2 ^ bits) IN IF signed /\ low > Highest(bits, TRUE) THEN low - 2 ^ bits ELSE low
\* Mutated form: the number is cast, and not compared with what it was.
WholeCast(s, r, bits, signed) ==
    IF ~r.range /\ r.end > Len(s) THEN <<Cast(r.n, bits, signed)>> ELSE Failed
Whole(s, r, bits, signed) ==
    IF ~r.range /\ r.end > Len(s) /\ Cast(r.n, bits, signed) = r.n THEN <<r.n>> ELSE Failed

\* Behind a zero: octal and binary, which strtoll and strtoull do not know; the
\* C library is one from before C23.
OctalMarks == {"o", "O"}
BinaryMarks == {"b", "B"}
Marked(s) == Len(s) >= 2 /\ s[1] = "0" /\ s[2] \in OctalMarks \cup BinaryMarks

\* integral_conversion, signed and unsigned, of a text that strtoll or strtoull
\* read as r.
RECURSIVE Integral(_, _, _)
Prefixed(s, base, bits, signed) == Whole(s, StrTo(s, base, signed), bits, signed)
Understood(s, r, bits, signed) ==
    LET minus == ~signed /\ IsPrefix(<<"-">>, Trim(s))
    IN  IF s = <<>> \/ minus \/ r.range THEN Failed
        ELSE IF r.end > Len(s) THEN Whole(s, r, bits, signed)
        ELSE IF signed /\ s = TrueText THEN <<1>>
        ELSE IF ToSet(s) \cap Separators # {}
        THEN Integral(SelectSeq(s, LAMBDA c : c \notin Separators), bits, signed)
        ELSE IF Last(s) \in Spaces THEN Integral(Trim(s), bits, signed)
        ELSE IF Marked(s)
        THEN Prefixed(From(s, 3), IF s[2] \in OctalMarks THEN 8 ELSE 2, bits, signed)
        ELSE Failed
Integral(s, bits, signed) == Understood(s, StrTo(s, 0, signed), bits, signed)

\* Of the capitals, the alphabet has these.
Capital == [c \in {"A", "N", "O"} |-> CASE c = "A" -> "a" [] c = "N" -> "n" [] c = "O" -> "o"]
Lower(s) == [i \in DOMAIN s |-> IF s[i] \in DOMAIN Capital THEN Capital[s[i]] ELSE s[i]]

Affirmative == {TrueText, <<"o", "n">>, <<"y", "e", "s">>, <<"e", "n", "a", "b", "l", "e">>}
Negative == {<<"f", "a", "l", "s", "e">>, <<"o", "f", "f">>, <<"n", "o">>,
             <<"d", "i", "s", "a", "b", "l", "e">>}

\* to_flag_value, and what its caller makes of errno.
FlagOf(s, r) ==
    IF Len(s) = 1
    THEN IF s[1] \in Digits \ {"0"} THEN <<DigitValue(s[1])>>
         ELSE IF s[1] \in {"0", "f", "n", "-"} THEN <<-1>>
         ELSE IF s[1] \in {"t", "y", "+"} THEN <<1>> ELSE Failed
    ELSE IF s \in Affirmative THEN <<1>>
    ELSE IF s \in Negative THEN <<-1>>
    ELSE IF r.range THEN <<IF r.n < 0 THEN -1 ELSE 1>>
    ELSE IF r.end <= Len(s) THEN Failed ELSE <<r.n>>
FlagValue(text) == FlagOf(Lower(text), StrTo(Lower(text), 0, TRUE))
\* lexical_cast to bool.
Boolean(s) == IF FlagValue(s) = Failed THEN Failed ELSE <<FlagValue(s)[1] > 0>>

-----------------------------------------------------------------------------

\* overflowCheck: C++ divides towards zero.
Abs(n) == IF n < 0 THEN -n ELSE n
OverflowCheck(a, b, bits) ==
    IF (a > 0) = (b > 0) THEN Highest(bits, TRUE) \div Abs(a) < Abs(b)
    ELSE (-Lowest(bits, TRUE)) \div Abs(a) < Abs(b)
\* Mutated form: the product keeps its low bits.
MultiplyWrapped(a, b, bits) == <<Cast(a * b, bits, TRUE)>>
CheckedMultiply(a, b, bits) ==
    IF {a, b} \cap {0, 1} # {} THEN <<a * b>>
    ELSE IF Lowest(bits, TRUE) \in {a, b} \/ OverflowCheck(a, b, bits) THEN Failed
    ELSE <<a * b>>

\* detail::expected_max_vector_size, which is 2^29 for an int of 32 bits.
ExpectedMaxVectorSize == 2 ^ (IntBits - 3)
=============================================================================
