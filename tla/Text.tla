-------------------------------- MODULE Text ---------------------------------
(***************************************************************************)
(* The string tools that the values of a configuration file go through:    *)
(* quoting and escaping when they are written, splitting at delimiters     *)
(* outside quotes and brackets and unquoting when they are read.  A string *)
(* is a sequence of characters, since what these functions promise is      *)
(* about characters; Control stands for one that is not printable.         *)
(***************************************************************************)
EXTENDS Integers, SequencesExt

CONSTANTS
    Control,
    Long        \* above this length a text to escape is written over several lines

ASSUME TextAssumption == Control = "^" /\ Long \in Nat

Quote == "\""
Literal == "'"
Escape == "\\"
Newline == "\n"
Backtick == "~"  \* stands for the character itself, which TLA+ strings cannot hold
Spaces == {" ", "\t", Newline}
Digits == {"0", "1", "2", "3", "4", "5", "6", "7", "8", "9"}
HexDigits == Digits \cup {"a", "b", "c", "d", "e", "f"}

\* bracketChars and matchBracketChars.
Openers == <<Quote, Literal, Backtick, "[", "(", "<", "{">>
Closers == <<Quote, Literal, Backtick, "]", ")", ">", "}">>
Opening(c) == c \in ToSet(Openers)
Closing(c) == Closers[CHOOSE i \in DOMAIN Openers : Openers[i] = c]

\* What remove_escaped_characters throws, in the place of a string.
Thrown == <<"throws">>

From(s, i) == SubSeq(s, i, Len(s))
Has(s, c) == c \in ToSet(s)
Trim(s) ==
    LET ink == { i \in DOMAIN s : s[i] \notin Spaces }
    IN  IF ink = {} THEN <<>> ELSE SubSeq(s, Min(ink), Max(ink))
TrimRight(s) ==
    LET ink == { i \in DOMAIN s : s[i] \notin Spaces }
    IN  IF ink = {} THEN <<>> ELSE SubSeq(s, 1, Max(ink))
\* The first place from i on of a character in set, or the end of s.
FirstOf(s, i, set) == Min({ j \in i..Len(s) : s[j] \in set } \cup {Len(s) + 1})
Inner(s) == SubSeq(s, 2, Len(s) - 1)
Between(s, c) == Len(s) > 1 /\ Head(s) = c /\ Last(s) = c

-----------------------------------------------------------------------------
(* Escapes.                                                                *)

Code == [c \in {Newline, "\t", Quote, Escape} |->
            CASE c = Newline -> "n" [] c = "\t" -> "t" [] OTHER -> c]
Escapable(s) == ToSet(s) \cap DOMAIN Code # {}

\* Mutated form: the escape character is not escaped.
AddEscapedSome(s) ==
    FlattenSeq([i \in DOMAIN s |->
        IF s[i] \in DOMAIN Code \ {Escape} THEN <<Escape, Code[s[i]]>> ELSE <<s[i]>>])
AddEscaped(s) ==
    FlattenSeq([i \in DOMAIN s |->
        IF s[i] \in DOMAIN Code THEN <<Escape, Code[s[i]]>> ELSE <<s[i]>>])

\* The codes of Unicode characters are not in the alphabet: \u and \U throw.
RemoveEscaped(s) ==
    LET plain[i \in Nat] ==
            IF i > Len(s) THEN <<>>
            ELSE IF s[i] # Escape
            THEN LET r == plain[i + 1] IN IF r = Thrown THEN r ELSE <<s[i]>> \o r
            ELSE IF i = Len(s) \/ (\A c \in DOMAIN Code : Code[c] # s[i + 1]) THEN Thrown
            ELSE LET r == plain[i + 2]
                 IN  IF r = Thrown THEN r
                     ELSE <<CHOOSE c \in DOMAIN Code : Code[c] = s[i + 1]>> \o r
    IN  plain[1]

\* The codes of what binary_escape_string writes as \x..
Hex == [c \in {Control, Newline, "\t", Literal, "x"} |->
            CASE c = Control -> <<"0", "1">> [] c = Newline -> <<"0", "a">>
              [] c = "\t" -> <<"0", "9">> [] c = Literal -> <<"2", "7">>
              [] c = "x" -> <<"7", "8">>]
HexOf(c) == <<Escape, "x">> \o Hex[c]

\* binary_escape_string: an x after a backslash is escaped, too.
BinaryEscaped(s, force) ==
    LET step(out, c) ==
            IF c \in {Control, Newline, "\t"} \/ (c = "x" /\ out # <<>> /\ Last(out) = Escape)
            THEN out \o HexOf(c) ELSE Append(out, c)
        escaped == FoldLeft(step, <<>>, s)
        inner   == FlattenSeq([i \in DOMAIN escaped |->
                        IF escaped[i] = Literal THEN HexOf(Literal) ELSE <<escaped[i]>>])
    IN  IF escaped # s \/ force THEN <<Literal, "B", Quote, "(">> \o inner \o <<")", Quote, Literal>>
        ELSE s

BinaryOpen(s) ==
    IF IsPrefix(<<"B", Quote, "(">>, s) /\ IsSuffix(<<")", Quote>>, s) THEN 3
    ELSE IF IsPrefix(<<Literal, "B", Quote, "(">>, s) /\ IsSuffix(<<")", Quote, Literal>>, s) THEN 4
    ELSE 0

\* extract_binary_string.
BinaryExtracted(s) ==
    LET last == Len(s) - BinaryOpen(s) + 1
        out[i \in Nat] ==
            IF i > last THEN <<>>
            ELSE IF \E c \in DOMAIN Hex : SubSeq(s, i, i + 3) = HexOf(c)
            THEN <<CHOOSE c \in DOMAIN Hex : SubSeq(s, i, i + 3) = HexOf(c)>> \o out[i + 4]
            ELSE <<s[i]>> \o out[i + 1]
    IN  out[BinaryOpen(s) + 1]

-----------------------------------------------------------------------------
(* Splitting.                                                              *)

\* close_string_quote: the place of the closing quote; a character after a
\* backslash does not close.
CloseString(s, start) ==
    LET close[i \in Nat] ==
            IF i > Len(s) \/ s[i] = Quote THEN i
            ELSE IF s[i] = Escape THEN close[i + 2] ELSE close[i + 1]
    IN  close[start + 1]
CloseLiteral(s, start) == FirstOf(s, start + 1, {s[start]})

\* close_sequence: brackets nest, quotes in them are passed over.
CloseSequence(s, start) ==
    LET passed(i) ==
            IF s[i] = Quote THEN CloseString(s, i)
            ELSE IF s[i] \in {Literal, Backtick} THEN CloseLiteral(s, i) ELSE i
        close[i \in Nat, open \in Seq(ToSet(Closers))] ==
            IF i > Len(s) THEN i
            ELSE LET left == IF s[i] = Last(open) THEN Front(open) ELSE open
                 IN  IF left = <<>> THEN i
                     ELSE close[passed(i) + 1,
                                IF Opening(s[i]) /\ s[i] \notin {Quote, Literal, Backtick}
                                THEN Append(left, Closing(s[i])) ELSE left]
    IN  IF s[start] \in {Quote, Literal, Backtick} THEN passed(start)
        ELSE close[start + 1, <<Closing(s[start])>>]

\* Mutated form: brackets and quotes are not looked at.
SplitPlain(text, ends) ==
    LET parts[i \in Nat] ==
            IF i > Len(text) THEN <<>>
            ELSE LET e == FirstOf(text, i, ends)
                 IN  <<Trim(SubSeq(text, i, e - 1))>> \o parts[e + 1]
    IN  parts[1]

\* split_up at the characters in ends.  What follows a closed quote or bracket
\* is skipped if it is a delimiter or opens another one.
SplitUp(text, ends) ==
    LET after(s, close) ==
            LET next == close + 1
            IN  IF next <= Len(s) /\ (s[next] \in ends \/ Opening(s[next]))
                THEN From(s, next + 1) ELSE From(s, next)
        parts[s \in Seq(STRING)] ==
            IF s = <<>> THEN <<>>
            ELSE LET close == IF Opening(Head(s)) THEN CloseSequence(s, 1) ELSE FirstOf(s, 1, ends)
                 IN  IF close > Len(s) THEN <<s>>
                     ELSE IF Opening(Head(s))
                     THEN <<SubSeq(s, 1, close)>> \o parts[Trim(after(s, close))]
                     ELSE <<SubSeq(s, 1, close - 1)>> \o parts[Trim(From(s, close + 1))]
    IN  parts[Trim(text)]

\* detail::split.
Split(s, delimiter) ==
    LET parts[i \in Nat] ==
            LET e == FirstOf(s, i, {delimiter})
            IN  <<SubSeq(s, i, e - 1)>> \o (IF e > Len(s) THEN <<>> ELSE parts[e + 1])
    IN  parts[1]

-----------------------------------------------------------------------------
(* Arguments in a file.                                                    *)

\* handle_secondary_array: a string that looks like an array is marked, each
\* character doubled, and _add_result takes the mark off.
Protected(s) ==
    IF Len(s) < 2 \/ Head(s) # "[" \/ Last(s) # "]" THEN s
    ELSE <<"[", "[">> \o FlattenSeq([i \in 1..(Len(s) - 1) |-> <<s[i + 1], s[i + 1]>>])
IsProtected(s) ==
    /\ Len(s) >= 4 /\ IsPrefix(<<"[", "[">>, s) /\ IsSuffix(<<"]", "]">>, s)
    /\ \A i \in 3..(Len(s) - 2) : i % 2 = 1 => s[i] = s[i + 1]
Unprotected(s) == <<"[">> \o [i \in 1..((Len(s) - 3) \div 2) |-> s[2 * i + 1]] \o <<"]">>

\* process_quoted_string.
Unquoted(s) ==
    IF Len(s) <= 1 THEN s
    ELSE IF BinaryOpen(s) # 0 THEN Protected(BinaryExtracted(s))
    ELSE IF Between(s, Quote)
    THEN LET plain == IF Has(Inner(s), Escape) THEN RemoveEscaped(Inner(s)) ELSE Inner(s)
         IN  IF plain = Thrown THEN plain ELSE Protected(plain)
    ELSE IF Between(s, Literal) \/ Between(s, Backtick) THEN Protected(Inner(s))
    ELSE s

IsNumeral(s) ==
    LET digits == IF s # <<>> /\ Head(s) \in {"-", "+"} THEN Tail(s) ELSE s
    IN  digits # <<>> /\ ToSet(digits) \subseteq Digits
\* Numbers in other bases, which need not have digits.
IsCode(s) ==
    /\ Len(s) > 1 /\ Head(s) = "0"
    /\ \/ s[2] = "x" /\ ToSet(From(s, 3)) \subseteq HexDigits
       \/ s[2] = "o" /\ ToSet(From(s, 3)) \subseteq Digits \ {"8", "9"}
       \/ s[2] = "b" /\ ToSet(From(s, 3)) \subseteq {"0", "1"}

\* Words that are written without quotes.
Bare == {<<"t", "r", "u", "e">>, <<"f", "a", "l", "s", "e">>, <<"n", "a", "n">>, <<"i", "n", "f">>}
LiteralMark == <<Literal, Literal, Literal>>
HasPart(s, t) == \E i \in DOMAIN s : IsPrefix(t, From(s, i))

\* convert_arg_for_ini.
Written(s, inArray) ==
    IF s = <<>> THEN <<Quote, Quote>>
    ELSE IF IsNumeral(s) \/ s \in Bare THEN s
    ELSE IF Len(s) = 1
    THEN IF Head(s) \in {Control, Newline, "\t"} THEN BinaryEscaped(s, FALSE)
         ELSE IF s = <<Literal>> THEN <<Quote>> \o s \o <<Quote>>
         ELSE <<Literal>> \o s \o <<Literal>>
    ELSE IF IsCode(s) THEN s
    ELSE IF Has(s, Control) THEN BinaryEscaped(s, FALSE)
    ELSE IF ~Escapable(s) THEN <<Quote>> \o s \o <<Quote>>
    ELSE IF Len(s) <= Long \/ inArray THEN <<Quote>> \o AddEscaped(s) \o <<Quote>>
    ELSE IF HasPart(s, LiteralMark) THEN BinaryEscaped(s, TRUE)
    ELSE LiteralMark
            \o (IF Head(s) = Newline THEN <<Newline>> ELSE <<>>) \o s
            \o (IF Last(s) = Newline THEN <<Newline>> ELSE <<>>) \o LiteralMark

\* ini_join.
Joined(args) ==
    LET array == Len(args) > 1
        part(i) == (IF i > 1 THEN <<",", " ">> ELSE <<>>) \o Written(args[i], array)
        all == FlattenSeq([i \in DOMAIN args |-> part(i)])
    IN  IF array THEN <<"[">> \o all \o <<"]">> ELSE all

\* A text in three quote marks over several lines: the first is the rest of the line that
\* opens it, and an empty one does not count.
LiteralText(text) ==
    LET lines == Split(From(text, 4), Newline)
        line(i) == IF i = 1 THEN lines[i] ELSE TrimRight(lines[i])
        closes(i) == IsSuffix(LiteralMark, line(i))
        last == Min({ i \in DOMAIN lines : closes(i) } \cup {Len(lines)})
        content(i) == IF closes(i) THEN SubSeq(line(i), 1, Len(line(i)) - 3) ELSE lines[i]
        add(out, i) ==
            IF i = 1 \/ (i = 2 /\ out = <<>>) THEN out \o content(i)
            ELSE out \o <<Newline>> \o content(i)
        out == FoldLeft(add, <<>>, [i \in 1..last |-> i])
    IN  IF last > 1 /\ closes(last) /\ out # <<>> /\ Last(out) = Newline THEN Front(out) ELSE out

\* from_config: what stands after the delimiter, up to a comment, as a list of
\* arguments that are still quoted.
ItemsIn(item) ==
    IF item # <<>> /\ Head(item) = "["
    THEN SplitUp(IF Last(item) = "]" THEN Inner(item) ELSE Tail(item), {","})
    ELSE IF Has(item, ",") THEN SplitUp(item, {","})
    ELSE IF Has(item, " ") THEN SplitUp(item, Spaces)
    ELSE <<item>>
Items(text) ==
    IF IsPrefix(LiteralMark, Trim(text)) THEN <<LiteralText(text)>>
    ELSE ItemsIn(IF Has(text, "#") THEN Trim(Head(SplitUp(text, {"#"}))) ELSE Trim(text))

AllUnquoted(items) == [i \in DOMAIN items |-> Unquoted(items[i])]
ReadBack(text) == AllUnquoted(Items(text))
=============================================================================
