----------------------------- MODULE ConfigReader ----------------------------
(***************************************************************************)
(* ConfigBase::from_config: how the lines of a configuration file become a *)
(* list of items, the openings and closings of sections among them.  A     *)
(* line is a record of what the reader tells apart; where one begins an    *)
(* array, a text or a comment of several lines, the lines after it only    *)
(* matter by how they end.  Pure; the loop over the lines is in ConfigFile.*)
(***************************************************************************)
EXTENDS Integers, FiniteSets, SequencesExt

CONSTANTS
    Segments,       \* what section and option names are made of
    Values          \* the arguments an entry may hold

Separator == "%%"   \* between vectors of vectors
Blank == ""         \* the empty argument
Invalid == "invalid" \* one whose escapes process_quoted_string refuses

ASSUME ReaderAssumption ==
    /\ Separator \notin Values /\ {Blank, Invalid} \subseteq Values
    /\ {"++", "--"} \cap Segments = {}

Quotes == {"double", "single"}
Endings == Quotes \cup {"bracket", "other"}
Paths == Seq(Segments \cup {""})      \* "" is an option group
Default == <<>>     \* the path of the section [default]

\* kind: what the line is when no array, text or comment is open.  path: of a
\* header or an entry.  closed: the comment, array or text ends on its line.
LineKinds == {"short", "comment", "quotes", "header", "entry", "array", "text"}
LineType ==
    { l \in [kind : LineKinds, path : Paths, quote : Quotes, closed : BOOLEAN,
            inputs : Seq(Values), ends : Endings] :
        l.kind \in {"entry", "array", "text"} => l.path # <<>> }

\* How the reader was set up: configSection ("" for none), configIndex,
\* maximumLayers and allowMultipleDuplicateFields.
ReaderType ==
    [section : Segments \cup {""}, index : Int, layers : Nat, duplicates : BOOLEAN]
Whole(reader) == reader.section = ""    \* every section is read

\* A ConfigItem.  origin remembers the section, and its number among equal
\* headers in a row, that an entry was read in.
ItemType ==
    [parents : Paths, name : Segments \cup {"", "++", "--"},
     inputs : Seq(Values \cup {Separator}), multiline : BOOLEAN,
     origin : Paths \X Nat]

Entry(parents, name, inputs, origin) ==
    [parents |-> parents, name |-> name, inputs |-> inputs, multiline |-> FALSE,
     origin |-> origin]
Opens(p) == Entry(p, "++", <<>>, <<Default, 0>>)
Closes(p) == Entry(p, "--", <<>>, <<Default, 0>>)

\* The elements of s that are in T, in order.
Kept(s, T) == FlattenSeq([i \in DOMAIN s |-> IF s[i] \in T THEN <<s[i]>> ELSE <<>>])

Prefix(p, n) == SubSeq(p, 1, n)

\* The prefixes of p of the lengths m to n, going up, and from m down to n.
OpensUp(p, m, n) == [i \in 1..(IF m > n THEN 0 ELSE n - m + 1) |-> Opens(Prefix(p, m + i - 1))]
ClosesDown(p, m, n) == [i \in 1..(IF n > m THEN 0 ELSE m - n + 1) |-> Closes(Prefix(p, m - i + 1))]

Common(p, q, n) ==
    CHOOSE k \in 0..n :
        /\ Prefix(p, k) = Prefix(q, k)
        /\ k = n \/ p[k + 1] # q[k + 1]

\* Mutated form: the parents that the old and the new section share are
\* closed and not opened again.
SectionOpenedAll(output, p) ==
    LET n    == Len(p)
        q    == Last(output).parents
        left == IF Len(q) > n THEN n ELSE Len(q)
    IN  IF output = <<>> \/ Last(output).name # "--" THEN output \o OpensUp(p, 1, n)
        ELSE output \o ClosesDown(q, Len(q) - 1, 1)
                \o OpensUp(p, Common(q, p, left) + 1, n)

\* detail::checkParentSegments.  If the last section has just been closed,
\* close its parents up to those that it shares with the new section p.
SectionOpened(output, p) ==
    LET n     == Len(p)
        level == IF n > 1 THEN n ELSE 2
        q     == Last(output).parents
        m     == IF Len(q) >= level THEN level - 1 ELSE Len(q)
        up    == output \o ClosesDown(q, Len(q) - 1, level - 1)
        k     == Common(q, p, IF m > n - 1 THEN n - 1 ELSE m)
        shared == IF k = m THEN Front(up) ELSE up \o ClosesDown(q, m - 1, k + 1)
    IN  IF output = <<>> \/ Last(output).name # "--" THEN output \o OpensUp(p, 1, n)
        ELSE IF n = 1 THEN up \o <<Opens(p)>>
        ELSE shared \o OpensUp(p, k + 1, n)

\* A new header: the section before it is closed, unless it is [default].
SectionLeft(output, section) ==
    IF section = Default THEN output ELSE Append(output, Closes(section))
Headed(output, section, p) ==
    IF p = Default THEN SectionLeft(output, section)
    ELSE SectionOpened(SectionLeft(output, section), p)

\* Mutated form: the last section itself is not closed.
SectionsEndedAbove(output, section) ==
    IF section = Default THEN output
    ELSE output \o ClosesDown(section, Len(section) - 1, 1)

\* At the end of the file.
SectionsEnded(output, section) ==
    IF section = Default THEN output
    ELSE output \o ClosesDown(section, Len(section), 1)

-----------------------------------------------------------------------------

\* detail::find_matching_config: the last item, or any one from the end on.
Matching(output, parents, name, all) ==
    { i \in (IF all THEN 1 ELSE Len(output))..Len(output) :
        i > 0 /\ output[i].parents = parents /\ output[i].name = name }

\* A separator is put between two lines of one field.
Separated(old, new, all) ==
    /\ (Len(old) > 1 /\ Len(new) > 1) \/ all
    /\ {Last(old), Head(new)} \cap {Blank, Separator} = {}

\* What an entry adds to the items.
Added(output, parents, name, inputs, origin, all) ==
    LET found == Matching(output, parents, name, all)
        i     == CHOOSE j \in found : \A k \in found : k <= j
        new   == Separated(output[i].inputs, inputs, all)
    IN  IF found = {} THEN Append(output, Entry(parents, name, inputs, origin))
        ELSE [output EXCEPT
                ![i].inputs = IF new THEN @ \o <<Separator>> \o inputs ELSE @ \o inputs,
                ![i].multiline = @ \/ new]

\* Mutated form: an entry of another section of the same name is taken, too.
ChosenAnyIndex(reader, at, parents) ==
    IF Whole(reader) \/ at.inSection THEN TRUE
    ELSE parents # <<>> /\ Head(parents) = reader.section

\* With configSection set, the first entry after a header decides whether the
\* section is the one to be read; its name is taken off that entry alone.
Chosen(reader, at, parents) ==
    IF Whole(reader) \/ at.inSection THEN TRUE
    ELSE /\ parents # <<>> /\ Head(parents) = reader.section
         /\ reader.index >= 0 => at.index = reader.index
Stripped(reader, at, parents) ==
    IF Whole(reader) \/ at.inSection THEN parents ELSE Tail(parents)
=============================================================================
