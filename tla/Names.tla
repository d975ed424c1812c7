-------------------------------- MODULE Names -------------------------------
(***************************************************************************)
(* How Options and Apps answer to names.  A name is written without its    *)
(* dashes; what lower case and underscores do to it is given by functions. *)
(***************************************************************************)
EXTENDS Integers, SequencesExt

CONSTANTS
    Names,          \* the names a program gives
    LowerCase,      \* detail::to_lower
    NoUnderscore,   \* detail::remove_underscore
    OneLetter,      \* the names of one character
    Abbreviations   \* the pairs <<p, n>> where p is the proper beginning of n

NoName == ""

ASSUME NamesAssumption ==
    /\ NoName \notin Names
    /\ LowerCase \in [Names -> Names]
    /\ NoUnderscore \in [Names -> Names]
    /\ \A n \in Names : LowerCase[NoUnderscore[n]] = NoUnderscore[LowerCase[n]]
    /\ OneLetter \subseteq Names
    /\ Abbreviations \subseteq Names \X Names

\* snames_, lnames_, pname_ and envname_ of an Option, and what changes how they
\* match.
OptionNames ==
    [short : SUBSET Names, long : SUBSET Names,
     positional : Names \cup {NoName}, env : Names \cup {NoName},
     ignoreCase : BOOLEAN, ignoreUnderscore : BOOLEAN, configurable : BOOLEAN]

Unflagged(n, ignoreCase, ignoreUnderscore) ==
    LET m == IF ignoreUnderscore THEN NoUnderscore[n] ELSE n
    IN  IF ignoreCase THEN LowerCase[m] ELSE m

\* detail::find_member.
FindMember(n, S, ignoreCase, ignoreUnderscore) ==
    \E m \in S : Unflagged(m, ignoreCase, ignoreUnderscore)
                    = Unflagged(n, ignoreCase, ignoreUnderscore)

CheckShort(o, n) == FindMember(n, o.short, o.ignoreCase, FALSE)
CheckLong(o, n) == FindMember(n, o.long, o.ignoreCase, o.ignoreUnderscore)

NonPositional(o) == o.short # {} \/ o.long # {}

\* What is asked for with two dashes, with one and with none.
Queries == {"long", "short", "bare"} \X Names

\* Option::check_name.  The name of the environment variable is asked for
\* without dashes too, and is never folded.
CheckName(o, q) ==
    \/ q[1] = "long" /\ CheckLong(o, q[2])
    \/ q[1] = "short" /\ CheckShort(o, q[2])
    \/ /\ q[1] = "bare"
       /\ \/ /\ o.positional # NoName
             /\ FindMember(q[2], {o.positional}, o.ignoreCase, o.ignoreUnderscore)
          \/ q[2] = o.env

\* Mutated form: names of options that ignore case are not compared again.
MatchesOneWay(o, p) ==
    LET both == o.configurable /\ p.configurable
    IN  \/ \E n \in o.short : CheckShort(p, n) \/ (both /\ CheckLong(p, n))
        \/ \E n \in o.long :
                CheckLong(p, n) \/ (both /\ n \in OneLetter /\ CheckShort(p, n))

\* Option::matching_name finds a name.  A flag has no positional name, so that
\* the test of fnames_ beside p.short is always met.
Matches(o, p) ==
    LET both == o.configurable /\ p.configurable
        positionalOf(x, y) ==
            /\ x.positional # NoName
            /\ \/ CheckShort(y, x.positional)
               \/ CheckLong(y, x.positional)
               \/ x.positional = y.positional
    IN  \/ \E n \in o.short : CheckShort(p, n) \/ (both /\ CheckLong(p, n))
        \/ \E n \in o.long :
                CheckLong(p, n) \/ (both /\ n \in OneLetter /\ CheckShort(p, n))
        \/ both /\ ~NonPositional(o) /\ positionalOf(o, p)
        \/ both /\ p.short = {} /\ positionalOf(p, o)
        \/ /\ o.ignoreCase \/ o.ignoreUnderscore
           /\ \/ \E n \in p.short : CheckShort(o, n)
              \/ \E n \in p.long : CheckLong(o, n)

\* One of the two answers to a short or long name of the other.
Shadows(o, p) ==
    \/ \E n \in o.short : CheckShort(p, n)
    \/ \E n \in p.short : CheckShort(o, n)
    \/ \E n \in o.long : CheckLong(p, n)
    \/ \E n \in p.long : CheckLong(o, n)

-----------------------------------------------------------------------------
(* Apps: x has a name, which an option group leaves empty, and aliases.    *)

AppNames ==
    [name : Names \cup {NoName}, aliases : Seq(Names),
     ignoreCase : BOOLEAN, ignoreUnderscore : BOOLEAN, prefix : BOOLEAN]

Known(x) == ({x.name} \ {NoName}) \cup ToSet(x.aliases)

\* App::check_name_detail, exact and prefix.
ExactMatch(x, n) == FindMember(n, Known(x), x.ignoreCase, x.ignoreUnderscore)

PrefixMatch(x, n) ==
    /\ x.prefix
    /\ \E m \in Known(x) :
        <<Unflagged(n, x.ignoreCase, x.ignoreUnderscore),
          Unflagged(m, x.ignoreCase, x.ignoreUnderscore)>> \in Abbreviations

CheckAppName(x, n) == ExactMatch(x, n) \/ PrefixMatch(x, n)

\* What App::_compare_subcommand_names tests of one pair of Apps.
Collide(x, y) ==
    \/ \E n \in Known(x) : CheckAppName(y, n)
    \/ \E n \in Known(y) : CheckAppName(x, n)

\* The same for whole names only.
SameName(x, y) ==
    \/ \E n \in Known(x) : ExactMatch(y, n)
    \/ \E n \in Known(y) : ExactMatch(x, n)
=============================================================================
