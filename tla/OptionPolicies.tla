--------------------------- MODULE OptionPolicies ---------------------------
(***************************************************************************)
(* What an Option does to the strings it collects, as pure operators:      *)
(* Option::_add_result, Option::_validate_results and                      *)
(* Option::_reduce_results.                                                *)
(*                                                                         *)
(* A string is one of a few model values; a stored result is a sequence    *)
(* of parts, each a string the user gave together with the number of       *)
(* times the validators (which may rewrite the string) have run on it.  A  *)
(* plain result has one part; Join and Sum build a result out of several.  *)
(***************************************************************************)
EXTENDS Integers, Sequences, SequencesExt, FiniteSetsExt

CONSTANTS
    Values,         \* ordinary strings a user may give
    Rejected,       \* those a validator of the option refuses
    Unconvertible,  \* those the callback cannot convert to the bound type
    Blank,          \* ""
    EmptyVec,       \* "{}", the indicator of an empty container
    EndMark         \* "%%", which follows it

Sentinels == {Blank, EmptyVec, EndMark}
Strings == Values \cup Sentinels

\* Expected maximum of an option that takes any number of arguments
\* (detail::expected_max_vector_size); any number above the results that are
\* ever stored serves.
CONSTANT Unlimited

Policies == {"Throw", "TakeLast", "TakeFirst", "Join", "TakeAll", "Sum", "Reverse"}

ASSUME StringsAssumption ==
    /\ Rejected \subseteq Values
    /\ Unconvertible \subseteq Values
    /\ Values \cap Sentinels = {}
    /\ Blank # EmptyVec /\ EmptyVec # EndMark /\ Blank # EndMark
    /\ Unlimited \in Nat \ {0, 1}

\* How many times the validators ran on a string: never, once, more than once.
Runs == 0..2
Part == [val : Strings, runs : Runs]
Item == Seq(Part)
PlainItem == [1..1 -> Part]

Stored(v, n) == <<[val |-> v, runs |-> n]>>
Fresh(v) == Stored(v, 0)

\* Mutated form: a bracketed vector is stored as one result.
AddedUnsplit(vs) == <<[i \in 1..Len(vs) |-> [val |-> vs[i], runs |-> 0]]>>

\* The strings one add_result call contributes (a bracketed vector or a
\* delimited list contributes several, an empty vector none).
Added(vs) == [i \in 1..Len(vs) |-> Fresh(vs[i])]

Holds(item, S) == \E i \in DOMAIN item : item[i].val \in S

-----------------------------------------------------------------------------
(* Validation.  opt is the record of settings described in OptionResults.  *)

\* _validate: an empty string is not validated when nothing is expected.
Exempt(opt, item) == opt.min = 0 /\ Holds(item, {Blank})

Refused(opt, item) == opt.validators /\ ~Exempt(opt, item) /\ Holds(item, Rejected)

\* The validators rewrite a string in place.
Rewritten(item) ==
    [i \in DOMAIN item |->
        [item[i] EXCEPT !.runs = IF @ = 2 THEN 2 ELSE @ + 1]]

ValidationFails(opt, res) == \E i \in DOMAIN res : Refused(opt, res[i])

\* Mutated form: the loop stops one string short.
ValidatedAllButLast(opt, res) ==
    [i \in 1..Len(res) |->
        IF opt.validators /\ ~Exempt(opt, res[i]) /\ i < Len(res)
        THEN Rewritten(res[i]) ELSE res[i]]

\* The strings before the first refused one have been rewritten when the
\* exception leaves the loop.
Validated(opt, res) ==
    [i \in 1..Len(res) |->
        IF /\ opt.validators
           /\ ~Exempt(opt, res[i])
           /\ \A j \in 1..i : ~Refused(opt, res[j])
        THEN Rewritten(res[i])
        ELSE res[i]]

-----------------------------------------------------------------------------
(* Reduction by the multi option policy.                                   *)

\* The result of joining or summing: the stored results are plain.
Combined(original) == <<[i \in 1..Len(original) |-> original[i][1]]>>

ReductionFails(opt, policy, original) ==
    /\ policy = "Throw"
    /\ \/ Len(original) < (IF opt.min = 0 THEN 1 ELSE opt.min)
       \/ /\ Len(original) > (IF opt.max = 0 THEN 1 ELSE opt.max)
          /\ ~(Len(original) = 2 /\ opt.max \in {0, 1}
               /\ Holds(original[1], {EmptyVec}) /\ Holds(original[2], {EndMark}))

\* The number of results a trimming policy keeps.
Kept(opt, original) ==
    LET most == IF opt.max > 1 THEN opt.max ELSE 1
    IN  IF most < Len(original) THEN most ELSE Len(original)

\* What the switch leaves in out; empty means "the original as it is".
Trimmed(opt, policy, original) ==
    LET n == Len(original)
        k == Kept(opt, original)
    IN  CASE policy = "TakeLast"  -> IF n # k THEN SubSeq(original, n - k + 1, n) ELSE <<>>
          [] policy = "Reverse"   -> IF n # k \/ k > 1
                                     THEN Reverse(SubSeq(original, n - k + 1, n)) ELSE <<>>
          [] policy = "TakeFirst" -> IF n # k THEN SubSeq(original, 1, k) ELSE <<>>
          [] policy = "Join"      -> IF n > 1 THEN Combined(original) ELSE <<>>
          [] policy = "Sum"       -> Combined(original)
          [] policy = "Throw"     -> IF n = 2 /\ opt.max \in {0, 1}
                                     THEN original ELSE <<>>
          [] OTHER                -> <<>>

IsEmptyVec(res) == Len(res) = 1 /\ Len(res[1]) = 1 /\ Holds(res[1], {EmptyVec})

\* proc_results_ after _reduce_results, when it does not throw.
Reduced(opt, policy, original) ==
    LET out == Trimmed(opt, policy, original)
    IN  IF /\ opt.min > 0
           /\ IF out = <<>> THEN IsEmptyVec(original) ELSE IsEmptyVec(out)
        THEN (IF out = <<>> THEN original ELSE out) \o <<Fresh(EndMark)>>
        ELSE out

\* The reduced results stand for the original ones unless there are none.
Chosen(reduced, original) == IF reduced = <<>> THEN original ELSE reduced
=============================================================================
