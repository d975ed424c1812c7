--------------------------- MODULE MCOptionResults --------------------------
(* Instances of OptionResults for TLC.                                     *)
EXTENDS OptionResults

CONSTANTS a, b, bad

\* A plain option of one argument, with validators and a bound variable.
Plain == [min |-> 1, max |-> 1, validators |-> TRUE, callback |-> TRUE, first |-> FALSE,
          trigger |-> FALSE, force |-> FALSE, runDefault |-> FALSE, positional |-> FALSE,
          completes |-> FALSE, resets |-> FALSE]

\* A flag, one argument, one or two, exactly two, and two or more.
Sized(D) ==
    UNION {{[d EXCEPT !.min = 0, !.max = 0], d, [d EXCEPT !.max = 2],
            [d EXCEPT !.min = 2, !.max = 2], [d EXCEPT !.min = 2, !.max = Unlimited]} : d \in D}

\* D and its members with one flag off.
Without(D, flag) == D \cup {[d EXCEPT ![flag] = FALSE] : d \in D}

\* The lives an option leads in a parse: its subcommand, when it completes
\* early, resets its options, and a vector positional is not a trigger.
Lifecycle ==
    Sized(Without({Plain}, "validators"))
        \cup UNION { {[d EXCEPT !.force = TRUE], [d EXCEPT !.first = TRUE],
                      [d EXCEPT !.first = TRUE, !.force = TRUE],
                      [d EXCEPT !.trigger = TRUE], [d EXCEPT !.positional = TRUE],
                      [d EXCEPT !.completes = TRUE, !.resets = TRUE]} :
                        d \in {Plain, [Plain EXCEPT !.max = 2]} }
        \cup {[Plain EXCEPT !.trigger = TRUE, !.positional = TRUE]}

\* Everything a program may do with an option, in any order.
Anything ==
    { [Plain EXCEPT !.min = 0, !.max = 0, !.runDefault = TRUE],
      [Plain EXCEPT !.max = 2, !.runDefault = TRUE],
      [Plain EXCEPT !.max = 2, !.validators = FALSE, !.runDefault = TRUE, !.force = TRUE],
      [Plain EXCEPT !.min = 2, !.max = Unlimited, !.completes = TRUE],
      [Plain EXCEPT !.max = 2, !.trigger = TRUE, !.positional = TRUE] }
=============================================================================
