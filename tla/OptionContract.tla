--------------------------- MODULE OptionContract ---------------------------
(***************************************************************************)
(* What an option promises the program that declares it, without the       *)
(* buffers and the states it keeps the promise with.  A parse gives the    *)
(* option strings, from the command line, a file or the environment.  The  *)
(* callback is handed what the strings stand for: all of them, each        *)
(* validated once, reduced by the policy.  It gets them once, and a parse  *)
(* does not succeed while strings wait for it.  Reads change nothing.      *)
(***************************************************************************)
EXTENDS OptionPolicies

VARIABLES
    opt, policy, default,   \* how the program has declared the option
    busy,                   \* the App is parsing
    given,                  \* the strings of this parse
    delivered,              \* nothing waits for the callback
    bound                   \* what the callback was handed last

contract == <<busy, given, delivered, bound>>
declaration == <<opt, policy, default>>

\* A string after one run of the validators.
Checked(s) ==
    Stored(s, IF opt.validators /\ ~(opt.min = 0 /\ s = Blank) THEN 1 ELSE 0)

\* What strings stand for, and what the default stands for if there are none.
Meant(strings) ==
    LET each == IF strings = <<>> THEN [i \in 1..Len(default) |-> Checked(default[i][1].val)]
                ELSE [i \in 1..Len(strings) |-> Checked(strings[i])]
    IN  Chosen(Reduced(opt, policy, each), each)

\* What the next strings are added to.  A trigger that has delivered
\* starts anew.
Pending == IF opt.trigger /\ delivered THEN <<>> ELSE given

\* Nothing waits.  An option whose callback runs first promises this for the
\* command line only, for its callback does not run again.
Settled == delivered \/ opt.first \/ (given = <<>> /\ ~opt.force)

Init ==
    /\ ~busy
    /\ given = <<>>
    /\ ~delivered
    /\ bound = <<>>

Begin ==
    /\ ~busy /\ busy'
    /\ given' = <<>>
    /\ ~delivered'
    /\ UNCHANGED bound

\* Strings arrive, at the end of those that wait.
Collect ==
    /\ busy /\ busy'
    /\ delivered => Pending = <<>>
    /\ IsPrefix(Pending, given')
    /\ ~delivered'
    /\ UNCHANGED bound

\* The callback runs, on all that has arrived; a forced option has a default.
Deliver ==
    /\ busy /\ busy'
    /\ delivered => Pending = <<>>
    /\ IsPrefix(Pending, given')
    /\ given' # <<>> \/ opt.force
    /\ delivered'
    /\ bound' = IF opt.callback THEN Meant(given') ELSE bound

\* A subcommand that has delivered is entered again.
Reenter ==
    /\ busy /\ busy'
    /\ Settled
    /\ given' = <<>>
    /\ ~delivered'
    /\ UNCHANGED bound

Succeed ==
    /\ busy /\ ~busy'
    /\ Settled
    /\ UNCHANGED <<given, delivered, bound>>

\* An error leaves the option as far as it came; the callback had no value.
Fail ==
    /\ busy /\ ~busy'
    /\ UNCHANGED bound

Next ==
    /\ Begin \/ Collect \/ Deliver \/ Reenter \/ Succeed \/ Fail
    /\ UNCHANGED declaration

Spec == Init /\ [][Next]_<<contract, declaration>>
=============================================================================
