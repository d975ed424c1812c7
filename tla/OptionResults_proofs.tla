------------------------ MODULE OptionResults_proofs ------------------------
(***************************************************************************)
(* Proofs about the life of one option, for every set of declarations,     *)
(* strings and bounds.                                                     *)
(***************************************************************************)
EXTENDS OptionResults, TLAPS

-----------------------------------------------------------------------------
(* Lemmas on the operators of OptionPolicies.                              *)

\* Strings given as arguments are stored as plain results.
LEMMA FreshIsPlain ==
    ASSUME NEW v \in Strings
    PROVE  Fresh(v) \in PlainItem
  BY DEF Fresh, Stored, PlainItem, Part, Runs

LEMMA PlainIsItem == PlainItem \subseteq Item
  BY DEF PlainItem, Item

LEMMA PlainSeqIsItemSeq ==
    ASSUME NEW res \in Seq(PlainItem)
    PROVE  res \in Seq(Item)
  <1>1. \A i \in 1..Len(res) : res[i] \in Item
    BY PlainIsItem
  <1>. QED
    BY <1>1

\* One argument contributes plain results, as many as it has strings.
LEMMA AddedType ==
    ASSUME NEW vs \in Seq(Strings)
    PROVE  Added(vs) \in Seq(PlainItem) /\ Len(Added(vs)) = Len(vs)
  BY FreshIsPlain DEF Added

\* Rewriting a plain result leaves a plain result.
LEMMA RewrittenType ==
    ASSUME NEW item \in PlainItem
    PROVE  Rewritten(item) \in PlainItem
  BY DEF Rewritten, PlainItem, Part, Runs

\* Validation rewrites strings; it neither adds nor drops any.
LEMMA ValidatedType ==
    ASSUME NEW o \in DeclarationType, NEW res \in Seq(PlainItem)
    PROVE  /\ Validated(o, res) \in Seq(PlainItem)
           /\ Len(Validated(o, res)) = Len(res)
  <1>1. \A i \in 1..Len(res) : res[i] \in PlainItem
    OBVIOUS
  <1>2. \A i \in 1..Len(res) : Rewritten(res[i]) \in PlainItem
    BY <1>1, RewrittenType
  <1>. QED
    BY <1>1, <1>2 DEF Validated

\* Combining plain results gives one item.
LEMMA CombinedType ==
    ASSUME NEW original \in Seq(PlainItem)
    PROVE  Combined(original) \in Seq(Item)
  <1>1. \A i \in 1..Len(original) : original[i][1] \in Part
    BY DEF PlainItem
  <1>. QED
    BY <1>1 DEF Combined, Item

\* A policy takes items from its input or combines them.
LEMMA TrimmedType ==
    ASSUME NEW o \in DeclarationType, NEW p \in Policies, NEW original \in Seq(PlainItem)
    PROVE  Trimmed(o, p, original) \in Seq(Item)
  <1>1. original \in Seq(Item)
    BY PlainSeqIsItemSeq
  <1>2. Combined(original) \in Seq(Item)
    BY CombinedType
  <1>3. Kept(o, original) \in 0..Len(original)
    BY DEF Kept, DeclarationType
  <1>4. SubSeq(original, 1, Kept(o, original)) \in Seq(Item)
    BY <1>1, <1>3
  <1>5. SubSeq(original, Len(original) - Kept(o, original) + 1, Len(original)) \in Seq(Item)
    BY <1>1, <1>3
  <1>6. ASSUME NEW s \in Seq(Item) PROVE Reverse(s) \in Seq(Item)
    BY DEF Reverse
  <1>7. CASE p = "TakeLast"
    BY <1>1, <1>5, <1>7 DEF Trimmed
  <1>8. CASE p = "Reverse"
    <2>1. Reverse(SubSeq(original, Len(original) - Kept(o, original) + 1, Len(original)))
            \in Seq(Item)
      BY <1>5, <1>6
    <2>. QED
      BY <1>8, <2>1 DEF Trimmed
  <1>9. CASE p = "TakeFirst"
    BY <1>1, <1>4, <1>9 DEF Trimmed
  <1>10. CASE p \in {"Join", "Sum"}
    BY <1>1, <1>2, <1>10 DEF Trimmed
  <1>11. CASE p \in {"Throw", "TakeAll"}
    BY <1>1, <1>11 DEF Trimmed
  <1>. QED
    BY <1>7, <1>8, <1>9, <1>10, <1>11 DEF Policies

LEMMA ReducedType ==
    ASSUME NEW o \in DeclarationType, NEW p \in Policies, NEW original \in Seq(PlainItem)
    PROVE  Reduced(o, p, original) \in Seq(Item)
  <1>1. original \in Seq(Item)
    BY PlainSeqIsItemSeq
  <1>2. Trimmed(o, p, original) \in Seq(Item)
    BY TrimmedType
  <1>3. Fresh(EndMark) \in Item
    BY FreshIsPlain, PlainIsItem DEF Strings, Sentinels
  <1>. QED
    BY <1>1, <1>2, <1>3 DEF Reduced

-----------------------------------------------------------------------------
(* run_callback.                                                           *)

\* The shape of what run_callback leaves and hands out.
RunType ==
    [results : Seq(PlainItem), proc : Seq(Item), state : OptionStates,
     outcome : Outcomes, got : Seq(Item)]

\* A default is one stored string.
LEMMA DefaultType ==
    ASSUME TypeOK
    PROVE  default \in Seq(PlainItem) /\ default # <<>>
  <1>1. PICK v \in Strings : default = <<Fresh(v)>>
    BY DEF TypeOK
  <1>2. Fresh(v) \in PlainItem
    BY FreshIsPlain
  <1>. QED
    BY <1>1, <1>2

\* run_callback keeps the types, and leaves the option validated only when
\* the reduction of its results threw.
LEMMA RunCallbackType ==
    ASSUME TypeOK,
           NEW res \in Seq(PlainItem), NEW proc \in Seq(Item), NEW st \in OptionStates,
           res # <<>> \/ opt.force
    PROVE  /\ RunCallback(res, proc, st) \in RunType
           /\ RunCallback(res, proc, st).state = "validated" =>
                /\ RunCallback(res, proc, st).proc = <<>>
                /\ RunCallback(res, proc, st).results # <<>>
                /\ ReductionFails(opt, policy, RunCallback(res, proc, st).results)
  <1>. DEFINE given   == IF Forced(res) THEN default ELSE res
              entry   == IF Forced(res) THEN "parsing" ELSE st
              checked == IF entry = "parsing" THEN Validated(opt, given) ELSE given
              out     == IF entry = "callback_run" THEN proc ELSE Reduced(opt, policy, checked)
              sent    == Chosen(out, checked)
              clears  == Forced(res) /\ opt.callback /\ sent # <<>>
  <1>1. given \in Seq(PlainItem) /\ given # <<>>
    BY DefaultType DEF Forced
  <1>2. opt \in DeclarationType /\ policy \in Policies
    BY DEF TypeOK
  <1>3. checked \in Seq(PlainItem) /\ checked # <<>>
    <2>1. Validated(opt, given) \in Seq(PlainItem) /\ Len(Validated(opt, given)) = Len(given)
      BY <1>1, <1>2, ValidatedType
    <2>. HIDE DEF given, entry
    <2>2. Validated(opt, given) # <<>>
      BY <1>1, <2>1
    <2>. QED
      BY <1>1, <2>1, <2>2
  <1>4. out \in Seq(Item) /\ sent \in Seq(Item)
    <2>. HIDE DEF given, entry, checked
    <2>1. Reduced(opt, policy, checked) \in Seq(Item)
      BY <1>2, <1>3, ReducedType
    <2>. QED
      BY <1>3, <2>1, PlainSeqIsItemSeq DEF Chosen
  <1>5. RunCallback(res, proc, st) =
          IF entry = "parsing" /\ ValidationFails(opt, given)
          THEN [results |-> checked, proc |-> proc, state |-> "parsing",
                outcome |-> "ValidationError", got |-> <<>>]
          ELSE IF entry # "callback_run" /\ ReductionFails(opt, policy, checked)
          THEN [results |-> checked, proc |-> <<>>, state |-> "validated",
                outcome |-> "ArgumentMismatch", got |-> <<>>]
          ELSE [results |-> IF clears THEN <<>> ELSE checked,
                proc |-> IF clears THEN <<>> ELSE out,
                state |-> "callback_run",
                outcome |-> IF opt.callback /\ \E i \in DOMAIN sent : Holds(sent[i], Unconvertible)
                            THEN "ConversionError" ELSE "ok",
                got |-> IF opt.callback THEN sent ELSE <<>>]
    BY DEF RunCallback
  <1>. HIDE DEF given, entry, checked, out, sent, clears
  <1>6. <<>> \in Seq(PlainItem) /\ <<>> \in Seq(Item)
    OBVIOUS
  <1>. QED
    BY <1>3, <1>4, <1>5, <1>6 DEF RunType, OptionStates, Outcomes

-----------------------------------------------------------------------------
(* The reads.                                                              *)

CallType == [op : Operations, outcome : Outcomes, got : Seq(Item)]

\* What the type invariant needs of the state machine: reduced_results() and
\* run_callback() reduce only plain results, never an earlier reduction.
IInv == TypeOK /\ ValidatedMeansReductionThrew

LEMMA QuietType ==
    ASSUME NEW op \in Operations
    PROVE  Quiet(op) \in CallType
  <1>. <<>> \in Seq(Item)
    OBVIOUS
  <1>. QED
    BY DEF Quiet, Said, CallType, Outcomes

LEMMA ReducedResultsType ==
    ASSUME IInv
    PROVE  ReducedResults \in CallType
  <1>. DEFINE fresh == state = "parsing"
              base  == IF fresh THEN results ELSE Chosen(procResults, results)
              res   == IF fresh THEN Validated(opt, base) ELSE base
  <1>1. /\ opt \in DeclarationType /\ policy \in Policies
        /\ results \in Seq(PlainItem) /\ procResults \in Seq(Item)
        /\ results \in Seq(Item) /\ state \in OptionStates
    BY PlainSeqIsItemSeq DEF IInv, TypeOK
  <1>2. CASE state = "callback_run"
    <2>1. base \in Seq(Item) /\ res = base
      BY <1>1, <1>2 DEF Chosen
    <2>2. ReducedResults = Said("reduced_results", "ok", res)
      BY <1>2 DEF ReducedResults, ReducedFrom
    <2>. QED
      BY <2>1, <2>2 DEF Said, CallType, Operations, Outcomes
  <1>3. CASE state # "callback_run"
    <2>1. base \in Seq(PlainItem)
      BY <1>1, <1>3 DEF IInv, ValidatedMeansReductionThrew, Chosen, OptionStates
    <2>2. res \in Seq(PlainItem)
      <3>. HIDE DEF base
      <3>. QED
        BY <1>1, <2>1, ValidatedType
    <2>3. ReducedResults =
            IF fresh /\ ValidationFails(opt, base)
            THEN Said("reduced_results", "ValidationError", <<>>)
            ELSE IF state = "callback_run" \/ res = <<>>
            THEN Said("reduced_results", "ok", res)
            ELSE IF ReductionFails(opt, policy, res)
            THEN Said("reduced_results", "ArgumentMismatch", <<>>)
            ELSE Said("reduced_results", "ok", Chosen(Reduced(opt, policy, res), res))
      BY DEF ReducedResults, ReducedFrom
    <2>. HIDE DEF fresh, base, res
    <2>4. res \in Seq(Item) /\ Reduced(opt, policy, res) \in Seq(Item)
      BY <1>1, <2>2, PlainSeqIsItemSeq, ReducedType
    <2>5. Chosen(Reduced(opt, policy, res), res) \in Seq(Item)
      BY <2>4 DEF Chosen
    <2>. QED
      BY <2>3, <2>4, <2>5 DEF Said, CallType, Operations, Outcomes
  <1>. QED
    BY <1>2, <1>3

LEMMA DefaultResultsType ==
    ASSUME TypeOK
    PROVE  DefaultResults \in CallType
  <1>. DEFINE res == Validated(opt, default)
  <1>1. opt \in DeclarationType /\ policy \in Policies
    BY DEF TypeOK
  <1>2. default \in Seq(PlainItem) /\ default \in Seq(Item)
    BY DefaultType, PlainSeqIsItemSeq
  <1>3. res \in Seq(PlainItem)
    BY <1>1, <1>2, ValidatedType
  <1>4. DefaultResults =
          IF default = NoDefault THEN Said("as", "ok", NoDefault)
          ELSE IF ValidationFails(opt, default) THEN Said("as", "ValidationError", <<>>)
          ELSE IF ReductionFails(opt, policy, res) THEN Said("as", "ArgumentMismatch", <<>>)
          ELSE Said("as", "ok", Chosen(Reduced(opt, policy, res), res))
    BY DEF DefaultResults
  <1>. HIDE DEF res
  <1>5. res \in Seq(Item) /\ Reduced(opt, policy, res) \in Seq(Item)
    BY <1>1, <1>3, PlainSeqIsItemSeq, ReducedType
  <1>6. Chosen(Reduced(opt, policy, res), res) \in Seq(Item)
    BY <1>5 DEF Chosen
  <1>. QED
    BY <1>2, <1>4, <1>5, <1>6 DEF Said, CallType, Operations, Outcomes

LEMMA AsType ==
    ASSUME IInv
    PROVE  As \in CallType
  <1>1. CASE ReadsStored
    <2>1. Chosen(procResults, results) \in Seq(Item)
      BY PlainSeqIsItemSeq DEF IInv, TypeOK, Chosen
    <2>2. <<Fresh(Blank)>> \in Seq(Item)
      BY FreshIsPlain, PlainIsItem DEF Strings, Sentinels
    <2>. QED
      BY <1>1, <2>1, <2>2 DEF As, Said, CallType, Operations, Outcomes
  <1>2. CASE ~ReadsStored /\ results = <<>>
    BY <1>2, DefaultResultsType DEF As, IInv
  <1>3. CASE ~ReadsStored /\ results # <<>>
    <2>1. As = [ReducedResults EXCEPT !.op = "as"]
      BY <1>3 DEF As
    <2>. QED
      BY <2>1, ReducedResultsType DEF CallType, Operations
  <1>. QED
    BY <1>1, <1>2, <1>3

-----------------------------------------------------------------------------
(* The invariant.                                                          *)

\* A step that runs the callback and records what came of it.
LEMMA DeliversKeepsIInv ==
    ASSUME IInv,
           NEW res \in Seq(PlainItem), NEW proc \in Seq(Item), NEW st \in OptionStates,
           res # <<>> \/ opt.force,
           Delivers(RunCallback(res, proc, st)),
           phase' \in Parsing \cup Resting, UNCHANGED outside
    PROVE  IInv'
  <1>. DEFINE run == RunCallback(res, proc, st)
  <1>1. /\ run \in RunType
        /\ run.state = "validated" =>
             /\ run.proc = <<>> /\ run.results # <<>>
             /\ ReductionFails(opt, policy, run.results)
    BY RunCallbackType DEF IInv
  <1>2. /\ results' = run.results /\ procResults' = run.proc /\ state' = run.state
        /\ bound' = IF run.outcome = "ok" /\ run.got # <<>> THEN run.got ELSE bound
        /\ deliveries' = IF run.got # <<>> /\ deliveries < 2 THEN deliveries + 1 ELSE deliveries
        /\ call' = [op |-> "callback", outcome |-> run.outcome, got |-> run.got]
    BY DEF Delivers, Said
  <1>. HIDE DEF run
  <1>3. bound' \in Seq(Item) /\ deliveries' \in 0..2
    BY <1>1, <1>2 DEF IInv, TypeOK, RunType
  <1>. QED
    BY <1>1, <1>2, <1>3
    DEF IInv, TypeOK, ValidatedMeansReductionThrew, RunType, Operations, outside

\* A step that leaves the option parsing or as it is, and hands out nothing.
LEMMA QuietKeepsIInv ==
    ASSUME IInv,
           \/ UNCHANGED optionVars
           \/ /\ results' \in Seq(PlainItem)
              /\ procResults' \in Seq(Item)
              /\ state' = "parsing",
           UNCHANGED <<outside, bound>>, phase' \in Parsing \cup Resting,
           deliveries' \in 0..2, NEW op \in Operations, call' = Quiet(op)
    PROVE  IInv'
  <1>1. call' \in CallType
    BY QuietType
  <1>. QED
    BY <1>1
    DEF IInv, TypeOK, ValidatedMeansReductionThrew, OptionStates, optionVars, outside, CallType

LEMMA ArgumentsType ==
    ASSUME NEW vs \in Arguments
    PROVE  Added(vs) \in Seq(PlainItem) /\ (vs # <<>> => Added(vs) # <<>>)
  <1>1. Typed \subseteq Strings
    BY DeclarationsAssumption DEF Strings, Sentinels
  <1>2. PICK n \in 0..MaxArgument : vs \in [1..n -> Typed]
    BY DEF Arguments
  <1>3. vs \in Seq(Strings)
    BY <1>1, <1>2, DeclarationsAssumption
  <1>4. Added(vs) \in Seq(PlainItem) /\ Len(Added(vs)) = Len(vs)
    BY <1>3, AddedType
  <1>. QED
    BY <1>3, <1>4

LEMMA InitIInv == Init => IInv
  <1>. SUFFICES ASSUME Init PROVE IInv
    OBVIOUS
  <1>1. <<>> \in Seq(Item) /\ <<>> \in Seq(PlainItem)
    OBVIOUS
  <1>2. call \in CallType
    BY QuietType DEF Init, Operations
  <1>3. default \in {<<Fresh(v)>> : v \in Strings}
    <2>1. CASE default = NoDefault
      BY <2>1 DEF NoDefault, Strings, Sentinels
    <2>2. CASE default # NoDefault
      <3>1. PICK v \in Defaults : default = <<Fresh(v)>>
        BY <2>2 DEF Init
      <3>2. v \in Strings
        BY DeclarationsAssumption DEF Strings
      <3>. QED
        BY <3>1, <3>2
    <2>. QED
      BY <2>1, <2>2
  <1>. QED
    BY <1>1, <1>2, <1>3, DeclarationsAssumption
    DEF Init, IInv, TypeOK, ValidatedMeansReductionThrew, OptionStates, Resting, CallType

\* Under the policy Throw there is nothing to reduce in a single default.
LEMMA DefaultNotReduced ==
    ASSUME opt \in DeclarationType, policy = "Throw", procResults = <<>>,
           NEW v \in Values
    PROVE  RunCallback(<<Fresh(v)>>, procResults, "parsing").proc = <<>>
  <1>. DEFINE given == <<Fresh(v)>>
              checked == Validated(opt, given)
  <1>1. ~Forced(given)
    BY DEF Forced
  <1>2. Len(checked) = 1
    BY DEF Validated
  <1>3. checked[1] \in {Fresh(v), Rewritten(Fresh(v))}
    BY DEF Validated
  <1>4. v # EmptyVec
    BY StringsAssumption DEF Sentinels
  <1>5. ~Holds(checked[1], {EmptyVec})
    BY <1>3, <1>4 DEF Holds, Fresh, Stored, Rewritten
  <1>6. ~IsEmptyVec(checked)
    BY <1>2, <1>5 DEF IsEmptyVec
  <1>7. Trimmed(opt, policy, checked) = <<>>
    <2>. HIDE DEF checked
    <2>. QED
      BY <1>2 DEF Trimmed
  <1>8. Reduced(opt, policy, checked) = <<>>
    BY <1>6, <1>7 DEF Reduced
  <1>. HIDE DEF checked
  <1>. QED
    BY <1>1, <1>8 DEF RunCallback, checked

\* Every step keeps the invariant.
LEMMA NextIInv == IInv /\ [Next]_vars => IInv'
  <1>. SUFFICES ASSUME IInv, [Next]_vars PROVE IInv'
    OBVIOUS
  <1>. USE DEF outside, optionVars
  <1>1. /\ results \in Seq(PlainItem) /\ procResults \in Seq(Item) /\ state \in OptionStates
        /\ bound \in Seq(Item) /\ deliveries \in 0..2 /\ phase \in Parsing \cup Resting
        /\ opt \in DeclarationType /\ policy \in Policies /\ call \in CallType
    BY DEF IInv, TypeOK, CallType
  <1>2. /\ <<>> \in Seq(Item) /\ <<>> \in Seq(PlainItem)
        /\ "parse" \in Operations /\ "other" \in Operations
        /\ "parsing" \in OptionStates
    BY DEF Operations, OptionStates
  <1>3. CASE BeginParse
    <2>1. \/ UNCHANGED <<results, procResults, state>>
          \/ results' = <<>> /\ procResults' = <<>> /\ state' = "parsing"
      BY <1>3 DEF BeginParse, Clear
    <2>. QED
      <3>1. /\ phase' \in Parsing \cup Resting /\ deliveries' \in 0..2
            /\ call' = Quiet("parse") /\ UNCHANGED <<opt, policy, default, bound>>
        BY <1>3 DEF BeginParse, Parsing
      <3>. QED
        BY <1>2, <2>1, <3>1, QuietKeepsIInv
  <1>4. CASE BeginStream
    BY <1>1, <1>2, <1>4, QuietKeepsIInv DEF BeginStream, Parsing
  <1>5. CASE ParseArgument
    <2>. DEFINE kept == IF Restarts THEN <<>> ELSE results
                proc == IF Restarts THEN <<>> ELSE procResults
    <2>1. PICK vs \in Arguments :
            \/ /\ kept \o Added(vs) # <<>>
               /\ Delivers(RunCallback(kept \o Added(vs), proc, "parsing"))
               /\ phase' \in {phase, "failed"}
            \/ /\ results' = IF Restarts THEN results ELSE kept \o Added(vs)
               /\ procResults' = proc
               /\ state' = "parsing"
               /\ call' = Quiet("parse")
               /\ UNCHANGED <<phase, bound, deliveries>>
      BY <1>5 DEF ParseArgument
    <2>2. Added(vs) \in Seq(PlainItem)
      BY ArgumentsType
    <2>3. kept \o Added(vs) \in Seq(PlainItem) /\ proc \in Seq(Item)
      BY <1>1, <1>2, <2>2
    <2>4. UNCHANGED <<opt, policy, default>>
      BY <1>5 DEF ParseArgument
    <2>5. phase' \in Parsing \cup Resting
      BY <1>1, <2>1 DEF Resting
    <2>. HIDE DEF kept, proc
    <2>6. CASE /\ kept \o Added(vs) # <<>>
               /\ Delivers(RunCallback(kept \o Added(vs), proc, "parsing"))
      BY <1>2, <2>3, <2>4, <2>5, <2>6, DeliversKeepsIInv
    <2>7. CASE /\ results' = IF Restarts THEN results ELSE kept \o Added(vs)
               /\ procResults' = proc
               /\ state' = "parsing"
               /\ call' = Quiet("parse")
               /\ UNCHANGED <<phase, bound, deliveries>>
      BY <1>1, <1>2, <2>3, <2>4, <2>5, <2>7, QuietKeepsIInv
    <2>. QED
      BY <2>1, <2>6, <2>7
  <1>6. CASE ReenterOwner \/ EnterSection
    <2>1. \/ UNCHANGED <<results, procResults, state>>
          \/ results' = <<>> /\ procResults' = <<>> /\ state' = "parsing"
      BY <1>6 DEF ReenterOwner, EnterSection, Retriggered, Clear
    <2>. QED
      <3>1. /\ phase' \in Parsing \cup Resting /\ deliveries' \in 0..2
            /\ call' = Quiet("parse") /\ UNCHANGED <<opt, policy, default, bound>>
        BY <1>6 DEF ReenterOwner, EnterSection, Moves, Parsing
      <3>. QED
        BY <1>2, <2>1, <3>1, QuietKeepsIInv
  <1>7. CASE NextStage
    BY <1>1, <1>2, <1>7, QuietKeepsIInv DEF NextStage, Moves, Parsing, Resting
  <1>8. CASE ProcessEnv
    <2>1. PICK v \in Typed : results' = <<Fresh(v)>>
      BY <1>8 DEF ProcessEnv
    <2>2. v \in Strings
      BY DeclarationsAssumption DEF Strings, Sentinels
    <2>3. results' \in Seq(PlainItem)
      BY <2>1, <2>2, FreshIsPlain
    <2>. QED
      BY <1>1, <1>2, <1>8, <2>3, QuietKeepsIInv DEF ProcessEnv
  <1>9. CASE ProcessConfig
    <2>1. PICK vs \in Arguments :
            /\ vs # <<>>
            /\ \/ /\ Delivers(RunCallback(Added(vs), procResults, "parsing"))
                  /\ phase' \in {phase, "failed"}
               \/ /\ results' = Added(vs)
                  /\ state' = "parsing"
                  /\ call' = Quiet("parse")
                  /\ UNCHANGED <<procResults, phase, bound, deliveries>>
      BY <1>9 DEF ProcessConfig
    <2>2. Added(vs) \in Seq(PlainItem) /\ Added(vs) # <<>>
      BY <2>1, ArgumentsType
    <2>3. phase' \in Parsing \cup Resting /\ UNCHANGED <<opt, policy, default>>
      BY <1>1, <1>9, <2>1 DEF ProcessConfig, Resting
    <2>4. CASE Delivers(RunCallback(Added(vs), procResults, "parsing"))
      BY <1>1, <1>2, <2>2, <2>3, <2>4, DeliversKeepsIInv
    <2>5. CASE /\ results' = Added(vs)
               /\ state' = "parsing"
               /\ call' = Quiet("parse")
               /\ UNCHANGED <<procResults, phase, bound, deliveries>>
      BY <1>1, <1>2, <2>2, <2>3, <2>5, QuietKeepsIInv
    <2>. QED
      BY <2>1, <2>4, <2>5
  <1>10. CASE ProcessCallback
    <2>1. /\ results # <<>> \/ opt.force
          /\ Delivers(RunCallback(results, procResults, state))
          /\ phase' \in {phase, "failed"}
          /\ UNCHANGED <<opt, policy, default>>
      BY <1>10 DEF ProcessCallback, Due
    <2>. QED
      BY <1>1, <2>1, DeliversKeepsIInv DEF Resting
  <1>11. CASE ParseFails
    BY <1>1, <1>2, <1>11, QuietKeepsIInv DEF ParseFails, Moves, Resting
  <1>12. CASE Read
    <2>1. As \in CallType
      BY AsType
    <2>2. procResults' \in Seq(Item)
      BY <1>1, <1>12, <2>1 DEF Read, CallType
    <2>3. state = "validated" => procResults' = <<>>
      <3>. SUFFICES ASSUME state = "validated" PROVE procResults' = <<>>
        OBVIOUS
      <3>1. procResults = <<>> /\ results # <<>> /\ ReductionFails(opt, policy, results)
        BY DEF IInv, ValidatedMeansReductionThrew
      <3>2. CASE ReadsStored
        BY <1>12, <3>1, <3>2 DEF Read, Chosen
      <3>3. CASE ~ReadsStored
        <4>1. As.outcome = "ArgumentMismatch"
          BY <3>1, <3>3, ReducedResultsType
          DEF As, ReducedResults, ReducedFrom, Chosen, Said, CallType
        <4>. QED
          BY <1>12, <3>1, <4>1 DEF Read
      <3>. QED
        BY <3>2, <3>3
    <2>. QED
      BY <1>1, <1>12, <2>1, <2>2, <2>3
      DEF Read, IInv, TypeOK, ValidatedMeansReductionThrew, CallType
  <1>13. CASE ReadReduced
    BY <1>13, ReducedResultsType
    DEF ReadReduced, IInv, TypeOK, ValidatedMeansReductionThrew, CallType
  <1>14. CASE DefaultVal
    <2>. DEFINE given(v) == <<Fresh(v)>>
                run(v) == RunCallback(given(v), procResults, "parsing")
                runs == opt.runDefault /\ ~opt.trigger
    <2>1. PICK v \in Defaults :
            LET outcome == IF runs THEN run(v).outcome
                           ELSE IF ValidationFails(opt, given(v)) THEN "ValidationError" ELSE "ok"
            IN  /\ default' = IF outcome = "ok" THEN given(v) ELSE default
                /\ state' = IF runs /\ outcome = "ok" THEN "parsing" ELSE state
                /\ procResults' = IF runs THEN run(v).proc ELSE procResults
                /\ bound' = IF runs /\ outcome = "ok" /\ run(v).got # <<>> THEN run(v).got ELSE bound
                /\ call' = Said("default_val", outcome, IF runs THEN run(v).got ELSE <<>>)
      BY <1>14 DEF DefaultVal
    <2>2. v \in Strings /\ v \in Values
      BY DeclarationsAssumption DEF Strings
    <2>3. given(v) \in Seq(PlainItem) /\ given(v) # <<>>
      BY <2>2, FreshIsPlain
    <2>4. run(v) \in RunType
      <3>. HIDE DEF given
      <3>. QED
        BY <1>1, <1>2, <2>3, RunCallbackType DEF IInv
    <2>5. UNCHANGED <<opt, policy, results, phase, deliveries>>
      BY <1>14 DEF DefaultVal
    <2>6. default' \in {<<Fresh(w)>> : w \in Strings}
      <3>1. default \in {<<Fresh(w)>> : w \in Strings}
        BY DEF IInv, TypeOK
      <3>2. default' \in {default, <<Fresh(v)>>}
        BY <2>1
      <3>. QED
        BY <2>2, <3>1, <3>2
    <2>7. state = "validated" => procResults = <<>> /\ policy = "Throw"
      BY DEF IInv, ValidatedMeansReductionThrew, ReductionFails
    <2>8. policy = "Throw" /\ procResults = <<>> => run(v).proc = <<>>
      BY <1>1, <2>2, DefaultNotReduced
    <2>. HIDE DEF given, run, runs
    <2>9. TypeOK'
      BY <1>1, <1>2, <2>1, <2>4, <2>5, <2>6
      DEF TypeOK, RunType, Said, CallType, Operations, Outcomes, OptionStates
    <2>. QED
      BY <2>1, <2>5, <2>7, <2>8, <2>9 DEF IInv, ValidatedMeansReductionThrew
  <1>15. CASE MultiOptionPolicy
    <2>1. opt' \in DeclarationType /\ policy' \in Policies
      BY <1>1, <1>15, DeclarationsAssumption DEF MultiOptionPolicy, DeclarationType
    <2>2. call' \in CallType
      BY <1>2, <1>15, QuietType DEF MultiOptionPolicy
    <2>. QED
      BY <1>15, <2>1, <2>2
      DEF MultiOptionPolicy, IInv, TypeOK, ValidatedMeansReductionThrew, OptionStates, CallType
  <1>16. CASE AddResult
    <2>1. PICK vs \in Arguments : results' = results \o Added(vs)
      BY <1>16 DEF AddResult
    <2>2. results' \in Seq(PlainItem)
      BY <1>1, <2>1, ArgumentsType
    <2>. QED
      BY <1>1, <1>2, <1>16, <2>2, QuietKeepsIInv DEF AddResult
  <1>17. CASE UNCHANGED vars
    BY <1>17 DEF vars, IInv, TypeOK, ValidatedMeansReductionThrew
  <1>. QED
    BY <1>3, <1>4, <1>5, <1>6, <1>7, <1>8, <1>9, <1>10, <1>11, <1>12, <1>13, <1>14,
       <1>15, <1>16, <1>17 DEF Next, ParserNext, ClientNext

\* Every reachable state is well typed, and the option is validated but not
\* reduced only when the reduction threw.
THEOREM TypeCorrect == Spec => []TypeOK
  <1>1. IInv => TypeOK
    BY DEF IInv
  <1>. QED
    BY InitIInv, NextIInv, <1>1, PTL DEF Spec

THEOREM ValidatedOnlyAfterThrow == Spec => []ValidatedMeansReductionThrew
  <1>1. IInv => ValidatedMeansReductionThrew
    BY DEF IInv
  <1>. QED
    BY InitIInv, NextIInv, <1>1, PTL DEF Spec

-----------------------------------------------------------------------------
(* The callback runs once per parse.                                       *)

\* Where the count of deliveries stands at each stage.  An option whose
\* arguments are still being collected has not delivered anything, but for the
\* entry of a section; from then on one delivery goes with callback_run.
OrdinaryDelivery ==
    /\ phase = "never" => state = "parsing" /\ results = <<>>
    /\ phase = "cmdline" => state = "parsing" /\ deliveries = 0
    /\ phase \in {"section", "early", "sources"} =>
          \/ state = "parsing" /\ deliveries = 0
          \/ state = "callback_run" /\ deliveries = 1 /\ results # <<>>
    /\ phase = "late" =>
          \/ state = "parsing" /\ deliveries = 0
          \/ state = "callback_run" /\ deliveries = 1 /\ (results # <<>> \/ opt.force)
    /\ phase = "ok" => deliveries = IF results # <<>> \/ opt.force THEN 1 ELSE 0

DeliveryInv ==
    /\ phase # "stream"
    /\ opt.completes => opt.resets
    /\ opt.callback /\ ~opt.trigger /\ ~opt.first => OrdinaryDelivery

\* run_callback that succeeds hands something to the callback, and keeps the
\* results unless it ran on the default.
LEMMA SuccessDelivers ==
    ASSUME TypeOK, opt.callback,
           NEW res \in Seq(PlainItem), NEW proc \in Seq(Item), NEW st \in OptionStates,
           res # <<>> \/ opt.force,
           RunCallback(res, proc, st).outcome = "ok"
    PROVE  /\ RunCallback(res, proc, st).state = "callback_run"
           /\ RunCallback(res, proc, st).got # <<>>
           /\ res # <<>> => RunCallback(res, proc, st).results # <<>>
  <1>. DEFINE given   == IF Forced(res) THEN default ELSE res
              entry   == IF Forced(res) THEN "parsing" ELSE st
              checked == IF entry = "parsing" THEN Validated(opt, given) ELSE given
              out     == IF entry = "callback_run" THEN proc ELSE Reduced(opt, policy, checked)
              sent    == Chosen(out, checked)
              clears  == Forced(res) /\ opt.callback /\ sent # <<>>
  <1>1. given \in Seq(PlainItem) /\ given # <<>>
    BY DefaultType DEF Forced
  <1>2. checked # <<>>
    <2>1. Len(Validated(opt, given)) = Len(given) /\ Validated(opt, given) \in Seq(PlainItem)
      BY <1>1, ValidatedType DEF TypeOK
    <2>. HIDE DEF given, entry
    <2>. QED
      BY <1>1, <2>1
  <1>3. sent # <<>>
    BY <1>2 DEF Chosen
  <1>4. RunCallback(res, proc, st) =
          IF entry = "parsing" /\ ValidationFails(opt, given)
          THEN [results |-> checked, proc |-> proc, state |-> "parsing",
                outcome |-> "ValidationError", got |-> <<>>]
          ELSE IF entry # "callback_run" /\ ReductionFails(opt, policy, checked)
          THEN [results |-> checked, proc |-> <<>>, state |-> "validated",
                outcome |-> "ArgumentMismatch", got |-> <<>>]
          ELSE [results |-> IF clears THEN <<>> ELSE checked,
                proc |-> IF clears THEN <<>> ELSE out,
                state |-> "callback_run",
                outcome |-> IF opt.callback /\ \E i \in DOMAIN sent : Holds(sent[i], Unconvertible)
                            THEN "ConversionError" ELSE "ok",
                got |-> IF opt.callback THEN sent ELSE <<>>]
    BY DEF RunCallback
  <1>5. res # <<>> => ~clears
    BY DEF Forced
  <1>. HIDE DEF given, entry, checked, out, sent, clears
  <1>. QED
    BY <1>2, <1>3, <1>4, <1>5

LEMMA InitDelivery ==
    ASSUME \A d \in Declarations : d.completes => d.resets
    PROVE  Init => DeliveryInv
  BY DEF Init, DeliveryInv, OrdinaryDelivery

LEMMA NextDelivery ==
    ASSUME ClientCalls \subseteq {"reads"}, IInv, DeliveryInv, [Next]_vars
    PROVE  DeliveryInv'
  <1>. USE DEF outside, optionVars, DeliveryInv
  <1>1. /\ results \in Seq(PlainItem) /\ procResults \in Seq(Item) /\ state \in OptionStates
        /\ deliveries \in 0..2 /\ "parsing" \in OptionStates
    BY DEF IInv, TypeOK, OptionStates
  <1>2. CASE BeginParse
    BY <1>2 DEF BeginParse, Clear, OrdinaryDelivery, Resting
  <1>3. CASE ParseArgument
    <2>1. /\ phase = "cmdline" /\ phase' \in {"cmdline", "failed"} /\ UNCHANGED opt
          /\ ~opt.trigger => state' = "parsing" /\ UNCHANGED <<phase, deliveries>>
      BY <1>3 DEF ParseArgument
    <2>. QED
      BY <2>1 DEF OrdinaryDelivery
  <1>4. CASE ReenterOwner \/ EnterSection
    BY <1>4 DEF ReenterOwner, EnterSection, Retriggered, Moves, Clear, OrdinaryDelivery
  <1>5. CASE NextStage
    BY <1>5 DEF NextStage, Moves, Due, OrdinaryDelivery
  <1>6. CASE ProcessEnv
    <2>1. PICK v \in Typed : results' = <<Fresh(v)>>
      BY <1>6 DEF ProcessEnv
    <2>. QED
      BY <1>6, <2>1 DEF ProcessEnv, OrdinaryDelivery
  <1>7. CASE ProcessConfig
    <2>1. /\ phase \in {"section", "sources"} /\ results = <<>>
          /\ UNCHANGED <<opt, policy, default>>
      BY <1>7 DEF ProcessConfig
    <2>2. PICK vs \in Arguments :
            /\ vs # <<>>
            /\ \/ /\ Delivers(RunCallback(Added(vs), procResults, "parsing"))
                  /\ phase' = IF RunCallback(Added(vs), procResults, "parsing").outcome = "ok"
                              THEN phase ELSE "failed"
               \/ /\ state' = "parsing"
                  /\ UNCHANGED <<phase, deliveries>>
      BY <1>7 DEF ProcessConfig
    <2>3. Added(vs) \in Seq(PlainItem) /\ Added(vs) # <<>>
      BY <2>2, ArgumentsType
    <2>4. CASE state' = "parsing" /\ UNCHANGED <<phase, deliveries>>
      BY <2>1, <2>4 DEF OrdinaryDelivery
    <2>5. CASE /\ Delivers(RunCallback(Added(vs), procResults, "parsing"))
               /\ phase' = IF RunCallback(Added(vs), procResults, "parsing").outcome = "ok"
                           THEN phase ELSE "failed"
      <3>1. CASE RunCallback(Added(vs), procResults, "parsing").outcome # "ok"
        BY <2>1, <2>5, <3>1 DEF OrdinaryDelivery
      <3>2. CASE RunCallback(Added(vs), procResults, "parsing").outcome = "ok"
        <4>1. opt.callback => /\ state' = "callback_run" /\ results' # <<>>
                              /\ deliveries' = IF deliveries < 2 THEN deliveries + 1 ELSE deliveries
          BY <1>1, <2>3, <2>5, <3>2, SuccessDelivers DEF Delivers, IInv
        <4>. QED
          BY <2>1, <2>5, <3>2, <4>1 DEF OrdinaryDelivery
      <3>. QED
        BY <3>1, <3>2
    <2>. QED
      BY <2>2, <2>4, <2>5
  <1>8. CASE ProcessCallback
    <2>. DEFINE run == RunCallback(results, procResults, state)
    <2>1. /\ phase = IF opt.first THEN "early" ELSE "late"
          /\ results # <<>> \/ opt.force
          /\ state # "callback_run"
          /\ Delivers(run)
          /\ phase' = IF run.outcome = "ok" THEN phase ELSE "failed"
          /\ UNCHANGED <<opt, policy, default>>
      BY <1>8 DEF ProcessCallback, Due
    <2>2. CASE run.outcome # "ok"
      BY <2>1, <2>2 DEF OrdinaryDelivery
    <2>3. CASE run.outcome = "ok"
      <3>1. opt.callback => /\ state' = "callback_run"
                            /\ results # <<>> => results' # <<>>
                            /\ deliveries' = IF deliveries < 2 THEN deliveries + 1 ELSE deliveries
        BY <1>1, <2>1, <2>3, SuccessDelivers DEF Delivers, IInv
      <3>. QED
        BY <2>1, <2>3, <3>1 DEF OrdinaryDelivery
    <2>. QED
      BY <2>2, <2>3
  <1>9. CASE ParseFails
    BY <1>9 DEF ParseFails, Moves, OrdinaryDelivery
  <1>10. CASE Read
    BY <1>10 DEF Read, OrdinaryDelivery
  <1>11. CASE ReadReduced
    BY <1>11 DEF ReadReduced, OrdinaryDelivery
  <1>12. CASE UNCHANGED vars
    BY <1>12 DEF vars, OrdinaryDelivery
  <1>13. ~BeginStream /\ ~DefaultVal /\ ~MultiOptionPolicy /\ ~AddResult
    BY DEF BeginStream, DefaultVal, MultiOptionPolicy, AddResult
  <1>. QED
    BY <1>2, <1>3, <1>4, <1>5, <1>6, <1>7, <1>8, <1>9, <1>10, <1>11, <1>12, <1>13
    DEF Next, ParserNext, ClientNext

\* However the value of an option arrives, a successful parse runs its callback
\* exactly once, provided the program only reads options and a subcommand
\* with a parse_complete_callback resets them.
THEOREM CallbackOnce ==
    ASSUME ClientCalls \subseteq {"reads"},
           \A d \in Declarations : d.completes => d.resets
    PROVE  Spec => []CallbackRunsOncePerParse
  <1>1. Init => IInv /\ DeliveryInv
    BY InitIInv, InitDelivery
  <1>2. IInv /\ DeliveryInv /\ [Next]_vars => (IInv /\ DeliveryInv)'
    BY NextIInv, NextDelivery
  <1>3. IInv /\ DeliveryInv => CallbackRunsOncePerParse
    BY DEF DeliveryInv, OrdinaryDelivery, CallbackRunsOncePerParse
  <1>. QED
    BY <1>1, <1>2, <1>3, PTL DEF Spec

-----------------------------------------------------------------------------
(***************************************************************************)
(* That an option keeps its contract: OptionResults implements             *)
(* OptionContract.  The program only reads options while and after it      *)
(* parses; a subcommand that completes early has immediate_callback_ set;  *)
(* no trigger is a vector positional.                                      *)
(***************************************************************************)


Strings1(res) == [i \in 1..Len(res) |-> res[i][1].val]

\* No validator has seen these results yet.
AllFresh(res) == \A i \in 1..Len(res) : res[i] = Fresh(res[i][1].val)

\* Each of these results has been validated once.
AllChecked(res) == \A i \in 1..Len(res) : res[i] = Contract!Checked(res[i][1].val)

\* The results after one run of the validators that refused none.
OnceChecked(res) == [i \in 1..Len(res) |-> Contract!Checked(res[i][1].val)]

-----------------------------------------------------------------------------
(* The operators of the contract are those of the option.                  *)

LEMMA SameReduction ==
    ASSUME NEW o, NEW p, NEW res
    PROVE  Contract!Reduced(o, p, res) = Reduced(o, p, res)
  <1>1. \A r : Contract!Kept(o, r) = Kept(o, r)
    BY DEF Contract!Kept, Kept
  <1>2. \A r : Contract!Combined(r) = Combined(r)
    BY DEF Contract!Combined, Combined
  <1>3. Contract!Trimmed(o, p, res) = Trimmed(o, p, res)
    <2>1. \A r : Contract!Reverse(r) = Reverse(r)
      BY DEF Contract!Reverse, Reverse
    <2>2. CASE p = "TakeLast"
      BY <1>1, <2>2 DEF Contract!Trimmed, Trimmed
    <2>3. CASE p = "Reverse"
      BY <1>1, <2>1, <2>3 DEF Contract!Trimmed, Trimmed
    <2>4. CASE p = "TakeFirst"
      BY <1>1, <2>4 DEF Contract!Trimmed, Trimmed
    <2>5. CASE p \in {"Join", "Sum"}
      BY <1>2, <2>5 DEF Contract!Trimmed, Trimmed
    <2>6. CASE p \notin {"TakeLast", "Reverse", "TakeFirst", "Join", "Sum"}
      BY <2>6 DEF Contract!Trimmed, Trimmed
    <2>. QED
      BY <2>2, <2>3, <2>4, <2>5, <2>6
  <1>4. \A r : Contract!IsEmptyVec(r) = IsEmptyVec(r)
    BY DEF Contract!IsEmptyVec, IsEmptyVec, Contract!Holds, Holds
  <1>5. Contract!Fresh(EndMark) = Fresh(EndMark)
    BY DEF Contract!Fresh, Fresh, Contract!Stored, Stored
  <1>. QED
    BY <1>3, <1>4, <1>5 DEF Contract!Reduced, Reduced

LEMMA CheckedIsPlain ==
    ASSUME NEW s \in Strings
    PROVE  /\ Contract!Checked(s) \in PlainItem
           /\ Contract!Checked(s)[1].val = s
           /\ Contract!Checked(s)[1].runs <= 1
  BY DEF Contract!Checked, Contract!Stored, PlainItem, Part, Runs

\* The validators run once on a string that is new.
LEMMA RewrittenOnce ==
    ASSUME NEW s \in Strings
    PROVE  /\ Rewritten(Fresh(s)) = Stored(s, 1)
           /\ Exempt(opt, Fresh(s)) <=> opt.min = 0 /\ s = Blank
  <1>1. Fresh(s) = <<[val |-> s, runs |-> 0]>>
    BY DEF Fresh, Stored
  <1>2. DOMAIN Fresh(s) = {1} /\ Fresh(s)[1].val = s /\ Fresh(s)[1].runs = 0
    BY <1>1
  <1>3. Rewritten(Fresh(s)) = [i \in {1} |-> [val |-> s, runs |-> 1]]
    BY <1>1, <1>2 DEF Rewritten
  <1>4. Stored(s, 1) = [i \in {1} |-> [val |-> s, runs |-> 1]]
    BY DEF Stored
  <1>. QED
    BY <1>2, <1>3, <1>4 DEF Exempt, Holds

\* Validation of new strings runs the validators at most once on each, and
\* exactly as the contract says if it refuses none.
LEMMA ValidatedOnce ==
    ASSUME opt \in DeclarationType, NEW res \in Seq(PlainItem), AllFresh(res)
    PROVE  /\ \A i \in 1..Len(res) : Validated(opt, res)[i][1].runs <= 1
           /\ ~ValidationFails(opt, res) => Validated(opt, res) = OnceChecked(res)
  <1>1. ASSUME NEW i \in 1..Len(res)
        PROVE  /\ res[i][1].val \in Strings
               /\ res[i] = Fresh(res[i][1].val)
               /\ res[i][1].runs = 0
    <2>1. res[i] \in PlainItem /\ res[i] = Fresh(res[i][1].val)
      BY DEF AllFresh
    <2>2. Fresh(res[i][1].val)[1].runs = 0
      BY DEF Fresh, Stored
    <2>. QED
      BY <2>1, <2>2 DEF PlainItem, Part
  <1>2. \A i \in 1..Len(res) :
            /\ Rewritten(res[i]) = Stored(res[i][1].val, 1)
            /\ Exempt(opt, res[i]) <=> opt.min = 0 /\ res[i][1].val = Blank
    BY <1>1, RewrittenOnce
  <1>3. \A i \in 1..Len(res) : Validated(opt, res)[i] \in {Rewritten(res[i]), res[i]}
    BY DEF Validated
  <1>4. ASSUME NEW i \in 1..Len(res)
        PROVE  Validated(opt, res)[i][1].runs <= 1
    <2>1. Stored(res[i][1].val, 1)[1].runs = 1
      BY DEF Stored
    <2>. QED
      BY <1>1, <1>2, <1>3, <2>1
  <1>5. ASSUME ~ValidationFails(opt, res)
        PROVE  Validated(opt, res) = OnceChecked(res)
    <2>1. \A j \in 1..Len(res) : ~Refused(opt, res[j])
      BY <1>5 DEF ValidationFails
    <2>2. ASSUME NEW i \in 1..Len(res)
          PROVE  (IF /\ opt.validators /\ ~Exempt(opt, res[i])
                     /\ \A j \in 1..i : ~Refused(opt, res[j])
                  THEN Rewritten(res[i]) ELSE res[i]) = Contract!Checked(res[i][1].val)
      <3>1. \A j \in 1..i : ~Refused(opt, res[j])
        BY <2>1
      <3>2. res[i] = Stored(res[i][1].val, 0)
        BY <1>1 DEF Fresh
      <3>3. \A n : Contract!Stored(res[i][1].val, n) = Stored(res[i][1].val, n)
        BY DEF Contract!Stored, Stored
      <3>. QED
        BY <1>2, <3>1, <3>2, <3>3 DEF Contract!Checked
    <2>. QED
      BY <2>2 DEF Validated, OnceChecked
  <1>. QED
    BY <1>4, <1>5

-----------------------------------------------------------------------------
(* run_callback on new results.                                            *)

\* Checking leaves the strings what they are.
LEMMA OnceCheckedType ==
    ASSUME NEW res \in Seq(PlainItem)
    PROVE  /\ OnceChecked(res) \in Seq(PlainItem)
           /\ Len(OnceChecked(res)) = Len(res)
           /\ Strings1(OnceChecked(res)) = Strings1(res)
           /\ AllChecked(OnceChecked(res))
  <1>1. ASSUME NEW i \in 1..Len(res)
        PROVE  /\ Contract!Checked(res[i][1].val) \in PlainItem
               /\ Contract!Checked(res[i][1].val)[1].val = res[i][1].val
    <2>1. res[i] \in PlainItem /\ res[i][1].val \in Strings
      BY DEF PlainItem, Part
    <2>. QED
      BY <2>1, CheckedIsPlain
  <1>2. OnceChecked(res) \in Seq(PlainItem) /\ Len(OnceChecked(res)) = Len(res)
    BY <1>1 DEF OnceChecked
  <1>3. \A i \in 1..Len(res) : OnceChecked(res)[i] = Contract!Checked(res[i][1].val)
    BY DEF OnceChecked
  <1>. HIDE DEF OnceChecked
  <1>. QED
    BY <1>1, <1>2, <1>3 DEF Strings1, AllChecked

\* A default is new whenever it is used.
LEMMA DefaultFresh ==
    ASSUME TypeOK
    PROVE  default \in Seq(PlainItem) /\ default # <<>> /\ AllFresh(default)
  <1>1. PICK v \in Strings : default = <<Fresh(v)>>
    BY DEF TypeOK
  <1>2. Fresh(v)[1].val = v
    BY DEF Fresh, Stored
  <1>. QED
    BY <1>1, <1>2, DefaultType DEF AllFresh

\* What run_callback leaves and hands out, when the results are new.  If it
\* succeeds the callback gets what the contract says the strings stand for.
LEMMA RunKeepsContract ==
    ASSUME TypeOK, NEW res \in Seq(PlainItem), NEW proc \in Seq(Item),
           AllFresh(res), res # <<>> \/ opt.force,
           NEW run, run = RunCallback(res, proc, "parsing")
    PROVE  /\ \A i \in 1..Len(run.results) : run.results[i][1].runs <= 1
           /\ run.state = "validated" => run.outcome # "ok"
           /\ run.outcome = "ok" =>
                /\ run.state = "callback_run"
                /\ res # <<>> => run.results # <<>>
                /\ res # <<>> => Strings1(run.results) = Strings1(res)
                /\ AllChecked(run.results)
                /\ opt.callback => run.got # <<>> /\ run.got = Contract!Meant(Strings1(run.results))
                /\ opt.callback /\ run.results # <<>> => run.got = Chosen(run.proc, run.results)
                /\ ~opt.callback => run.got = <<>>
  <1>. DEFINE given   == IF Forced(res) THEN default ELSE res
              checked == Validated(opt, given)
              out     == Reduced(opt, policy, checked)
              sent    == Chosen(out, checked)
              clears  == Forced(res) /\ opt.callback /\ sent # <<>>
  <1>1. given \in Seq(PlainItem) /\ given # <<>> /\ AllFresh(given)
    BY DefaultFresh DEF Forced
  <1>2. opt \in DeclarationType
    BY DEF TypeOK
  <1>3. run =
          IF ValidationFails(opt, given)
          THEN [results |-> checked, proc |-> proc, state |-> "parsing",
                outcome |-> "ValidationError", got |-> <<>>]
          ELSE IF ReductionFails(opt, policy, checked)
          THEN [results |-> checked, proc |-> <<>>, state |-> "validated",
                outcome |-> "ArgumentMismatch", got |-> <<>>]
          ELSE [results |-> IF clears THEN <<>> ELSE checked,
                proc |-> IF clears THEN <<>> ELSE out,
                state |-> "callback_run",
                outcome |-> IF opt.callback /\ \E i \in DOMAIN sent : Holds(sent[i], Unconvertible)
                            THEN "ConversionError" ELSE "ok",
                got |-> IF opt.callback THEN sent ELSE <<>>]
    BY DEF RunCallback
  <1>4. Forced(res) <=> res = <<>>
    BY DEF Forced
  <1>5. Forced(res) => given = default
    OBVIOUS
  <1>6. ~Forced(res) => given = res
    OBVIOUS
  <1>. HIDE DEF given
  <1>7. /\ \A i \in 1..Len(given) : checked[i][1].runs <= 1
        /\ ~ValidationFails(opt, given) => checked = OnceChecked(given)
        /\ checked \in Seq(PlainItem) /\ Len(checked) = Len(given)
    BY <1>1, <1>2, ValidatedOnce, ValidatedType
  <1>. HIDE DEF checked
  <1>8. checked # <<>>
    BY <1>1, <1>7
  <1>9. sent # <<>>
    BY <1>8 DEF Chosen
  <1>10. \A i \in 1..Len(run.results) : run.results[i][1].runs <= 1
    <2>1. run.results = checked \/ run.results = <<>>
      BY <1>3
    <2>. QED
      BY <1>7, <2>1
  <1>11. ASSUME run.outcome = "ok"
         PROVE  /\ ~ValidationFails(opt, given)
                /\ run.state = "callback_run"
                /\ run.results = IF clears THEN <<>> ELSE checked
                /\ run.proc = IF clears THEN <<>> ELSE out
                /\ run.got = IF opt.callback THEN sent ELSE <<>>
    <2>. HIDE DEF out, sent, clears
    <2>. QED
      BY <1>3, <1>11
  <1>12. ~ValidationFails(opt, given) => /\ Strings1(checked) = Strings1(given)
                                        /\ AllChecked(checked)
    BY <1>1, <1>7, OnceCheckedType
  <1>13. AllChecked(<<>>)
    BY DEF AllChecked
  <1>14. ASSUME run.outcome = "ok", opt.callback
         PROVE  run.got = Contract!Meant(Strings1(run.results))
    <2>1. run.got = Chosen(Reduced(opt, policy, OnceChecked(given)), OnceChecked(given))
      BY <1>7, <1>11, <1>14
    <2>2. \A x, y : Contract!Chosen(x, y) = Chosen(x, y)
      BY DEF Contract!Chosen, Chosen
    <2>3. CASE Forced(res)
      <3>1. Strings1(run.results) = <<>>
        BY <1>9, <1>11, <1>14, <2>3 DEF Strings1
      <3>2. OnceChecked(default) = [i \in 1..Len(default) |-> Contract!Checked(default[i][1].val)]
        BY DEF OnceChecked
      <3>. QED
        BY <1>5, <2>1, <2>2, <2>3, <3>1, <3>2, SameReduction DEF Contract!Meant
    <2>4. CASE ~Forced(res)
      <3>1. Strings1(run.results) = Strings1(given)
        BY <1>11, <1>12, <1>14, <2>4
      <3>2. Strings1(given) # <<>> /\ Len(Strings1(given)) = Len(given)
        BY <1>1 DEF Strings1
      <3>3. OnceChecked(given) = [i \in 1..Len(Strings1(given)) |-> Contract!Checked(Strings1(given)[i])]
        BY <1>1 DEF OnceChecked, Strings1
      <3>. QED
        BY <2>1, <2>2, <3>1, <3>2, <3>3, SameReduction DEF Contract!Meant
    <2>. QED
      BY <2>3, <2>4
  <1>. QED
    <2>1. run.state = "validated" => run.outcome # "ok"
      BY <1>11
    <2>. HIDE DEF out, sent
    <2>2. clears <=> res = <<>> /\ opt.callback
      BY <1>4, <1>9
    <2>. HIDE DEF clears
    <2>3. ASSUME run.outcome = "ok"
          PROVE  /\ run.state = "callback_run"
                 /\ res # <<>> => run.results # <<>>
                 /\ res # <<>> => Strings1(run.results) = Strings1(res)
                 /\ AllChecked(run.results)
      BY <1>4, <1>6, <1>8, <1>11, <1>12, <1>13, <2>2, <2>3
    <2>4. ASSUME run.outcome = "ok", opt.callback, run.results # <<>>
          PROVE  run.got = Chosen(run.proc, run.results)
      BY <1>11, <2>2, <2>4 DEF sent
    <2>. QED
      BY <1>9, <1>10, <1>11, <1>14, <2>1, <2>3, <2>4

-----------------------------------------------------------------------------
(* The invariant.                                                          *)

\* The declarations and calls under which an option keeps its contract.
\* Otherwise: results stay when a subcommand that completes without
\* immediate_callback_ is used again, an empty vector leaves the trigger of a
\* vector positional without strings to run on and the next one validates
\* again, and programs that set defaults or policies reach into the buffers.
Ordinary ==
    /\ ClientCalls \subseteq {"reads"}
    /\ \A d \in Declarations :
        /\ d.completes => d.resets
        /\ d.trigger => ~(d.positional /\ d.max > 1)

\* Results wait unvalidated while the App is parsing, and the callback has
\* got those that have been validated.
Waiting ==
    /\ phase = "never" => state = "parsing" /\ results = <<>>
    /\ state = "validated" => phase = "failed"
    /\ phase = "cmdline" /\ ~opt.trigger => state = "parsing"
    /\ phase \in Parsing \cup {"ok"} /\ state = "parsing" => AllFresh(results)

\* No result is validated twice, and those that were delivered once.
Counted ==
    /\ \A i \in 1..Len(results) : results[i][1].runs <= 1
    /\ phase # "failed" /\ state = "callback_run" => AllChecked(results)

\* What the callback got is what a read hands out.
Agreed ==
    phase # "failed" /\ state = "callback_run" /\ opt.callback /\ results # <<>> =>
        /\ bound = Chosen(procResults, results)
        /\ call.op = "as" /\ call.outcome = "ok" => call.got = bound

ContractInv ==
    /\ phase # "stream"
    /\ opt.completes => opt.resets
    /\ opt.trigger => ~(opt.positional /\ opt.max > 1)
    /\ Waiting
    /\ Counted
    /\ Agreed

LEMMA InitContractInv ==
    ASSUME Ordinary
    PROVE  Init => ContractInv
  BY DEF Init, Ordinary, ContractInv, Waiting, Counted, Agreed, AllFresh, Parsing, Resting

LEMMA FreshRuns ==
    ASSUME NEW res \in Seq(PlainItem), AllFresh(res)
    PROVE  \A i \in 1..Len(res) : res[i][1].runs <= 1
  <1>1. \A s : Fresh(s)[1].runs = 0
    BY DEF Fresh, Stored
  <1>. QED
    BY <1>1 DEF AllFresh

LEMMA AddedFresh ==
    ASSUME NEW vs \in Arguments
    PROVE  AllFresh(Added(vs)) /\ Added(vs) \in Seq(PlainItem) /\ (vs # <<>> => Added(vs) # <<>>)
  <1>1. Added(vs) \in Seq(PlainItem) /\ (vs # <<>> => Added(vs) # <<>>)
    BY ArgumentsType
  <1>2. ASSUME NEW i \in 1..Len(Added(vs))
        PROVE  Added(vs)[i] = Fresh(Added(vs)[i][1].val)
    <2>1. Len(Added(vs)) = Len(vs)
      <3>1. PICK n \in 0..MaxArgument : vs \in [1..n -> Typed]
        BY DEF Arguments
      <3>. QED
        BY <3>1, DeclarationsAssumption DEF Added
    <2>2. Added(vs)[i] = Fresh(vs[i])
      BY <2>1 DEF Added
    <2>3. Fresh(vs[i])[1].val = vs[i]
      BY DEF Fresh, Stored
    <2>. QED
      BY <2>2, <2>3
  <1>. QED
    BY <1>1, <1>2 DEF AllFresh

\* Only a vector takes an argument without strings.
LEMMA ArgumentsVector ==
    ASSUME NEW vs \in Arguments, vs = <<>>
    PROVE  opt.max > 1
  BY DEF Arguments, TakesVectors

LEMMA FreshAppended ==
    ASSUME NEW x \in Seq(PlainItem), NEW y \in Seq(PlainItem), AllFresh(x), AllFresh(y)
    PROVE  /\ x \o y \in Seq(PlainItem) /\ AllFresh(x \o y)
           /\ IsPrefix(Strings1(x), Strings1(x \o y))
  <1>1. x \o y \in Seq(PlainItem) /\ Len(x \o y) = Len(x) + Len(y)
    OBVIOUS
  <1>2. \A i \in 1..Len(x \o y) : (x \o y)[i] = IF i <= Len(x) THEN x[i] ELSE y[i - Len(x)]
    OBVIOUS
  <1>3. AllFresh(x \o y)
    <2>1. ASSUME NEW i \in 1..Len(x \o y)
          PROVE  (x \o y)[i] = Fresh((x \o y)[i][1].val)
      <3>1. CASE i <= Len(x)
        BY <1>1, <1>2, <3>1 DEF AllFresh
      <3>2. CASE ~(i <= Len(x))
        <4>1. i - Len(x) \in 1..Len(y)
          BY <1>1, <3>2
        <4>. QED
          BY <1>1, <1>2, <3>2, <4>1 DEF AllFresh
      <3>. QED
        BY <3>1, <3>2
    <2>. QED
      BY <2>1 DEF AllFresh
  <1>4. IsPrefix(Strings1(x), Strings1(x \o y))
    <2>1. Len(Strings1(x)) = Len(x) /\ Len(Strings1(x \o y)) = Len(x) + Len(y)
      BY <1>1 DEF Strings1
    <2>2. \A i \in 1..Len(x) : Strings1(x)[i] = Strings1(x \o y)[i]
      BY <1>1, <1>2 DEF Strings1
    <2>. QED
      BY <1>1, <2>1, <2>2 DEF IsPrefix
  <1>. QED
    BY <1>1, <1>3, <1>4

\* A run of the callback on new results, and what becomes of the phase.
RunsOn(res, proc) ==
    /\ Delivers(RunCallback(res, proc, "parsing"))
    /\ phase' = IF RunCallback(res, proc, "parsing").outcome = "ok" THEN phase ELSE "failed"
    /\ UNCHANGED outside

LEMMA RunKeepsContractInv ==
    ASSUME TypeOK, ContractInv, NEW res \in Seq(PlainItem), NEW proc \in Seq(Item),
           AllFresh(res), res # <<>> \/ opt.force,
           phase \in Parsing, phase = "cmdline" => opt.trigger,
           RunsOn(res, proc)
    PROVE  ContractInv'
  <1>. DEFINE run == RunCallback(res, proc, "parsing")
  <1>1. /\ \A i \in 1..Len(run.results) : run.results[i][1].runs <= 1
        /\ run.state = "validated" => run.outcome # "ok"
        /\ run.outcome = "ok" =>
             /\ run.state = "callback_run"
             /\ AllChecked(run.results)
             /\ opt.callback => run.got # <<>>
             /\ opt.callback /\ run.results # <<>> => run.got = Chosen(run.proc, run.results)
    BY RunKeepsContract
  <1>2. /\ results' = run.results /\ procResults' = run.proc /\ state' = run.state
        /\ bound' = IF run.outcome = "ok" /\ run.got # <<>> THEN run.got ELSE bound
        /\ call' = [op |-> "callback", outcome |-> run.outcome, got |-> run.got]
        /\ phase' = IF run.outcome = "ok" THEN phase ELSE "failed"
        /\ UNCHANGED <<opt, policy, default>>
    BY DEF RunsOn, Delivers, Said, outside
  <1>. HIDE DEF run
  <1>3. Waiting'
    BY <1>1, <1>2 DEF Waiting, Parsing
  <1>4. AllChecked(run.results) => AllChecked(results)'
    BY <1>2 DEF AllChecked, Contract!Checked, Contract!Stored
  <1>5. Counted'
    BY <1>1, <1>2, <1>4 DEF Counted
  <1>6. Agreed'
    BY <1>1, <1>2 DEF Agreed
  <1>. QED
    BY <1>2, <1>3, <1>5, <1>6 DEF ContractInv, Parsing

\* A step that only adds new results, or none.
LEMMA QuietKeepsContractInv ==
    ASSUME TypeOK, ContractInv, results' \in Seq(PlainItem),
           \/ /\ state' = "parsing"
              /\ AllFresh(results')
           \/ /\ UNCHANGED <<results, procResults, state, bound>>
              /\ phase \in Parsing,
           phase' = "cmdline" /\ ~opt.trigger => state' = "parsing",
           phase' \in (Parsing \ {"stream"}) \cup {"ok", "failed"},
           NEW op \in Operations \ {"as"}, call' = Quiet(op), UNCHANGED outside
    PROVE  ContractInv'
  <1>1. call'.op # "as" /\ UNCHANGED <<opt, policy, default>>
    BY DEF Quiet, Said, outside
  <1>2. CASE state' = "parsing" /\ AllFresh(results')
    <2>1. \A i \in 1..Len(results') : results'[i][1].runs <= 1
      BY <1>2, FreshRuns
    <2>2. Waiting'
      BY <1>2 DEF Waiting, Parsing, AllFresh, Fresh, Stored
    <2>. QED
      BY <1>1, <1>2, <2>1, <2>2 DEF ContractInv, Counted, Agreed, Parsing
  <1>3. CASE UNCHANGED <<results, procResults, state, bound>> /\ phase \in Parsing
    <2>1. Waiting'
      BY <1>1, <1>3 DEF ContractInv, Waiting, Parsing, AllFresh, Fresh, Stored
    <2>2. Counted'
      BY <1>1, <1>3
      DEF ContractInv, Counted, Waiting, Parsing, AllChecked, Contract!Checked, Contract!Stored
    <2>3. Agreed'
      BY <1>1, <1>3 DEF ContractInv, Agreed, Waiting, Parsing
    <2>. QED
      BY <1>1, <2>1, <2>2, <2>3 DEF ContractInv, Parsing
  <1>. QED
    BY <1>2, <1>3

LEMMA NextContractInv ==
    ASSUME Ordinary, IInv, ContractInv, [Next]_vars
    PROVE  ContractInv'
  <1>1. /\ TypeOK /\ TypeOK'
        /\ results \in Seq(PlainItem) /\ procResults \in Seq(Item)
        /\ results' \in Seq(PlainItem)
    BY NextIInv DEF IInv, TypeOK
  <1>2. <<>> \in Seq(PlainItem) /\ AllFresh(<<>>)
    BY DEF AllFresh
  <1>3. "parse" \in Operations \ {"as"}
    BY DEF Operations
  <1>4. CASE BeginParse
    <2>1. results' = <<>> /\ state' = "parsing"
      BY <1>4 DEF BeginParse, Clear, ContractInv, Waiting, optionVars
    <2>. QED
      BY <1>1, <1>2, <1>3, <1>4, <2>1, QuietKeepsContractInv DEF BeginParse, Parsing
  <1>5. CASE ParseArgument
    <2>. DEFINE kept == IF Restarts THEN <<>> ELSE results
                proc == IF Restarts THEN <<>> ELSE procResults
    <2>1. PICK vs \in Arguments :
            /\ vs = <<>> => opt.positional
            /\ \/ /\ opt.trigger /\ kept \o Added(vs) # <<>>
                  /\ RunsOn(kept \o Added(vs), proc)
               \/ /\ ~(opt.trigger /\ kept \o Added(vs) # <<>>)
                  /\ results' = IF Restarts THEN results ELSE kept \o Added(vs)
                  /\ state' = "parsing"
                  /\ call' = Quiet("parse")
                  /\ UNCHANGED <<phase, bound, deliveries>>
      BY <1>5 DEF ParseArgument, RunsOn
    <2>2. phase = "cmdline" /\ phase \in Parsing /\ UNCHANGED outside
      BY <1>5 DEF ParseArgument, Parsing
    <2>3. opt.trigger => vs # <<>>
      BY <2>1, ArgumentsVector DEF ContractInv
    <2>4. AllFresh(Added(vs)) /\ Added(vs) \in Seq(PlainItem) /\ (vs # <<>> => Added(vs) # <<>>)
      BY AddedFresh
    <2>5. kept \in Seq(PlainItem) /\ proc \in Seq(Item) /\ AllFresh(kept)
      BY <1>1, <1>2, <2>2 DEF ContractInv, Waiting, Restarts, IInv, TypeOK, OptionStates
    <2>. HIDE DEF kept, proc
    <2>6. kept \o Added(vs) \in Seq(PlainItem) /\ AllFresh(kept \o Added(vs))
      BY <2>4, <2>5, FreshAppended
    <2>7. CASE opt.trigger
      <3>1. kept \o Added(vs) # <<>>
        BY <2>3, <2>4, <2>5, <2>7
      <3>. QED
        BY <1>1, <2>1, <2>2, <2>5, <2>6, <2>7, <3>1, RunKeepsContractInv
    <2>8. CASE ~opt.trigger
      <3>1. results' = kept \o Added(vs) /\ state' = "parsing" /\ call' = Quiet("parse")
            /\ phase' = phase
        BY <2>1, <2>8 DEF Restarts
      <3>. QED
        BY <1>1, <1>3, <2>2, <2>6, <3>1, QuietKeepsContractInv DEF Parsing
    <2>. QED
      BY <2>7, <2>8
  <1>6. CASE ReenterOwner \/ EnterSection
    <2>1. opt.resets /\ phase # "stream"
      BY <1>6 DEF ReenterOwner, EnterSection, ContractInv
    <2>2. /\ results' = <<>> /\ state' = "parsing" /\ phase' \in {"cmdline", "section"}
          /\ call' = Quiet("parse") /\ UNCHANGED outside
      BY <1>6, <2>1 DEF ReenterOwner, EnterSection, Retriggered, Clear, Moves
    <2>. QED
      BY <1>1, <1>2, <1>3, <2>2, QuietKeepsContractInv DEF Parsing
  <1>7. CASE NextStage
    <2>1. /\ phase \in Parsing /\ UNCHANGED <<results, procResults, state, bound>>
          /\ phase' \in {"early", "sources", "late", "ok"}
          /\ call' = Quiet("parse") /\ UNCHANGED outside
      BY <1>7 DEF NextStage, Moves, Parsing, optionVars
    <2>. QED
      BY <1>1, <1>3, <2>1, QuietKeepsContractInv DEF Parsing
  <1>8. CASE ProcessEnv
    <2>1. PICK v \in Typed : results' = <<Fresh(v)>>
      BY <1>8 DEF ProcessEnv
    <2>2. AllFresh(results')
      BY <2>1 DEF AllFresh, Fresh, Stored
    <2>. QED
      BY <1>1, <1>3, <1>8, <2>2, QuietKeepsContractInv DEF ProcessEnv, Parsing
  <1>9. CASE ProcessConfig
    <2>1. PICK vs \in Arguments :
            /\ vs # <<>>
            /\ \/ RunsOn(Added(vs), procResults)
               \/ /\ results' = Added(vs)
                  /\ state' = "parsing"
                  /\ call' = Quiet("parse")
                  /\ UNCHANGED phase
      BY <1>9 DEF ProcessConfig, RunsOn
    <2>2. AllFresh(Added(vs)) /\ Added(vs) \in Seq(PlainItem) /\ Added(vs) # <<>>
      BY <2>1, AddedFresh
    <2>3. phase \in {"section", "sources"} /\ phase \in Parsing /\ UNCHANGED outside
      BY <1>9 DEF ProcessConfig, ContractInv, Parsing
    <2>4. CASE RunsOn(Added(vs), procResults)
      BY <1>1, <2>2, <2>3, <2>4, RunKeepsContractInv
    <2>5. CASE ~RunsOn(Added(vs), procResults)
      BY <1>1, <1>3, <2>1, <2>2, <2>3, <2>5, QuietKeepsContractInv DEF Parsing
    <2>. QED
      BY <2>4, <2>5
  <1>10. CASE ProcessCallback
    <2>1. /\ results # <<>> \/ opt.force
          /\ phase \in {"early", "late"} /\ phase \in Parsing
          /\ state # "callback_run"
      BY <1>10 DEF ProcessCallback, Due, Parsing
    <2>2. state = "parsing" /\ AllFresh(results)
      BY <1>1, <2>1 DEF ContractInv, Waiting, IInv, TypeOK, OptionStates
    <2>3. RunsOn(results, procResults)
      BY <1>10, <2>2 DEF ProcessCallback, RunsOn
    <2>. QED
      BY <1>1, <2>1, <2>2, <2>3, RunKeepsContractInv
  <1>11. CASE ParseFails
    <2>1. /\ phase \in Parsing /\ UNCHANGED <<results, procResults, state, bound>>
          /\ phase' = "failed" /\ call' = Quiet("parse") /\ UNCHANGED outside
      BY <1>11 DEF ParseFails, Moves, optionVars
    <2>. QED
      BY <1>1, <1>3, <2>1, QuietKeepsContractInv
  <1>12. CASE Read
    <2>1. /\ call' = As /\ UNCHANGED <<opt, policy, default, results, state, phase, bound>>
          /\ procResults' = IF As.outcome = "ok" /\ ~(ReadsStored /\ Chosen(procResults, results) # <<>>)
                            THEN As.got ELSE procResults
      BY <1>12 DEF Read, outside
    <2>2. Waiting' /\ Counted'
      BY <2>1
      DEF ContractInv, Waiting, Counted, Parsing, AllFresh, Fresh, Stored, AllChecked,
          Contract!Checked, Contract!Stored
    <2>3. Agreed'
      <3>. SUFFICES ASSUME phase # "failed", state = "callback_run", opt.callback, results # <<>>
                    PROVE  /\ bound = Chosen(procResults', results)
                           /\ call'.got = bound
        BY <2>1 DEF Agreed
      <3>1. bound = Chosen(procResults, results)
        BY DEF ContractInv, Agreed
      <3>2. ReadsStored /\ Chosen(procResults, results) # <<>>
        BY DEF ReadsStored, Chosen
      <3>3. As = Said("as", "ok", bound)
        BY <3>1, <3>2 DEF As
      <3>. QED
        BY <2>1, <3>1, <3>2, <3>3 DEF Said
    <2>. QED
      BY <2>1, <2>2, <2>3 DEF ContractInv
  <1>13. CASE ReadReduced
    <2>1. /\ UNCHANGED <<opt, policy, default, results, procResults, state, phase, bound>>
          /\ call' = ReducedResults
      BY <1>13 DEF ReadReduced, outside, optionVars
    <2>2. call'.op = "reduced_results"
      BY <2>1 DEF ReducedResults, ReducedFrom, Said
    <2>3. Agreed'
      BY <2>1, <2>2 DEF ContractInv, Agreed
    <2>. QED
      BY <2>1, <2>3
      DEF ContractInv, Waiting, Counted, Parsing, AllFresh, Fresh, Stored, AllChecked,
          Contract!Checked, Contract!Stored
  <1>14. CASE UNCHANGED vars
    BY <1>14
    DEF vars, ContractInv, Waiting, Counted, Agreed, Parsing, AllFresh, Fresh, Stored,
        AllChecked, Contract!Checked, Contract!Stored
  <1>15. ~BeginStream /\ ~DefaultVal /\ ~MultiOptionPolicy /\ ~AddResult
    BY DEF Ordinary, BeginStream, DefaultVal, MultiOptionPolicy, AddResult
  <1>. QED
    BY <1>4, <1>5, <1>6, <1>7, <1>8, <1>9, <1>10, <1>11, <1>12, <1>13, <1>14, <1>15
    DEF Next, ParserNext, ClientNext

-----------------------------------------------------------------------------
(* The refinement.                                                         *)

LEMMA InitRefines == Init => Contract!Init
  BY DEF Init, Contract!Init, Parsing

LEMMA SamePrefix ==
    ASSUME NEW s, NEW t
    PROVE  Contract!IsPrefix(s, t) <=> IsPrefix(s, t)
  BY DEF Contract!IsPrefix, IsPrefix

LEMMA PrefixOfAny ==
    ASSUME NEW s \in Seq(Strings)
    PROVE  IsPrefix(<<>>, s) /\ IsPrefix(s, s)
  BY DEF IsPrefix

LEMMA StringsType ==
    ASSUME NEW res \in Seq(PlainItem)
    PROVE  Strings1(res) \in Seq(Strings) /\ (Strings1(res) = <<>> <=> res = <<>>)
  <1>1. \A i \in 1..Len(res) : res[i][1].val \in Strings
    BY DEF PlainItem, Part
  <1>. QED
    BY <1>1 DEF Strings1

\* Whoever runs the callback delivers, or fails.
LEMMA RunRefines ==
    ASSUME TypeOK, TypeOK', NEW res \in Seq(PlainItem), NEW proc \in Seq(Item),
           AllFresh(res), res # <<>> \/ opt.force,
           phase \in Parsing, RunsOn(res, proc),
           IsPrefix(IF opt.trigger /\ state = "callback_run" THEN <<>> ELSE Strings1(results),
                    Strings1(res)),
           state = "callback_run" => opt.trigger \/ results = <<>>
    PROVE  Contract!Next
  <1>. DEFINE run == RunCallback(res, proc, "parsing")
              pending == IF opt.trigger /\ state = "callback_run" THEN <<>> ELSE Strings1(results)
  <1>1. run.outcome = "ok" =>
          /\ run.state = "callback_run"
          /\ res # <<>> => run.results # <<>>
          /\ res # <<>> => Strings1(run.results) = Strings1(res)
          /\ opt.callback => run.got # <<>> /\ run.got = Contract!Meant(Strings1(run.results))
          /\ ~opt.callback => run.got = <<>>
    BY RunKeepsContract
  <1>2. /\ results' = run.results /\ state' = run.state
        /\ bound' = IF run.outcome = "ok" /\ run.got # <<>> THEN run.got ELSE bound
        /\ phase' = IF run.outcome = "ok" THEN phase ELSE "failed"
        /\ UNCHANGED <<opt, policy, default>>
    BY DEF RunsOn, Delivers, outside
  <1>. HIDE DEF run
  <1>3. CASE run.outcome # "ok"
    <2>1. Contract!Fail
      BY <1>2, <1>3 DEF Contract!Fail, Parsing
    <2>. QED
      BY <1>2, <2>1 DEF Contract!Next, Contract!declaration
  <1>4. CASE run.outcome = "ok"
    <2>1. results \in Seq(PlainItem) /\ results' \in Seq(PlainItem)
      BY DEF TypeOK
    <2>2. IsPrefix(pending, Strings1(results'))
      <3>1. CASE res # <<>>
        BY <1>1, <1>2, <1>4, <3>1
      <3>2. CASE res = <<>>
        <4>1. pending = <<>>
          <5>1. Strings1(results) \in Seq(Strings)
            BY <2>1, StringsType
          <5>2. Strings1(res) = <<>>
            BY <3>2 DEF Strings1
          <5>. QED
            BY <5>1, <5>2 DEF IsPrefix
        <4>. QED
          BY <2>1, <4>1, StringsType, PrefixOfAny
      <3>. QED
        BY <3>1, <3>2
    <2>3. state = "callback_run" => pending = <<>>
      BY DEF Strings1
    <2>4. Strings1(results') # <<>> \/ opt.force
      BY <1>1, <1>2, <1>4, <2>1, StringsType
    <2>5. bound' = IF opt.callback THEN Contract!Meant(Strings1(results')) ELSE bound
      BY <1>1, <1>2, <1>4
    <2>6. state' = "callback_run" /\ phase' = phase
      BY <1>1, <1>2, <1>4
    <2>7. Contract!IsPrefix(pending, Strings1(results'))
      BY <2>2, SamePrefix
    <2>8. Contract!Deliver
      BY <2>3, <2>4, <2>5, <2>6, <2>7 DEF Contract!Deliver, Contract!Pending, Strings1
    <2>. QED
      BY <1>2, <2>8 DEF Contract!Next, Contract!declaration
  <1>. QED
    BY <1>3, <1>4

\* Whoever adds strings collects.
LEMMA CollectRefines ==
    ASSUME results \in Seq(PlainItem), results' \in Seq(PlainItem),
           phase \in Parsing, phase' \in Parsing, UNCHANGED <<outside, bound>>,
           state' = "parsing", state = "callback_run" => results = <<>>,
           IsPrefix(Strings1(results), Strings1(results'))
    PROVE  Contract!Next
  <1>1. Strings1(results) \in Seq(Strings) /\ (Strings1(results) = <<>> <=> results = <<>>)
    BY StringsType
  <1>2. Strings1(results') \in Seq(Strings)
    BY StringsType
  <1>3. Contract!IsPrefix(Strings1(results), Strings1(results'))
    BY SamePrefix
  <1>4. state = "callback_run" => Strings1(results) = <<>>
    BY <1>1
  <1>5. Contract!Collect
    BY <1>3, <1>4 DEF Contract!Collect, Contract!Pending, Strings1
  <1>. QED
    BY <1>5 DEF Contract!Next, Contract!declaration, outside

LEMMA NextRefines ==
    ASSUME Ordinary, IInv, ContractInv, [Next]_vars
    PROVE  [Contract!Next]_<<Contract!contract, Contract!declaration>>
  <1>1. /\ TypeOK /\ TypeOK'
        /\ results \in Seq(PlainItem) /\ procResults \in Seq(Item)
        /\ results' \in Seq(PlainItem)
    BY NextIInv DEF IInv, TypeOK
  <1>2. AllFresh(<<>>) /\ <<>> \in Seq(PlainItem) /\ Strings1(<<>>) = <<>>
    BY DEF AllFresh, Strings1
  <1>3. ASSUME UNCHANGED <<results, state, bound, opt, policy, default>>,
               phase' \in Parsing <=> phase \in Parsing
        PROVE  UNCHANGED <<Contract!contract, Contract!declaration>>
    BY <1>3 DEF Contract!contract, Contract!declaration
  <1>4. CASE BeginParse
    <2>1. results' = <<>> /\ state' = "parsing"
      BY <1>4 DEF BeginParse, Clear, ContractInv, Waiting, optionVars
    <2>2. Contract!Begin
      BY <1>4, <2>1 DEF BeginParse, Contract!Begin, Parsing, Resting
    <2>. QED
      BY <1>4, <2>2 DEF BeginParse, Contract!Next, Contract!declaration, outside
  <1>5. CASE ParseArgument
    <2>. DEFINE kept == IF Restarts THEN <<>> ELSE results
                proc == IF Restarts THEN <<>> ELSE procResults
                pending == IF opt.trigger /\ state = "callback_run" THEN <<>>
                           ELSE Strings1(results)
    <2>1. PICK vs \in Arguments :
            /\ vs = <<>> => opt.positional
            /\ \/ /\ opt.trigger /\ kept \o Added(vs) # <<>>
                  /\ RunsOn(kept \o Added(vs), proc)
               \/ /\ ~(opt.trigger /\ kept \o Added(vs) # <<>>)
                  /\ results' = IF Restarts THEN results ELSE kept \o Added(vs)
                  /\ state' = "parsing"
                  /\ UNCHANGED <<phase, bound>>
      BY <1>5 DEF ParseArgument, RunsOn
    <2>2. phase = "cmdline" /\ phase \in Parsing /\ UNCHANGED outside
      BY <1>5 DEF ParseArgument, Parsing
    <2>3. opt.trigger => vs # <<>>
      BY <2>1, ArgumentsVector DEF ContractInv
    <2>4. AllFresh(Added(vs)) /\ Added(vs) \in Seq(PlainItem) /\ (vs # <<>> => Added(vs) # <<>>)
      BY AddedFresh
    <2>5. kept \in Seq(PlainItem) /\ proc \in Seq(Item) /\ AllFresh(kept)
      BY <1>1, <1>2, <2>2 DEF ContractInv, Waiting, Restarts, IInv, TypeOK, OptionStates
    <2>6. pending = Strings1(kept)
      BY <1>2 DEF Restarts
    <2>7. state = "callback_run" => opt.trigger
      BY <2>2 DEF ContractInv, Waiting
    <2>8. ~opt.trigger => kept = results
      BY DEF Restarts
    <2>. HIDE DEF kept, proc
    <2>9. /\ kept \o Added(vs) \in Seq(PlainItem) /\ AllFresh(kept \o Added(vs))
          /\ IsPrefix(pending, Strings1(kept \o Added(vs)))
      BY <2>4, <2>5, <2>6, FreshAppended
    <2>10. CASE opt.trigger
      <3>1. kept \o Added(vs) # <<>>
        BY <2>3, <2>4, <2>5, <2>10
      <3>2. RunsOn(kept \o Added(vs), proc)
        BY <2>1, <2>10, <3>1
      <3>3. Contract!Next
        BY <1>1, <2>2, <2>5, <2>7, <2>9, <2>10, <3>1, <3>2, RunRefines
      <3>. QED
        BY <3>3
    <2>11. CASE ~opt.trigger
      <3>1. results' = kept \o Added(vs) /\ state' = "parsing" /\ UNCHANGED <<phase, bound>>
        BY <2>1, <2>11 DEF Restarts
      <3>2. IsPrefix(Strings1(results), Strings1(results'))
        BY <2>8, <2>6, <2>9, <2>11, <3>1
      <3>3. Contract!Next
        BY <1>1, <2>2, <2>7, <2>11, <3>1, <3>2, CollectRefines
      <3>. QED
        BY <3>3
    <2>. QED
      BY <2>10, <2>11
  <1>6. CASE ReenterOwner \/ EnterSection
    <2>1. opt.resets /\ phase # "stream"
      BY <1>6 DEF ReenterOwner, EnterSection, ContractInv
    <2>2. /\ phase = "late" /\ phase' \in {"cmdline", "section"}
          /\ results' = <<>> /\ state' = "parsing"
          /\ ~Due /\ UNCHANGED <<outside, bound>>
      BY <1>6, <2>1 DEF ReenterOwner, EnterSection, Retriggered, Clear, Moves
    <2>3. Contract!Settled
      BY <1>1, <2>2 DEF Contract!Settled, Due
    <2>4. Contract!Reenter
      BY <2>2, <2>3 DEF Contract!Reenter, Parsing
    <2>. QED
      BY <2>2, <2>4 DEF Contract!Next, Contract!declaration, outside
  <1>7. CASE NextStage
    <2>1. ~Due /\ UNCHANGED <<opt, policy, default, results, procResults, state, bound>>
      BY <1>7 DEF NextStage, outside, optionVars
    <2>2. CASE phase # "late"
      <3>1. phase \in Parsing /\ phase' \in Parsing
        BY <1>7, <2>2 DEF NextStage, Moves, Parsing
      <3>. QED
        BY <1>3, <2>1, <3>1
    <2>3. CASE phase = "late"
      <3>1. phase' = "ok"
        BY <1>7, <2>3 DEF NextStage, Moves
      <3>2. Contract!Settled
        BY <1>1, <2>1, <2>3 DEF Contract!Settled, Due
      <3>3. Contract!Succeed
        BY <2>1, <2>3, <3>1, <3>2 DEF Contract!Succeed, Parsing
      <3>. QED
        BY <2>1, <3>3 DEF Contract!Next, Contract!declaration
    <2>. QED
      BY <2>2, <2>3
  <1>8. CASE ProcessEnv
    <2>1. /\ phase = "sources" /\ phase' = phase /\ results = <<>> /\ state' = "parsing"
          /\ UNCHANGED <<outside, bound>>
      BY <1>8 DEF ProcessEnv
    <2>2. IsPrefix(Strings1(results), Strings1(results'))
      BY <1>1, <1>2, <2>1, StringsType, PrefixOfAny
    <2>3. Contract!Next
      BY <1>1, <2>1, <2>2, CollectRefines DEF Parsing
    <2>. QED
      BY <2>3
  <1>9. CASE ProcessConfig
    <2>1. PICK vs \in Arguments :
            /\ vs # <<>>
            /\ \/ RunsOn(Added(vs), procResults)
               \/ /\ results' = Added(vs)
                  /\ state' = "parsing"
                  /\ UNCHANGED <<phase, bound>>
      BY <1>9 DEF ProcessConfig, RunsOn
    <2>2. AllFresh(Added(vs)) /\ Added(vs) \in Seq(PlainItem) /\ Added(vs) # <<>>
      BY <2>1, AddedFresh
    <2>3. /\ phase \in {"section", "sources"} /\ phase \in Parsing
          /\ results = <<>> /\ UNCHANGED outside
      BY <1>9 DEF ProcessConfig, ContractInv, Parsing
    <2>4. Strings1(results) = <<>>
      BY <1>2, <2>3
    <2>5. IsPrefix(<<>>, Strings1(Added(vs)))
      BY <2>2, StringsType, PrefixOfAny
    <2>6. CASE RunsOn(Added(vs), procResults)
      <3>1. Contract!Next
        BY <1>1, <2>2, <2>3, <2>4, <2>5, <2>6, RunRefines
      <3>. QED
        BY <3>1
    <2>7. CASE ~RunsOn(Added(vs), procResults)
      <3>1. Contract!Next
        BY <1>1, <2>1, <2>2, <2>3, <2>4, <2>5, <2>7, CollectRefines
      <3>. QED
        BY <3>1
    <2>. QED
      BY <2>6, <2>7
  <1>10. CASE ProcessCallback
    <2>1. /\ results # <<>> \/ opt.force
          /\ phase \in {"early", "late"} /\ phase \in Parsing
          /\ state # "callback_run"
      BY <1>10 DEF ProcessCallback, Due, Parsing
    <2>2. state = "parsing" /\ AllFresh(results)
      BY <1>1, <2>1 DEF ContractInv, Waiting, IInv, TypeOK, OptionStates
    <2>3. RunsOn(results, procResults)
      BY <1>10, <2>2 DEF ProcessCallback, RunsOn
    <2>4. IsPrefix(Strings1(results), Strings1(results))
      BY <1>1, StringsType, PrefixOfAny
    <2>5. Contract!Next
      BY <1>1, <2>1, <2>2, <2>3, <2>4, RunRefines
    <2>. QED
      BY <2>5
  <1>11. CASE ParseFails
    <2>1. Contract!Fail
      BY <1>11 DEF ParseFails, Moves, Contract!Fail, Parsing
    <2>. QED
      BY <1>11, <2>1 DEF ParseFails, Contract!Next, Contract!declaration, outside
  <1>12. CASE Read
    BY <1>3, <1>12 DEF Read, outside
  <1>13. CASE ReadReduced
    BY <1>3, <1>13 DEF ReadReduced, outside, optionVars
  <1>14. CASE UNCHANGED vars
    BY <1>3, <1>14 DEF vars
  <1>15. ~BeginStream /\ ~DefaultVal /\ ~MultiOptionPolicy /\ ~AddResult
    BY DEF Ordinary, BeginStream, DefaultVal, MultiOptionPolicy, AddResult
  <1>. QED
    BY <1>4, <1>5, <1>6, <1>7, <1>8, <1>9, <1>10, <1>11, <1>12, <1>13, <1>14, <1>15
    DEF Next, ParserNext, ClientNext

\* The option implements its contract: through every order of arguments,
\* stages, errors, reads and parses the callback is handed all strings of the
\* parse, each validated once and reduced as the policy says, and a parse does
\* not succeed while strings wait for it (Option::run_callback).
THEOREM OptionKeepsContract ==
    ASSUME Ordinary
    PROVE  Spec => KeepsContract
  <1>1. Init => IInv /\ ContractInv /\ Contract!Init
    BY InitIInv, InitContractInv, InitRefines
  <1>2. IInv /\ ContractInv /\ [Next]_vars
          => /\ (IInv /\ ContractInv)'
             /\ [Contract!Next]_<<Contract!contract, Contract!declaration>>
    BY NextIInv, NextContractInv, NextRefines
  <1>. QED
    BY <1>1, <1>2, PTL DEF Spec, KeepsContract, Contract!Spec

\* No string is validated twice, and every one that a callback got in a
\* successful parse was validated (Option::_validate_results).
THEOREM ValidationOnce ==
    ASSUME Ordinary
    PROVE  Spec => []EachResultValidatedOnce
  <1>1. Init => IInv /\ ContractInv
    BY InitIInv, InitContractInv
  <1>2. IInv /\ ContractInv /\ [Next]_vars => (IInv /\ ContractInv)'
    BY NextIInv, NextContractInv
  <1>3. IInv /\ ContractInv => EachResultValidatedOnce
    <2>. SUFFICES ASSUME IInv, ContractInv, NEW i \in DOMAIN results
                  PROVE  /\ results[i][1].runs <= 1
                         /\ /\ phase = "ok" /\ state = "callback_run"
                            /\ opt.validators /\ ~Exempt(opt, results[i])
                            => results[i][1].runs = 1
      BY DEF EachResultValidatedOnce
    <2>1. i \in 1..Len(results) /\ results[i] \in PlainItem
      BY DEF IInv, TypeOK
    <2>2. results[i][1].runs <= 1
      BY <2>1 DEF ContractInv, Counted
    <2>3. ASSUME phase = "ok", state = "callback_run", opt.validators, ~Exempt(opt, results[i])
          PROVE  results[i][1].runs = 1
      <3>1. results[i] = Contract!Checked(results[i][1].val)
        BY <2>1, <2>3 DEF ContractInv, Counted, AllChecked
      <3>2. ~(opt.min = 0 /\ results[i][1].val = Blank)
        BY <2>1, <2>3 DEF Exempt, Holds, PlainItem
      <3>3. results[i] = <<[val |-> results[i][1].val, runs |-> 1]>>
        BY <2>3, <3>1, <3>2 DEF Contract!Checked, Contract!Stored
      <3>. QED
        BY <3>3
    <2>. QED
      BY <2>2, <2>3
  <1>. QED
    BY <1>1, <1>2, <1>3, PTL DEF Spec

\* A read of an option whose callback has run gives what the callback got,
\* although the callback had its own copy (Option::results).
THEOREM ReadsAgree ==
    ASSUME Ordinary
    PROVE  Spec => []ReadsAgreeWithBoundVariable
  <1>1. Init => IInv /\ ContractInv
    BY InitIInv, InitContractInv
  <1>2. IInv /\ ContractInv /\ [Next]_vars => (IInv /\ ContractInv)'
    BY NextIInv, NextContractInv
  <1>3. IInv /\ ContractInv => ReadsAgreeWithBoundVariable
    BY DEF ContractInv, Agreed, ReadsAgreeWithBoundVariable
  <1>. QED
    BY <1>1, <1>2, <1>3, PTL DEF Spec

-----------------------------------------------------------------------------
(* What reads hand out after a parse.                                      *)

\* A First priority callback does not run again on a value that a file or the
\* environment gives.  Without validators a read then takes what an earlier
\* read has left in proc_results_ for the reduction of the one new string.
FirstIsChecked == \A d \in Declarations : d.first => d.validators

\* Once the callback has run, the reduction stored beside the results is theirs.
Current ==
    phase # "failed" /\ state = "callback_run" =>
        /\ ~opt.force => results # <<>>
        /\ results # <<>> =>
             Chosen(procResults, results) = Chosen(Reduced(opt, policy, results), results)

\* No parse succeeds before the callback has got the results.
Served == phase = "ok" /\ results # <<>> /\ ~opt.first => state = "callback_run"

ReadInv ==
    /\ opt.first => opt.validators
    /\ Current
    /\ Served
    /\ ReadsAfterParseAreCurrent

LEMMA InitReadInv ==
    ASSUME FirstIsChecked
    PROVE  Init => ReadInv
  BY DEF Init, FirstIsChecked, ReadInv, Current, Served, ReadsAfterParseAreCurrent

\* What the option ought to hand out is the reduction of its results, or of
\* its default, after one run of the validators.
LEMMA PromisedIs ==
    ASSUME TypeOK,
           NEW given \in Seq(PlainItem),
           given = IF results = <<>> THEN default ELSE results
    PROVE  Promised = Chosen(Reduced(opt, policy, OnceChecked(given)), OnceChecked(given))
  <1>. DEFINE once(item) ==
                [i \in 1..Len(item) |->
                    [item[i] EXCEPT !.runs = IF opt.validators /\ ~Exempt(opt, item) THEN 1 ELSE 0]]
              base == [i \in 1..Len(given) |-> once(given[i])]
  <1>1. Promised = Chosen(Reduced(opt, policy, base), base)
    BY DEF Promised
  <1>2. ASSUME NEW i \in 1..Len(given)
        PROVE  once(given[i]) = Contract!Checked(given[i][1].val)
    <2>. DEFINE item == given[i]
                n == IF opt.validators /\ ~Exempt(opt, item) THEN 1 ELSE 0
    <2>1. item \in PlainItem
      OBVIOUS
    <2>2. Len(item) = 1 /\ item[1] \in Part /\ DOMAIN item = {1}
      BY <2>1 DEF PlainItem
    <2>3. [item[1] EXCEPT !.runs = n] = [val |-> item[1].val, runs |-> n]
      BY <2>2 DEF Part
    <2>4. Exempt(opt, item) <=> opt.min = 0 /\ item[1].val = Blank
      BY <2>2 DEF Exempt, Holds
    <2>5. once(item) = <<[val |-> item[1].val, runs |-> n]>>
      <3>1. once(item) = [j \in 1..Len(item) |-> [item[j] EXCEPT !.runs = n]]
        OBVIOUS
      <3>. HIDE DEF once, item, n
      <3>2. once(item) = [j \in 1..1 |-> [item[j] EXCEPT !.runs = n]]
        BY <2>2, <3>1
      <3>3. once(item) = [j \in 1..1 |-> [val |-> item[1].val, runs |-> n]]
        BY <2>3, <3>2
      <3>. QED
        BY <3>3
    <2>. QED
      BY <2>4, <2>5 DEF Contract!Checked, Contract!Stored
  <1>3. base = OnceChecked(given)
    BY <1>2 DEF OnceChecked
  <1>. QED
    BY <1>1, <1>3

\* A callback run that succeeds stores the reduction of the results it stores.
LEMMA RunStoresReduction ==
    ASSUME NEW res, NEW proc, res # <<>> \/ opt.force, res \in Seq(PlainItem),
           NEW run, run = RunCallback(res, proc, "parsing"), run.outcome = "ok"
    PROVE  /\ ~opt.force => run.results # <<>>
           /\ run.results # <<>> =>
                Chosen(run.proc, run.results) = Chosen(Reduced(opt, policy, run.results), run.results)
  <1>. DEFINE given   == IF Forced(res) THEN default ELSE res
              checked == Validated(opt, given)
              out     == Reduced(opt, policy, checked)
              sent    == Chosen(out, checked)
              clears  == Forced(res) /\ opt.callback /\ sent # <<>>
  <1>1. /\ run.results = IF clears THEN <<>> ELSE checked
        /\ run.proc = IF clears THEN <<>> ELSE out
    <2>1. ~ValidationFails(opt, given) /\ ~ReductionFails(opt, policy, checked)
      BY DEF RunCallback
    <2>. HIDE DEF checked, out
    <2>. QED
      BY <2>1 DEF RunCallback, checked, out
  <1>2. ~opt.force => given = res /\ res # <<>> /\ ~clears
    BY DEF Forced
  <1>3. res # <<>> => Validated(opt, res) # <<>>
    <2>1. res # <<>> => 1 \in 1..Len(res)
      OBVIOUS
    <2>2. DOMAIN Validated(opt, res) = 1..Len(res)
      BY DEF Validated
    <2>. QED
      BY <2>1, <2>2
  <1>4. clears => run.results = <<>>
    BY <1>1
  <1>. HIDE DEF clears, given, out
  <1>5. ~clears => run.results = checked /\ run.proc = Reduced(opt, policy, checked)
    BY <1>1 DEF out
  <1>. QED
    BY <1>2, <1>3, <1>4, <1>5

\* A read in a state that keeps the invariant.
LEMMA ReadIsCurrent ==
    ASSUME IInv, ContractInv, ReadInv, phase = "ok"
    PROVE  /\ As.outcome = "ok" /\ (results # <<>> \/ (default # NoDefault /\ ~opt.force))
                => As.got = Promised
           /\ ReducedResults.outcome = "ok" /\ results # <<>> => ReducedResults.got = Promised
  <1>1. TypeOK /\ opt \in DeclarationType /\ results \in Seq(PlainItem) /\ state # "validated"
    BY DEF IInv, TypeOK, ContractInv, Waiting
  <1>2. state \in {"parsing", "callback_run"}
    BY <1>1 DEF IInv, TypeOK, OptionStates
  <1>3. ASSUME results = <<>>, default # NoDefault, ~opt.force, As.outcome = "ok"
        PROVE  As.got = Promised
    <2>1. default \in Seq(PlainItem) /\ default # <<>> /\ AllFresh(default)
      BY <1>1, DefaultFresh
    <2>2. ~ReadsStored
      BY <1>3 DEF ReadInv, Current, ReadsStored
    <2>3. As = DefaultResults
      BY <1>3, <2>2 DEF As
    <2>4. ~ValidationFails(opt, default)
      BY <1>3, <2>3 DEF DefaultResults, Said
    <2>5. Validated(opt, default) = OnceChecked(default)
      BY <1>1, <2>1, <2>4, ValidatedOnce
    <2>6. As.got = Chosen(Reduced(opt, policy, OnceChecked(default)), OnceChecked(default))
      BY <1>3, <2>3, <2>4, <2>5 DEF DefaultResults, Said
    <2>. QED
      BY <1>1, <1>3, <2>1, <2>6, PromisedIs
  <1>4. ASSUME results # <<>>, state = "callback_run"
        PROVE  As.got = Promised /\ ReducedResults.got = Promised
    <2>. DEFINE stored == Chosen(procResults, results)
    <2>1. stored # <<>> /\ stored = Chosen(Reduced(opt, policy, results), results)
      BY <1>4 DEF ReadInv, Current, Chosen
    <2>2. OnceChecked(results) = results
      <3>1. \A i \in 1..Len(results) : results[i] = Contract!Checked(results[i][1].val)
        BY <1>4 DEF ContractInv, Counted, AllChecked
      <3>2. DOMAIN results = 1..Len(results)
        BY <1>1
      <3>. QED
        BY <1>1, <3>1, <3>2 DEF OnceChecked
    <2>3. Promised = stored
      BY <1>1, <1>4, <2>1, <2>2, PromisedIs
    <2>. HIDE DEF stored
    <2>4. As = Said("as", "ok", stored)
      BY <1>4, <2>1 DEF As, ReadsStored, stored
    <2>5. ReducedResults = Said("reduced_results", "ok", stored)
      BY <1>4, <2>1 DEF ReducedResults, ReducedFrom, stored
    <2>. QED
      BY <2>3, <2>4, <2>5 DEF Said
  <1>5. ASSUME results # <<>>, state = "parsing"
        PROVE  /\ As.outcome = "ok" => As.got = Promised
               /\ ReducedResults.outcome = "ok" => ReducedResults.got = Promised
    <2>1. opt.validators /\ AllFresh(results)
      BY <1>5 DEF ReadInv, Served, ContractInv, Waiting
    <2>2. ~ReadsStored
      BY <1>5, <2>1 DEF ReadsStored
    <2>3. As = [ReducedResults EXCEPT !.op = "as"]
      BY <1>5, <2>2 DEF As
    <2>4. ReducedResults = ReducedFrom(results)
      BY <1>5 DEF ReducedResults
    <2>5. /\ As.outcome = ReducedResults.outcome
          /\ As.got = ReducedResults.got
      BY <2>3, <2>4 DEF ReducedFrom, Said
    <2>6. ASSUME ReducedResults.outcome = "ok"
          PROVE  ReducedResults.got = Promised
      <3>1. ~ValidationFails(opt, results)
        BY <1>5, <2>4, <2>6 DEF ReducedFrom, Said
      <3>2. Validated(opt, results) = OnceChecked(results)
        BY <1>1, <2>1, <3>1, ValidatedOnce
      <3>3. OnceChecked(results) # <<>>
        BY <1>1, <1>5, OnceCheckedType
      <3>4. ReducedResults.got
              = Chosen(Reduced(opt, policy, OnceChecked(results)), OnceChecked(results))
        BY <1>5, <2>4, <2>6, <3>1, <3>2, <3>3 DEF ReducedFrom, Said
      <3>. QED
        BY <1>1, <1>5, <3>4, PromisedIs
    <2>. QED
      BY <2>5, <2>6
  <1>. QED
    BY <1>2, <1>3, <1>4, <1>5

LEMMA RunKeepsReadInv ==
    ASSUME TypeOK, ReadInv, NEW res \in Seq(PlainItem), NEW proc,
           res # <<>> \/ opt.force, phase \in Parsing, RunsOn(res, proc)
    PROVE  ReadInv'
  <1>. DEFINE run == RunCallback(res, proc, "parsing")
  <1>1. /\ results' = run.results /\ procResults' = run.proc /\ state' = run.state
        /\ call' = [op |-> "callback", outcome |-> run.outcome, got |-> run.got]
        /\ phase' = IF run.outcome = "ok" THEN phase ELSE "failed"
        /\ UNCHANGED <<opt, policy, default>>
    BY DEF RunsOn, Delivers, Said, outside
  <1>2. run.outcome = "ok" =>
          /\ ~opt.force => run.results # <<>>
          /\ run.results # <<>> =>
               Chosen(run.proc, run.results) = Chosen(Reduced(opt, policy, run.results), run.results)
    BY RunStoresReduction
  <1>. HIDE DEF run
  <1>3. Current'
    BY <1>1, <1>2 DEF Current
  <1>4. phase' # "ok"
    BY <1>1 DEF Parsing
  <1>. QED
    BY <1>1, <1>3, <1>4 DEF ReadInv, Served, ReadsAfterParseAreCurrent

\* A step that sets the state machine back, or leaves the option alone.
LEMMA QuietKeepsReadInv ==
    ASSUME ReadInv, phase \in Parsing \/ state' = "parsing",
           state' = "parsing" \/ UNCHANGED optionVars,
           phase' = "ok" => phase = "late" /\ ~Due /\ UNCHANGED optionVars,
           call'.op \notin Reads, UNCHANGED <<opt, policy>>
    PROVE  ReadInv'
  <1>1. Current'
    BY DEF ReadInv, Current, optionVars, Parsing
  <1>2. Served'
    BY DEF Served, Due, optionVars
  <1>3. ReadsAfterParseAreCurrent'
    BY DEF ReadsAfterParseAreCurrent, Reads
  <1>. QED
    BY <1>1, <1>2, <1>3 DEF ReadInv

LEMMA NextReadInv ==
    ASSUME Ordinary, IInv, ContractInv, ReadInv, [Next]_vars
    PROVE  ReadInv'
  <1>1. /\ TypeOK /\ results \in Seq(PlainItem)
        /\ ContractInv' /\ IInv'
    BY NextIInv, NextContractInv DEF IInv, TypeOK
  <1>2. Quiet("parse").op \notin Reads
    BY DEF Quiet, Said, Reads
  <1>3. CASE BeginParse
    <2>1. state' = "parsing"
      BY <1>3 DEF BeginParse, Clear, ContractInv, Waiting, optionVars
    <2>. QED
      BY <1>2, <1>3, <2>1, QuietKeepsReadInv DEF BeginParse, outside
  <1>4. CASE ParseArgument
    <2>. DEFINE kept == IF Restarts THEN <<>> ELSE results
                proc == IF Restarts THEN <<>> ELSE procResults
    <2>1. PICK vs \in Arguments :
            \/ /\ opt.trigger /\ kept \o Added(vs) # <<>>
               /\ RunsOn(kept \o Added(vs), proc)
            \/ /\ state' = "parsing"
               /\ call' = Quiet("parse")
               /\ UNCHANGED phase
      BY <1>4 DEF ParseArgument, RunsOn
    <2>2. phase = "cmdline" /\ phase \in Parsing /\ UNCHANGED <<opt, policy>>
      BY <1>4 DEF ParseArgument, Parsing, outside
    <2>3. CASE RunsOn(kept \o Added(vs), proc) /\ kept \o Added(vs) # <<>>
      <3>1. kept \in Seq(PlainItem) /\ Added(vs) \in Seq(PlainItem)
        BY <1>1, AddedFresh
      <3>2. kept \o Added(vs) \in Seq(PlainItem)
        BY <3>1
      <3>. HIDE DEF kept, proc
      <3>. QED
        BY <1>1, <2>2, <2>3, <3>2, RunKeepsReadInv
    <2>4. CASE state' = "parsing" /\ call' = Quiet("parse") /\ UNCHANGED phase
      BY <1>2, <2>2, <2>4, QuietKeepsReadInv
    <2>. QED
      BY <2>1, <2>3, <2>4
  <1>5. CASE ReenterOwner \/ EnterSection
    <2>1. /\ state' = "parsing" /\ phase' \in {"cmdline", "section"}
          /\ call' = Quiet("parse") /\ UNCHANGED outside
      BY <1>5 DEF ReenterOwner, EnterSection, Retriggered, Clear, Moves, ContractInv
    <2>. QED
      BY <1>2, <2>1, QuietKeepsReadInv DEF outside
  <1>6. CASE NextStage
    <2>1. /\ phase \in Parsing /\ ~Due /\ UNCHANGED optionVars
          /\ phase' = "ok" => phase = "late"
          /\ call' = Quiet("parse") /\ UNCHANGED outside
      BY <1>6 DEF NextStage, Moves, Parsing
    <2>. QED
      BY <1>2, <2>1, QuietKeepsReadInv DEF outside
  <1>7. CASE ProcessEnv
    <2>1. /\ phase = "sources" /\ UNCHANGED phase /\ state' = "parsing"
          /\ call' = Quiet("parse") /\ UNCHANGED outside
      BY <1>7 DEF ProcessEnv
    <2>. QED
      BY <1>2, <2>1, QuietKeepsReadInv DEF outside
  <1>8. CASE ProcessConfig
    <2>1. PICK vs \in Arguments :
            /\ vs # <<>>
            /\ \/ RunsOn(Added(vs), procResults)
               \/ /\ state' = "parsing"
                  /\ call' = Quiet("parse")
                  /\ UNCHANGED phase
      BY <1>8 DEF ProcessConfig, RunsOn
    <2>2. phase \in Parsing /\ phase # "ok" /\ UNCHANGED <<opt, policy>>
      BY <1>8 DEF ProcessConfig, Parsing, outside
    <2>3. CASE RunsOn(Added(vs), procResults)
      <3>1. Added(vs) \in Seq(PlainItem) /\ Added(vs) # <<>>
        BY <2>1, AddedFresh
      <3>. QED
        BY <1>1, <2>2, <2>3, <3>1, RunKeepsReadInv
    <2>4. CASE state' = "parsing" /\ call' = Quiet("parse") /\ UNCHANGED phase
      BY <1>2, <2>2, <2>4, QuietKeepsReadInv
    <2>. QED
      BY <2>1, <2>3, <2>4
  <1>9. CASE ProcessCallback
    <2>1. /\ results # <<>> \/ opt.force
          /\ phase \in Parsing
          /\ state # "callback_run" /\ state # "validated"
      BY <1>9 DEF ProcessCallback, Due, Parsing, ContractInv, Waiting
    <2>2. RunsOn(results, procResults)
      BY <1>1, <1>9, <2>1 DEF ProcessCallback, RunsOn, TypeOK, OptionStates
    <2>. QED
      BY <1>1, <2>1, <2>2, RunKeepsReadInv
  <1>10. CASE ParseFails
    <2>1. /\ phase \in Parsing /\ phase' = "failed" /\ UNCHANGED optionVars
          /\ call' = Quiet("parse") /\ UNCHANGED outside
      BY <1>10 DEF ParseFails, Moves
    <2>. QED
      BY <1>2, <2>1, QuietKeepsReadInv DEF outside
  <1>11. CASE Read
    <2>1. /\ call' = As /\ UNCHANGED <<opt, policy, default, results, state, phase>>
          /\ procResults' = IF As.outcome = "ok" /\ ~(ReadsStored /\ Chosen(procResults, results) # <<>>)
                            THEN As.got ELSE procResults
      BY <1>11 DEF Read, outside
    <2>2. Current'
      <3>1. ASSUME state = "callback_run", results # <<>>
            PROVE  procResults' = procResults
        <4>1. ReadsStored /\ Chosen(procResults, results) # <<>>
          BY <3>1 DEF ReadsStored, Chosen
        <4>. QED
          BY <2>1, <4>1
      <3>. QED
        BY <2>1, <3>1 DEF ReadInv, Current
    <2>3. Promised' = Promised
      BY <2>1 DEF Promised
    <2>4. ReadsAfterParseAreCurrent'
      <3>. SUFFICES ASSUME phase = "ok", As.outcome = "ok", As.op \in Reads,
                           results # <<>> \/ (As.op = "as" /\ default # NoDefault /\ ~opt.force)
                    PROVE  As.got = Promised
        BY <2>1, <2>3 DEF ReadsAfterParseAreCurrent, NoDefault
      <3>. QED
        BY ReadIsCurrent
    <2>. QED
      BY <2>1, <2>2, <2>4 DEF ReadInv, Served
  <1>12. CASE ReadReduced
    <2>1. /\ UNCHANGED <<opt, policy, default, results, procResults, state, phase>>
          /\ call' = ReducedResults
      BY <1>12 DEF ReadReduced, outside, optionVars
    <2>2. call'.op = "reduced_results"
      BY <2>1 DEF ReducedResults, ReducedFrom, Said
    <2>3. Promised' = Promised
      BY <2>1 DEF Promised
    <2>4. ReadsAfterParseAreCurrent'
      <3>. SUFFICES ASSUME phase = "ok", ReducedResults.outcome = "ok", results # <<>>
                    PROVE  ReducedResults.got = Promised
        BY <2>1, <2>2, <2>3 DEF ReadsAfterParseAreCurrent
      <3>. QED
        BY ReadIsCurrent
    <2>. QED
      BY <2>1, <2>4 DEF ReadInv, Current, Served
  <1>13. CASE UNCHANGED vars
    BY <1>13 DEF vars, ReadInv, Current, Served, ReadsAfterParseAreCurrent, Promised, NoDefault
  <1>14. ~BeginStream /\ ~DefaultVal /\ ~MultiOptionPolicy /\ ~AddResult
    BY DEF Ordinary, BeginStream, DefaultVal, MultiOptionPolicy, AddResult
  <1>. QED
    BY <1>3, <1>4, <1>5, <1>6, <1>7, <1>8, <1>9, <1>10, <1>11, <1>12, <1>13, <1>14
    DEF Next, ParserNext, ClientNext

\* Once a parse has succeeded, as<T>() and reduced_results() hand out the
\* strings of the parse, or as<T>() the default, validated once and reduced by
\* the policy, whatever was read before and during the parse (Option::results,
\* Option::reduced_results).
THEOREM ReadsCurrent ==
    ASSUME Ordinary, FirstIsChecked
    PROVE  Spec => []ReadsAfterParseAreCurrent
  <1>1. Init => IInv /\ ContractInv /\ ReadInv
    BY InitIInv, InitContractInv, InitReadInv
  <1>2. IInv /\ ContractInv /\ ReadInv /\ [Next]_vars => (IInv /\ ContractInv /\ ReadInv)'
    BY NextIInv, NextContractInv, NextReadInv
  <1>3. ReadInv => ReadsAfterParseAreCurrent
    BY DEF ReadInv
  <1>. QED
    BY <1>1, <1>2, <1>3, PTL DEF Spec
=============================================================================
