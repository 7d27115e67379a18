--------------------------- MODULE CommandProofs ---------------------------
(***************************************************************************)
(* What the command line promises, proved for any values of --type, any    *)
(* names and any implementation of Gather.                                 *)
(***************************************************************************)
EXTENDS Command, SequenceTheorems, TLAPS

\* Before the rows are asked for, nothing is known and nothing was printed.
Early == {"execute", "complete", "validate", "parse", "discover"}
NothingYet == stage \in Early => ~asked /\ order = <<>> /\ answer = Call!NoAnswer

\* What Validate has established.
Validated ==
  stage \in {"parse", "discover", "gather", "heading"} \/ asked =>
    /\ options.type = <<>> \/ Range(resourceType) \subseteq Offered
    /\ OneFilter

\* What the answer of the call says, and the stage of the answer.
Answered ==
  /\ \/ answer = Call!NoAnswer
     \/ answer = Call!Refusal("api")
     \/ answer = Call!Refusal("deadline") /\ expired
     \/ answer = Call!Rows(order) /\ found = ToSet(order) /\ asked
  /\ stage = "heading" => answer.kind = "rows"

\* What has been printed before the end, and at the end.
Announced == "no resources" \in stderr <=> command = "pod" /\ asked /\ order = <<>>
Silent ==
  stage # "exited" => stdout = "" /\ status = 0 /\ stderr \subseteq {"no resources"}
Ended ==
  stage = "exited" =>
    /\ status = 0 <=> stdout # ""
    /\ status = 1 => stderr \cap {"error", "timed out"} # {}
    /\ stdout = "table" => answer.kind = "rows"
    /\ "timed out" \in stderr <=> command = "node" /\ answer.kind = "deadline"
    /\ status \in {0, 1}

Inv == /\ NothingYet /\ Validated /\ SelectorApplied
       /\ Answered /\ Announced /\ Silent /\ Ended

\* The kinds of answer are different, whatever their rows.
LEMMA Kinds ==
  /\ Call!NoAnswer.kind = "none"
  /\ \A e : Call!Refusal(e).kind = e
  /\ \A s : Call!Rows(s).kind = "rows"
BY DEF Call!NoAnswer, Call!Refusal, Call!Rows

\* The invariant holds of the initial states.
LEMMA InitInv == Init => Inv
BY DEF Init, Call!Init, Inv, NothingYet, Validated, SelectorApplied, Answered,
       Announced, Silent, Ended, Early

\* A step that only moves Run on, before the rows are asked for.
LEMMA EnterKeeps ==
  ASSUME Inv, stage \in Early, NEW s, s # "heading", s # "exited", Enter(s),
         s \in Early \cup {"gather"},
         s \in {"parse", "discover", "gather"} =>
           /\ options.type = <<>> \/ Range(resourceType') \subseteq Offered
           /\ resourceName' = "" \/ options.selector = ""
  PROVE  Inv'
<1>1. /\ stage' = s /\ ~asked /\ order = <<>> /\ answer = Call!NoAnswer
      /\ UNCHANGED <<command, options, request, asked, order, found, expired,
                     answer, stdout, stderr, status>>
  BY DEF Inv, NothingYet, Enter, inputs, gatherVars, printed, columns
<1>2. NothingYet' /\ SelectorApplied'
  BY <1>1 DEF NothingYet, SelectorApplied, Call!NoAnswer, Call!Refusal
<1>3. Validated'
  BY <1>1 DEF Validated, OneFilter, Offered, Early
<1>4. Answered' /\ Announced' /\ Ended'
  BY <1>1 DEF Inv, Answered, Announced, Ended, Early, Call!NoAnswer, Call!Refusal
<1>5. Silent'
  BY <1>1 DEF Inv, Silent, Early
<1> QED BY <1>2, <1>3, <1>4, <1>5 DEF Inv

\* The two exit statuses are different.
LEMMA TwoStatuses == 0 # 1
OBVIOUS

\* The end of a command that failed before the call returned, or because of it.
LEMMA FailKeeps ==
  ASSUME Inv, stage # "exited", NEW m, m \in {"error", "timed out"}, Fail(m),
         m = "timed out" <=> command = "node" /\ answer.kind = "deadline"
  PROVE  Inv'
<1>1. /\ stage' = "exited" /\ status' = 1 /\ stderr' = stderr \cup {m}
      /\ stdout = ""
      /\ UNCHANGED <<command, options, resourceName, resourceType, request, asked,
                     order, found, expired, answer, stdout>>
  BY DEF Fail, inputs, parsed, gatherVars, columns, Inv, Silent
<1>2. NothingYet' /\ SelectorApplied' /\ Validated' /\ Silent'
  BY <1>1 DEF Inv, NothingYet, SelectorApplied, Validated, Silent, Early, OneFilter, Offered
<1>3. Answered' /\ Announced'
  BY <1>1 DEF Inv, Answered, Announced, Call!NoAnswer, Call!Refusal, Call!Rows
<1>4. "timed out" \in stderr' <=> m = "timed out"
  BY <1>1 DEF Inv, Silent
<1>5. stderr' \cap {"error", "timed out"} # {}
  BY <1>1
<1>6. command' = command /\ answer' = answer
  BY <1>1
<1>7. "timed out" \in stderr' <=> command' = "node" /\ answer'.kind = "deadline"
  BY <1>4, <1>6, Zenon
<1>8. status' = 1 /\ stdout' = ""
  BY <1>1
<1>9. /\ status' = 0 <=> stdout' # ""
      /\ stdout' # "table"
      /\ status' \in {0, 1}
  BY <1>8, TwoStatuses, Zenon
<1>10. Ended'
  BY <1>5, <1>7, <1>9, Zenon DEF Ended
<1> QED BY <1>2, <1>3, <1>10 DEF Inv

\* The end of a command that printed what was asked for.
LEMMA ShowKeeps ==
  ASSUME Inv, stage # "exited", NEW t, t # "", Show(t), answer.kind # "deadline",
         t = "table" => answer.kind = "rows"
  PROVE  Inv'
<1>1. /\ stage' = "exited" /\ status' = 0 /\ stdout' = t
      /\ UNCHANGED <<command, options, resourceName, resourceType, request, asked,
                     order, found, expired, answer, stderr>>
  BY DEF Show, inputs, parsed, gatherVars, columns
<1>2. NothingYet' /\ SelectorApplied' /\ Validated' /\ Silent'
  BY <1>1 DEF Inv, NothingYet, SelectorApplied, Validated, Silent, Early, OneFilter, Offered
<1>3. Answered' /\ Announced'
  BY <1>1 DEF Inv, Answered, Announced, Call!NoAnswer, Call!Refusal, Call!Rows
<1>4. "timed out" \notin stderr'
  BY <1>1 DEF Inv, Silent
<1>5. stdout' # "" /\ status' = 0 /\ answer' = answer
  BY <1>1
<1>6. stdout' = "table" => answer'.kind = "rows"
  BY <1>1
<1>7. "timed out" \in stderr' <=> command' = "node" /\ answer'.kind = "deadline"
  BY <1>4, <1>5
<1>8. /\ status' = 0 <=> stdout' # ""
      /\ status' = 1 => stderr' \cap {"error", "timed out"} # {}
      /\ status' \in {0, 1}
  BY <1>5, TwoStatuses, Zenon
<1>9. Ended'
  BY <1>6, <1>7, <1>8, Zenon DEF Ended
<1> QED BY <1>2, <1>3, <1>9 DEF Inv

\* Invariance, action by action.
LEMMA NextInv == Inv /\ [Next]_vars => Inv'
<1> SUFFICES ASSUME Inv, [Next]_vars PROVE Inv'
  OBVIOUS
<1> USE Kinds
<1>1. CASE Execute
  <2>1. stage = "execute" /\ answer.kind = "none"
    BY <1>1 DEF Execute, Inv, NothingYet, Early
  <2>2. CASE Enter("complete")
    BY <2>1, <2>2, EnterKeeps DEF Early
  <2>3. CASE Show("help") \/ Show("version")
    BY <2>1, <2>3, ShowKeeps
  <2>4. CASE Fail("error")
    BY <2>1, <2>4, FailKeeps
  <2> QED BY <1>1, <2>2, <2>3, <2>4 DEF Execute
<1>2. CASE Complete
  <2>1. stage = "complete" /\ answer.kind = "none"
    BY <1>2 DEF Complete, Inv, NothingYet, Early
  <2>2. CASE Enter("validate")
    BY <2>1, <2>2, EnterKeeps DEF Early
  <2>3. CASE Fail("error")
    BY <2>1, <2>3, FailKeeps
  <2> QED BY <1>2, <2>2, <2>3 DEF Complete
<1>3. CASE Validate
  <2>1. stage = "validate" /\ answer.kind = "none"
    BY <1>3 DEF Validate, Inv, NothingYet, Early
  <2>2. CASE /\ OneFilter /\ TypesAccepted
             /\ resourceType' = Split(options.type)
             /\ Enter("parse") /\ UNCHANGED resourceName
    <3>1. options.type = <<>> \/ Range(resourceType') \subseteq Offered
      BY <2>2 DEF TypesAccepted, Split
    <3>2. resourceName' = "" \/ options.selector = ""
      BY <2>2 DEF OneFilter
    <3> QED BY <2>1, <2>2, <3>1, <3>2, EnterKeeps DEF Early
  <2>3. CASE Fail("error")
    BY <2>1, <2>3, FailKeeps
  <2> QED BY <1>3, <2>2, <2>3 DEF Validate
<1>4. CASE ParseSelectors
  <2>1. stage = "parse" /\ answer.kind = "none"
    BY <1>4 DEF ParseSelectors, Inv, NothingYet, Early
  <2>2. CASE Enter("discover") /\ UNCHANGED parsed
    <3>1. /\ options.type = <<>> \/ Range(resourceType') \subseteq Offered
          /\ resourceName' = "" \/ options.selector = ""
      BY <2>1, <2>2 DEF Inv, Validated, OneFilter, parsed
    <3> QED BY <2>1, <2>2, <3>1, EnterKeeps DEF Early
  <2>3. CASE Fail("error")
    BY <2>1, <2>3, FailKeeps
  <2> QED BY <1>4, <2>2, <2>3 DEF ParseSelectors
<1>5. CASE Discover
  <2>1. stage = "discover" /\ answer.kind = "none"
    BY <1>5 DEF Discover, Inv, NothingYet, Early
  <2>2. CASE Enter("gather") /\ UNCHANGED parsed
    <3>1. /\ options.type = <<>> \/ Range(resourceType') \subseteq Offered
          /\ resourceName' = "" \/ options.selector = ""
      BY <2>1, <2>2 DEF Inv, Validated, OneFilter, parsed
    <3> QED BY <2>1, <2>2, <3>1, EnterKeeps DEF Early
  <2>3. CASE Fail("error")
    BY <2>1, <2>3, FailKeeps
  <2> QED BY <1>5, <2>2, <2>3 DEF Discover
<1>6. CASE TimerFires
  <2>1. /\ expired' = TRUE
        /\ UNCHANGED <<command, options, resourceName, resourceType, stage, request,
                       asked, order, found, answer, stdout, stderr, status>>
    BY <1>6 DEF TimerFires, Call!Expire, inputs, parsed, columns, printed
  <2> QED BY <2>1 DEF Inv, NothingYet, Validated, SelectorApplied, Answered, Announced,
                Silent, Ended, OneFilter, Offered, Call!NoAnswer, Call!Refusal, Call!Rows
<1>7. CASE Ask
  <2>1. /\ stage = "gather" /\ answer = Call!NoAnswer /\ ~asked /\ asked'
        /\ stderr' = IF command = "pod" /\ order' = <<>> THEN stderr \cup {"no resources"}
                     ELSE stderr
        /\ UNCHANGED <<command, options, resourceName, resourceType, stage, found,
                       expired, answer, stdout, status>>
    BY <1>7 DEF Ask, Call!Ask, inputs, parsed
  <2>2. SelectorApplied'
    <3>1. request' = IF resourceName # "" THEN [NoRequest EXCEPT !.name = resourceName]
                     ELSE [name |-> "", selector |-> options.selector,
                           fieldSelector |-> options.fieldSelector]
      BY <1>7 DEF Ask
    <3>2. resourceName = "" \/ options.selector = ""
      BY <2>1 DEF Inv, Validated, OneFilter
    <3>3. request'.selector = options.selector
      BY <3>1, <3>2 DEF NoRequest
    <3>4. resourceName = "" => request'.fieldSelector = options.fieldSelector
      BY <3>1
    <3> QED BY <2>1, <3>3, <3>4 DEF SelectorApplied
  <2>3. NothingYet' /\ Validated'
    BY <2>1 DEF Inv, NothingYet, Validated, OneFilter, Offered, Early
  <2>4. Answered' /\ Silent' /\ Ended'
    BY <2>1 DEF Inv, Answered, Silent, Ended, Call!NoAnswer, Call!Refusal
  <2>5. Announced'
    BY <2>1 DEF Inv, Announced
  <2> QED BY <2>2, <2>3, <2>4, <2>5 DEF Inv
<1>8. CASE RowType \/ HeaderType
  <2>1. UNCHANGED <<command, options, resourceName, resourceType, stage, request,
                    asked, order, found, expired, answer, stdout, stderr, status>>
    BY <1>8 DEF RowType, HeaderType, inputs, parsed, gatherVars, printed
  <2> QED BY <2>1 DEF Inv, NothingYet, Validated, SelectorApplied, Answered, Announced,
                Silent, Ended, OneFilter, Offered, Call!NoAnswer, Call!Refusal, Call!Rows
<1>9. CASE Gathering
  <2>1. /\ stage = "gather"
        /\ UNCHANGED <<command, options, resourceName, resourceType, stage, request,
                       asked, order, expired, stdout, stderr, status>>
    BY <1>9 DEF Gathering, inputs, parsed, printed, Call!Find, Call!Break, Call!Respond
  <2>2. NothingYet' /\ Validated' /\ SelectorApplied' /\ Announced' /\ Silent' /\ Ended'
    BY <2>1 DEF Inv, NothingYet, Validated, SelectorApplied, Announced, Silent, Ended,
                OneFilter, Offered, Early
  <2>3. Answered'
    <3>1. CASE \E x \in Item : Call!Find(x)
      <4>1. answer' = answer /\ found # ToSet(order)
        BY <3>1 DEF Call!Find, ToSet, Call!ToSet
      <4> QED BY <2>1, <4>1 DEF Inv, Answered, ToSet, Call!ToSet, Call!NoAnswer, Call!Refusal, Call!Rows
    <3>2. CASE Call!Break
      <4>1. answer' = answer /\ found' = found
        BY <3>2 DEF Call!Break
      <4> QED BY <2>1, <4>1 DEF Inv, Answered, Call!NoAnswer, Call!Refusal, Call!Rows
    <3>3. CASE Call!Respond
      <4>1. \/ asked /\ found = ToSet(order) /\ answer' = Call!Rows(order)
            \/ answer' = Call!Refusal("api")
            \/ expired /\ answer' = Call!Refusal("deadline")
        BY <3>3 DEF Call!Respond, ToSet, Call!ToSet
      <4>2. found' = found
        BY <3>3 DEF Call!Respond
      <4> QED BY <2>1, <4>1, <4>2 DEF Answered, Call!NoAnswer, Call!Refusal, Call!Rows
    <3> QED BY <1>9, <3>1, <3>2, <3>3 DEF Gathering
  <2> QED BY <2>2, <2>3 DEF Inv
<1>10. CASE Returned
  <2>1. stage = "gather" /\ answer.kind # "none"
    BY <1>10 DEF Returned
  <2>2. CASE Failed
    BY <1>10, <2>1, <2>2, FailKeeps DEF Returned, Message
  <2>3. CASE ~Failed
    <3>1. /\ stage' = "heading"
          /\ UNCHANGED <<command, options, resourceName, resourceType, request,
                         asked, order, found, expired, answer, stdout, stderr, status>>
      BY <1>10, <2>3 DEF Returned, inputs, parsed, gatherVars, printed
    <3>2. answer.kind = "rows"
      BY <2>1, <2>3 DEF Inv, Answered, Failed
    <3>3. Answered'
      BY <3>1, <3>2 DEF Inv, Answered, Call!NoAnswer, Call!Refusal, Call!Rows
    <3> QED BY <2>1, <3>1, <3>3 DEF Inv, NothingYet, Validated, SelectorApplied,
                  Announced, Silent, Ended, OneFilter, Offered, Early
  <2> QED BY <2>2, <2>3
<1>11. CASE Render
  BY <1>11, ShowKeeps DEF Render, Inv, Answered
<1>12. CASE UNCHANGED vars
  BY <1>12 DEF vars, inputs, parsed, gatherVars, printed, Inv, NothingYet, Validated,
               SelectorApplied, Answered, Announced, Silent, Ended, OneFilter, Offered,
               Call!NoAnswer, Call!Refusal, Call!Rows
<1> QED BY <1>1, <1>2, <1>3, <1>4, <1>5, <1>6, <1>7, <1>8, <1>9, <1>10, <1>11, <1>12 DEF Next

\* The invariant implies that the exit is truthful.
LEMMA InvTruthful == Inv => TruthfulExit
<1> SUFFICES ASSUME Inv, stage = "exited" PROVE TruthfulExit
  BY DEF TruthfulExit
<1> USE Kinds
<1>1. answer.kind = "rows" => answer = Call!Rows(order) /\ found = ToSet(order) /\ asked
  BY DEF Inv, Answered
<1>2. answer.kind = "deadline" => expired
  BY DEF Inv, Answered
<1> QED BY <1>1, <1>2 DEF TruthfulExit, Inv, Ended, Announced

(* The invariant, for any names, types and implementation of Gather.       *)
THEOREM Invariance == Spec => []Inv
BY InitInv, NextInv, PTL DEF Spec

(* No selector is ever dropped, but for a field selector given with a NAME. *)
THEOREM SelectorAlwaysApplied == Spec => []SelectorApplied
<1>1. Inv => SelectorApplied
  BY DEF Inv
<1> QED BY <1>1, Invariance, PTL

(* The exit status, the table and the messages always tell what happened   *)
(* to the call, whatever implements Gather.                                *)
THEOREM AlwaysTruthfulExit == Spec => []TruthfulExit
BY InvTruthful, Invariance, PTL

-----------------------------------------------------------------------------
(* The types of the variables, and the columns.                            *)

\* The loop over the types begins when the rows are asked for.
Unmade == stage \in Early \/ (stage = "gather" /\ ~asked) => k = 0
Parsed == stage \in {"discover", "gather"} => "bad" \notin {options.selector, options.fieldSelector}
Chosen ==
  stage \in {"parse", "discover", "gather", "heading"} \/ stdout = "table" =>
    resourceType = Split(options.type)

TypeInv == TypeOK /\ Unmade /\ Parsed /\ Chosen

LEMMA SliceIsSeq ==
  ASSUME NEW f \in TypeSlices
  PROVE  f \in Seq(Range(f)) /\ Len(f) \in Nat
<1>1. ASSUME NEW x PROVE <<x>> \in Seq(Range(<<x>>)) /\ Len(<<x>>) \in Nat
  BY DEF Range
<1>2. <<>> \in Seq(Range(<<>>)) /\ Len(<<>>) \in Nat
  BY DEF Range
<1>3. ASSUME NEW g \in TypeFlags PROVE g \in Seq(Range(g)) /\ Len(g) \in Nat
  <2>1. g \in Seq(Range(g))
    BY <1>3, CommandAssumption, Zenon DEF CommandAssumption
  <2> QED BY <2>1
<1>4. f \in TypeFlags \/ f = <<>> \/ f = <<"">>
  BY Zenon DEF TypeSlices
<1> QED BY <1>1, <1>2, <1>3, <1>4, Zenon

LEMMA FlagsSplit ==
  ASSUME NEW f, f \in TypeFlags \/ f = <<>>
  PROVE  Split(f) # <<>> /\ Split(f) \in TypeSlices
<1>1. <<"">> # <<>>
  OBVIOUS
<1> QED BY <1>1, Zenon DEF Split, TypeSlices

LEMMA TypesAreSeq ==
  ASSUME TypeInv
  PROVE  /\ resourceType \in Seq(Range(resourceType)) /\ Len(resourceType) \in Nat
         /\ k \in Nat /\ k <= Len(resourceType)
<1>1. resourceType \in TypeSlices /\ k \in 0..Len(resourceType)
  BY Zenon DEF TypeInv, TypeOK
<1> QED BY <1>1, SliceIsSeq

LEMMA FlagGiven ==
  ASSUME TypeInv
  PROVE  options.type \in TypeFlags \/ options.type = <<>>
<1>1. ASSUME NEW o \in Options PROVE o.type \in TypeFlags
  BY DEF Options
<1>2. NoFlags.type = <<>>
  BY DEF NoFlags
<1> QED BY <1>1, <1>2, Zenon DEF TypeInv, TypeOK

\* The columns of a type are headings.
LEMMA TwoInRange ==
  ASSUME NEW a, NEW b
  PROVE  <<a, b>> \in Seq(Range(<<a, b>>))
  BY DEF Range

LEMMA FourInRange ==
  ASSUME NEW a, NEW b, NEW c, NEW d
  PROVE  <<a, b, c, d>> \in Seq(Range(<<a, b, c, d>>))
  BY DEF Range

LEMMA FiveInRange ==
  ASSUME NEW a, NEW b, NEW c, NEW d, NEW e
  PROVE  <<a, b, c, d, e>> \in Seq(Range(<<a, b, c, d, e>>))
  BY DEF Range

LEMMA CellsAreHeadings ==
  ASSUME NEW t
  PROVE  /\ NodeCells(t) \in Seq(Headings) /\ PodCells(t) \in Seq(Headings)
         /\ NodeHeader(t) \in Seq(Headings) /\ PodHeader(t) \in Seq(Headings)
<1>1. ASSUME NEW s \in {NodeCpu, NodeMemory, NodeGpu, NodePods, PodCpu, PodMemory, PodGpu}
      PROVE  s \in Seq(Headings)
  <2>1. s \in Seq(Range(s))
    BY TwoInRange, FourInRange, FiveInRange, Zenon
       DEF NodeCpu, NodeMemory, NodeGpu, NodePods, PodCpu, PodMemory, PodGpu
  <2>2. Range(s) \subseteq Headings
    BY Zenon DEF Headings
  <2>3. ASSUME NEW S, S \subseteq Headings, s \in Seq(S) PROVE s \in Seq(Headings)
    BY <2>3
  <2> QED BY <2>1, <2>2, <2>3, Zenon
<1>2. <<"PodCount (%)">> \in Seq(Headings)
  <2>1. ASSUME NEW x \in Headings PROVE <<x>> \in Seq(Headings)
    OBVIOUS
  <2>2. "PodCount (%)" \in Headings
    BY Zenon DEF Headings
  <2> QED BY <2>1, <2>2, Zenon
<1>3. /\ NodeCpu \in Seq(Headings) /\ NodeMemory \in Seq(Headings)
      /\ NodeGpu \in Seq(Headings) /\ NodePods \in Seq(Headings)
      /\ PodCpu \in Seq(Headings) /\ PodMemory \in Seq(Headings) /\ PodGpu \in Seq(Headings)
  BY <1>1, Zenon
<1>4. NodeCells(t) \in Seq(Headings)
  BY <1>3 DEF NodeCells
<1>5. PodCells(t) \in Seq(Headings) /\ PodHeader(t) \in Seq(Headings)
  BY <1>3 DEF PodCells, PodHeader
<1>6. NodeHeader(t) \in Seq(Headings)
  <2>1. NodeCpu \o NodeMemory \o NodeGpu \o <<"PodCount (%)">> \in Seq(Headings)
    <3>1. ASSUME NEW s \in Seq(Headings)
          PROVE  NodeCpu \o NodeMemory \o NodeGpu \o s \in Seq(Headings)
      BY <1>3
    <3> QED BY <1>2, <3>1, Zenon
  <2> QED BY <1>3, <2>1, Zenon DEF NodeHeader
<1> QED BY <1>4, <1>5, <1>6

LEMMA Statuses == 0 \in 0..1 /\ 1 \in 0..1
OBVIOUS

LEMMA TypeInit == Init => TypeInv
<1> SUFFICES ASSUME Init PROVE TypeInv
  OBVIOUS
<1>1. args \in Seq(Names)
  <2>1. ASSUME NEW S
        PROVE  <<>> \in Seq(S) /\ [1..1 -> S] \subseteq Seq(S) /\ [1..2 -> S] \subseteq Seq(S)
    <3>1. 1 \in Nat /\ 2 \in Nat
      OBVIOUS
    <3> QED BY <3>1, EmptySeq, SeqDef, Zenon
  <2>2. args \in {<<>>} \cup [1..1 -> Names] \cup [1..2 -> Names]
    BY Zenon DEF Init
  <2> QED BY <2>1, <2>2, Zenon
<1>2. options \in Options \cup {NoFlags} /\ command \in Commands
  BY Zenon DEF Init
<1>3. resourceName \in Names /\ resourceType \in TypeSlices
  BY Zenon DEF Init, Names, TypeSlices
<1>4. stage = "execute" /\ ~asked /\ stdout = "" /\ stderr = {} /\ k = 0
  BY Zenon DEF Init, Call!Init
<1>5. request \in [name : Names, selector : Selectors \ {"bad"},
                  fieldSelector : Selectors \ {"bad"}]
  <2>1. request = NoRequest
    BY Zenon DEF Init
  <2>2. "" \in Names /\ "" \in Selectors \ {"bad"}
    BY DEF Names, Selectors
  <2> QED BY <2>1, <2>2 DEF NoRequest
<1>6. row \in Seq(Headings) /\ header \in Seq(Headings)
  <2>1. ASSUME NEW S PROVE <<>> \in Seq(S)
    OBVIOUS
  <2> QED BY <2>1, Zenon DEF Init
<1>7. k \in 0..Len(resourceType) /\ status \in 0..1
  <2>1. Len(<<>>) = 0
    BY EmptySeq, Zenon
  <2>2. 0 \in 0..0
    OBVIOUS
  <2> QED BY <2>1, <2>2, Statuses, Zenon DEF Init
<1>8. TypeOK
  BY <1>1, <1>2, <1>3, <1>4, <1>5, <1>6, <1>7 DEF TypeOK, Stages
<1> QED BY <1>4, <1>8 DEF TypeInv, Unmade, Parsed, Chosen

LEMMA TypeNext == Inv /\ TypeInv /\ [Next]_vars => TypeInv'
<1> SUFFICES ASSUME Inv, TypeInv, [Next]_vars PROVE TypeInv'
  OBVIOUS
<1> USE TypesAreSeq
<1>1. ASSUME NEW m \in {"error", "timed out"}, Fail(m) PROVE TypeInv'
  <2>1. /\ stage' = "exited" /\ status' = 1 /\ stderr' = stderr \cup {m}
        /\ UNCHANGED <<command, args, options, resourceName, resourceType, request, asked,
                       row, header, k, stdout>>
    BY <1>1 DEF Fail, inputs, parsed, gatherVars, columns
  <2>2. stderr' \subseteq {"error", "timed out", "no resources"}
    BY <2>1, Zenon DEF TypeInv, TypeOK
  <2>3. status' \in 0..1
    BY <2>1, Statuses, Zenon
  <2>4. TypeOK'
    BY <2>1, <2>2, <2>3 DEF TypeInv, TypeOK, Stages
  <2>5. Unmade' /\ Parsed' /\ Chosen'
    BY <2>1 DEF TypeInv, Unmade, Parsed, Chosen, Early
  <2> QED BY <2>4, <2>5 DEF TypeInv
<1>2. ASSUME NEW t \in {"help", "version", "table"}, Show(t),
             t = "table" => stage = "heading"
      PROVE  TypeInv'
  <2>1. /\ stage' = "exited" /\ status' = 0 /\ stdout' = t
        /\ UNCHANGED <<command, args, options, resourceName, resourceType, request, asked,
                       row, header, k, stderr>>
    BY <1>2 DEF Show, inputs, parsed, gatherVars, columns
  <2>2. stdout' \in {"", "help", "version", "table"} /\ status' \in 0..1
    BY <1>2, <2>1, Statuses, Zenon
  <2>3. TypeOK'
    BY <2>1, <2>2 DEF TypeInv, TypeOK, Stages
  <2>4. Unmade' /\ Parsed' /\ Chosen'
    BY <1>2, <2>1 DEF TypeInv, Unmade, Parsed, Chosen, Early
  <2> QED BY <2>3, <2>4 DEF TypeInv
<1>3. CASE Execute
  <2>1. CASE Enter("complete") /\ UNCHANGED parsed /\ stage = "execute"
    BY <2>1 DEF Enter, TypeInv, TypeOK, Unmade, Parsed, Chosen, inputs, parsed, gatherVars,
                columns, printed, Early, Stages
  <2> QED BY <1>1, <1>2, <1>3, <2>1 DEF Execute
<1>4. CASE Complete
  <2>1. CASE /\ stage = "complete" /\ Len(args) <= 1
             /\ resourceName' = IF args = <<>> THEN "" ELSE args[1]
             /\ Enter("validate") /\ UNCHANGED resourceType
    <3>1. resourceName' \in Names
      <4>1. ASSUME NEW S, NEW s \in Seq(S), s # <<>> PROVE s[1] \in S
        BY <4>1
      <4>2. args \in Seq(Names) /\ "" \in Names
        BY Zenon DEF TypeInv, TypeOK, Names
      <4> QED BY <2>1, <4>1, <4>2, Zenon
    <3> QED BY <2>1, <3>1 DEF Enter, TypeInv, TypeOK, Unmade, Parsed, Chosen, inputs,
                  gatherVars, columns, printed, Early, Stages
  <2> QED BY <1>1, <1>4, <2>1 DEF Complete
<1>5. CASE Validate
  <2>1. CASE /\ stage = "validate" /\ resourceType' = Split(options.type)
             /\ Enter("parse") /\ UNCHANGED resourceName
    <3>1. resourceType' \in TypeSlices /\ resourceType' # <<>>
      BY <2>1, FlagsSplit, FlagGiven, Zenon
    <3>2. Len(resourceType') \in Nat
      BY <3>1, SliceIsSeq
    <3>3. /\ stage' = "parse"
          /\ UNCHANGED <<command, args, options, resourceName, request, row, header, k,
                         stdout, stderr, status>>
      BY <2>1 DEF Enter, inputs, columns, printed
    <3>4. k' = 0 /\ k' \in 0..Len(resourceType')
      BY <2>1, <3>2, <3>3 DEF TypeInv, Unmade, Early
    <3>5. TypeOK'
      BY <3>1, <3>3, <3>4 DEF TypeInv, TypeOK, Stages
    <3>6. Unmade' /\ Parsed' /\ Chosen'
      BY <2>1, <3>3, <3>4, Zenon DEF Unmade, Parsed, Chosen
    <3> QED BY <3>5, <3>6 DEF TypeInv
  <2> QED BY <1>1, <1>5, <2>1 DEF Validate
<1>6. CASE ParseSelectors
  <2>1. CASE /\ stage = "parse" /\ Enter("discover") /\ UNCHANGED parsed
             /\ "bad" \notin {options.selector, options.fieldSelector}
    BY <2>1 DEF Enter, TypeInv, TypeOK, Unmade, Parsed, Chosen, inputs, parsed, gatherVars,
                columns, printed, Early, Stages
  <2> QED BY <1>1, <1>6, <2>1 DEF ParseSelectors
<1>7. CASE Discover
  <2>1. CASE stage = "discover" /\ Enter("gather") /\ UNCHANGED parsed
    BY <2>1 DEF Enter, TypeInv, TypeOK, Unmade, Parsed, Chosen, inputs, parsed, gatherVars,
                columns, printed, Early, Stages
  <2> QED BY <1>1, <1>7, <2>1 DEF Discover
<1>8. CASE TimerFires
  BY <1>8 DEF TimerFires, Call!Expire, TypeInv, TypeOK, Unmade, Parsed, Chosen, inputs,
              parsed, columns, printed
<1>9. CASE Ask
  <2>1. /\ stage = "gather" /\ ~asked /\ asked'
        /\ UNCHANGED <<command, args, options, resourceName, resourceType, stage, header, k,
                       stdout, status>>
    BY <1>9 DEF Ask, Call!Ask, inputs, parsed
  <2>2. request' \in [name : Names, selector : Selectors \ {"bad"},
                      fieldSelector : Selectors \ {"bad"}]
    <3>1. options.selector \in Selectors \ {"bad"} /\ options.fieldSelector \in Selectors \ {"bad"}
      <4>1. ASSUME NEW o \in Options
            PROVE  o.selector \in Selectors /\ o.fieldSelector \in Selectors
        BY DEF Options
      <4>2. NoFlags.selector \in Selectors /\ NoFlags.fieldSelector \in Selectors
        BY DEF NoFlags, Selectors
      <4>3. options \in Options \/ options = NoFlags
        BY Zenon DEF TypeInv, TypeOK
      <4>4. options.selector # "bad" /\ options.fieldSelector # "bad"
        BY <2>1 DEF TypeInv, Parsed
      <4> QED BY <4>1, <4>2, <4>3, <4>4, Zenon
    <3>2. resourceName \in Names /\ "" \in Names /\ "" \in Selectors \ {"bad"}
      BY DEF TypeInv, TypeOK, Names, Selectors
    <3>3. ASSUME NEW M, NEW S, NEW n \in M, NEW s \in S, NEW f \in S
          PROVE  [name |-> n, selector |-> s, fieldSelector |-> f]
                   \in [name : M, selector : S, fieldSelector : S]
      OBVIOUS
    <3>4. [NoRequest EXCEPT !.name = resourceName]
            = [name |-> resourceName, selector |-> "", fieldSelector |-> ""]
      <4>1. ASSUME NEW a, NEW b, NEW c, NEW d
            PROVE  [[name |-> a, selector |-> b, fieldSelector |-> c] EXCEPT !.name = d]
                     = [name |-> d, selector |-> b, fieldSelector |-> c]
        OBVIOUS
      <4> QED BY <4>1, Zenon DEF NoRequest
    <3>5. CASE resourceName # ""
      <4>1. request' = [name |-> resourceName, selector |-> "", fieldSelector |-> ""]
        BY <1>9, <3>4, <3>5, Zenon DEF Ask
      <4> QED BY <3>2, <3>3, <4>1, Zenon
    <3>6. CASE resourceName = ""
      <4>1. request' = [name |-> "", selector |-> options.selector,
                        fieldSelector |-> options.fieldSelector]
        BY <1>9, <3>6, Zenon DEF Ask
      <4> QED BY <3>1, <3>2, <3>3, <4>1, Zenon
    <3> QED BY <3>5, <3>6
  <2>3. row' \in Seq(Headings)
    <3>1. ASSUME NEW S, NEW x \in S, NEW y \in S PROVE <<x>> \in Seq(S) /\ <<x, y>> \in Seq(S)
      OBVIOUS
    <3>2. "NODE" \in Headings /\ "NAMESPACE" \in Headings /\ "POD NAME" \in Headings
      BY Zenon DEF Headings
    <3> QED BY <1>9, <3>1, <3>2, Zenon DEF Ask
  <2>4. stderr' \subseteq {"error", "timed out", "no resources"}
    BY <1>9, Zenon DEF Ask, TypeInv, TypeOK
  <2>5. TypeOK'
    BY <2>1, <2>2, <2>3, <2>4 DEF TypeInv, TypeOK
  <2> QED BY <2>1, <2>5 DEF TypeInv, Unmade, Parsed, Chosen, Early
<1>10. CASE RowType
  <2>1. /\ stage = "gather" /\ asked /\ k < Len(resourceType) /\ k' = k + 1
        /\ UNCHANGED <<command, args, options, resourceName, resourceType, stage, request,
                       asked, header, stdout, stderr, status>>
    BY <1>10 DEF RowType, MoreTypes, inputs, parsed, gatherVars, printed
  <2>2. row' \in Seq(Headings)
    <3>1. PICK s \in Seq(Headings) : row' = row \o s
      BY <1>10, CellsAreHeadings, Zenon DEF RowType
    <3>2. ASSUME NEW S, NEW a \in Seq(S), NEW b \in Seq(S) PROVE a \o b \in Seq(S)
      OBVIOUS
    <3>3. row \in Seq(Headings)
      BY Zenon DEF TypeInv, TypeOK
    <3> QED BY <3>1, <3>2, <3>3, Zenon
  <2>3. k' \in 0..Len(resourceType')
    BY <2>1
  <2>4. TypeOK'
    BY <2>1, <2>2, <2>3, Zenon DEF TypeInv, TypeOK
  <2> QED BY <2>1, <2>4 DEF TypeInv, Unmade, Parsed, Chosen, Early
<1>11. CASE HeaderType
  <2>1. /\ stage = "heading" /\ k < Len(resourceType) /\ k' = k + 1
        /\ UNCHANGED <<command, args, options, resourceName, resourceType, stage, request,
                       asked, row, stdout, stderr, status>>
    BY <1>11 DEF HeaderType, MoreTypes, inputs, parsed, gatherVars, printed
  <2>2. header' \in Seq(Headings)
    <3>1. PICK s \in Seq(Headings) : header' = header \o s
      BY <1>11, CellsAreHeadings, Zenon DEF HeaderType
    <3>2. ASSUME NEW S, NEW a \in Seq(S), NEW b \in Seq(S) PROVE a \o b \in Seq(S)
      OBVIOUS
    <3>3. header \in Seq(Headings)
      BY Zenon DEF TypeInv, TypeOK
    <3> QED BY <3>1, <3>2, <3>3, Zenon
  <2>3. k' \in 0..Len(resourceType')
    BY <2>1
  <2>4. TypeOK'
    BY <2>1, <2>2, <2>3, Zenon DEF TypeInv, TypeOK
  <2> QED BY <2>1, <2>4 DEF TypeInv, Unmade, Parsed, Chosen, Early
<1>12. CASE Gathering
  <2>1. asked' = asked
    BY <1>12 DEF Gathering, Call!Find, Call!Break, Call!Respond
  <2> QED BY <1>12, <2>1 DEF Gathering, TypeInv, TypeOK, Unmade, Parsed, Chosen, inputs,
                parsed, columns, printed
<1>13. CASE Returned
  <2>1. CASE ~Failed
    <3>1. /\ stage = "gather" /\ stage' = "heading" /\ k' = 0
          /\ UNCHANGED <<command, args, options, resourceName, resourceType, request, row,
                         stdout, stderr, status>>
      BY <1>13, <2>1 DEF Returned, inputs, parsed, gatherVars, printed
    <3>2. header' \in Seq(Headings)
      <4>1. ASSUME NEW S, NEW x \in S, NEW y \in S
            PROVE  <<x>> \in Seq(S) /\ <<x, y>> \in Seq(S)
        OBVIOUS
      <4>2. "NODE" \in Headings /\ "NAMESPACE" \in Headings /\ "POD NAME" \in Headings
        BY Zenon DEF Headings
      <4> QED BY <1>13, <2>1, <4>1, <4>2, Zenon DEF Returned
    <3>3. k' \in 0..Len(resourceType')
      BY <3>1
    <3>4. TypeOK'
      BY <3>1, <3>2, <3>3 DEF TypeInv, TypeOK, Stages
    <3> QED BY <3>1, <3>4 DEF TypeInv, Unmade, Parsed, Chosen, Early
  <2> QED BY <1>1, <1>13, <2>1 DEF Returned, Message
<1>14. CASE Render
  BY <1>2, <1>14 DEF Render
<1>15. CASE UNCHANGED vars
  BY <1>15 DEF vars, TypeInv, TypeOK, Unmade, Parsed, Chosen, inputs, parsed, gatherVars,
               columns, printed
<1> QED BY <1>3, <1>4, <1>5, <1>6, <1>7, <1>8, <1>9, <1>10, <1>11, <1>12, <1>13, <1>14,
           <1>15 DEF Next

(* The types of all the variables, for any values of --type.               *)
THEOREM TypeCorrect == Spec => []TypeOK
<1>1. TypeInv => TypeOK
  BY DEF TypeInv
<1> QED BY <1>1, TypeInit, TypeNext, Invariance, PTL DEF Spec

-----------------------------------------------------------------------------
(* Rows and heading are made by two loops over the same types: after as    *)
(* many types, both are the same concatenation.                            *)

FirstColumns == IF command = "node" THEN <<"NODE">> ELSE <<"NAMESPACE", "POD NAME">>
RowCells(t) == IF command = "node" THEN NodeCells(t) ELSE PodCells(t)
HeadingCells(t) == IF command = "node" THEN NodeHeader(t) ELSE PodHeader(t)

\* f[j] is the columns of the first j types.
Concatenates(f, m) ==
  /\ f[0] = FirstColumns
  /\ \A j \in 0..(m - 1) : f[j + 1] = f[j] \o RowCells(resourceType[j + 1])

\* No row is found before it has the columns of every type.
RowsMade ==
  /\ stage = "gather" /\ asked => \E f : Concatenates(f, k) /\ row = f[k]
  /\ stage = "gather" /\ found # {} => k = Len(resourceType)
  /\ ~asked => order = <<>> /\ found = {}
  /\ order # <<>> => ToSet(order) # {}

\* The heading of a table that has rows, if it is not the default one of the nodes.
Headed == order # <<>> /\ ~(command = "node" /\ resourceType = <<"">>)
HeadingMade ==
  /\ stage = "heading" /\ Headed =>
       \E f : /\ Concatenates(f, Len(resourceType))
              /\ row = f[Len(resourceType)] /\ header = f[k]
  /\ stdout = "table" /\ Headed => header = row

ColumnInv == RowsMade /\ HeadingMade

\* Among the types offered, a heading has the columns of the rows.
LEMMA SameColumns ==
  ASSUME NEW t \in Offered
  PROVE  RowCells(t) = HeadingCells(t)
<1>1. command # "node" => RowCells(t) = HeadingCells(t)
  BY Zenon DEF RowCells, HeadingCells, PodCells, PodHeader
<1>2. command = "node" => t \in {"cpu", "memory", "pod", "gpu"}
  BY Zenon DEF Offered
<1>3. t \in {"cpu", "memory", "pod", "gpu"} => NodeCells(t) = NodeHeader(t)
  BY DEF NodeCells, NodeHeader
<1> QED BY <1>1, <1>2, <1>3, Zenon DEF RowCells, HeadingCells

LEMMA PodColumns ==
  ASSUME NEW t, command # "node"
  PROVE  RowCells(t) = HeadingCells(t)
  BY Zenon DEF RowCells, HeadingCells, PodCells, PodHeader

LEMMA SameTypes ==
  ASSUME UNCHANGED <<command, resourceType>>
  PROVE  /\ FirstColumns' = FirstColumns
         /\ \A t : RowCells(t)' = RowCells(t) /\ HeadingCells(t)' = HeadingCells(t)
         /\ \A f, m : Concatenates(f, m)' <=> Concatenates(f, m)
         /\ order' = order => (Headed' <=> Headed)
<1>1. FirstColumns' = FirstColumns
  BY DEF FirstColumns
<1>2. \A t : RowCells(t)' = RowCells(t) /\ HeadingCells(t)' = HeadingCells(t)
  BY Zenon DEF RowCells, HeadingCells, NodeCells, PodCells, NodeHeader, PodHeader
<1>3. \A f, m : Concatenates(f, m)' <=> Concatenates(f, m)
  BY <1>1, <1>2, Zenon DEF Concatenates
<1>4. order' = order => (Headed' <=> Headed)
  BY Zenon DEF Headed
<1> QED BY <1>1, <1>2, <1>3, <1>4

LEMMA ColumnInit == Init => ColumnInv
<1> SUFFICES ASSUME Init PROVE ColumnInv
  OBVIOUS
<1>1. stage = "execute" /\ ~asked /\ order = <<>> /\ found = {} /\ stdout = ""
  BY Zenon DEF Init, Call!Init
<1> QED BY <1>1 DEF ColumnInv, RowsMade, HeadingMade

\* A step outside the loops and the call.
LEMMA ColumnsAside ==
  ASSUME ColumnInv, UNCHANGED <<asked, order, found>>, stdout' # "table",
         stage' # "heading", stage' = "gather" => ~asked
  PROVE  ColumnInv'
  BY DEF ColumnInv, RowsMade, HeadingMade, ToSet

LEMMA FailAside ==
  ASSUME Inv, ColumnInv, stage # "exited", NEW m, Fail(m)
  PROVE  ColumnInv'
<1>1. stage' = "exited" /\ stdout' = "" /\ UNCHANGED <<asked, order, found>>
  BY DEF Fail, gatherVars, Inv, Silent
<1> QED BY <1>1, ColumnsAside

LEMMA ShowAside ==
  ASSUME ColumnInv, NEW t, t # "table", Show(t)
  PROVE  ColumnInv'
<1>1. stage' = "exited" /\ stdout' = t /\ UNCHANGED <<asked, order, found>>
  BY DEF Show, gatherVars
<1> QED BY <1>1, ColumnsAside

LEMMA EnterAside ==
  ASSUME Inv, ColumnInv, stage \in Early, NEW s \in Early \cup {"gather"}, Enter(s)
  PROVE  ColumnInv'
<1>1. stage' = s /\ stdout' = "" /\ ~asked /\ UNCHANGED <<asked, order, found>>
  BY DEF Enter, gatherVars, printed, Inv, Silent, NothingYet, Early
<1> QED BY <1>1, ColumnsAside DEF Early

\* The list is asked for: the columns before those of the first type.
LEMMA AskMakes ==
  ASSUME Inv, TypeInv, ColumnInv, Ask
  PROVE  ColumnInv'
<1>1. /\ stage = "gather" /\ ~asked /\ asked' /\ row' = FirstColumns
      /\ order' \in Call!SetToAllKPermutations(Item)
      /\ UNCHANGED <<command, resourceType, stage, found, k, stdout>>
  BY DEF Ask, Call!Ask, inputs, parsed, FirstColumns
<1>2. k = 0 /\ found = {}
  BY <1>1 DEF TypeInv, Unmade, ColumnInv, RowsMade
<1>3. \E f : Concatenates(f, 0) /\ row' = f[0]
  <2> DEFINE f == [j \in {0} |-> FirstColumns]
  <2>1. f[0] = FirstColumns
    OBVIOUS
  <2>2. \A j \in 0..(0 - 1) : f[j + 1] = f[j] \o RowCells(resourceType[j + 1])
    OBVIOUS
  <2> HIDE DEF f
  <2> QED BY <1>1, <2>1, <2>2, Zenon DEF Concatenates
<1>4. order' # <<>> => ToSet(order') # {}
  <2>1. PICK D, S : order' \in [D -> S]
    BY <1>1, Zenon DEF Call!SetToAllKPermutations, Call!SetToSeqs
  <2>2. D = {} => order' = <<>>
    BY <2>1
  <2>3. \A d \in D : order'[d] \in ToSet(order')
    BY <2>1, Zenon DEF ToSet
  <2> QED BY <2>2, <2>3, Zenon
<1>5. stdout = ""
  BY <1>1 DEF Inv, Silent
<1>6. RowsMade'
  BY <1>1, <1>2, <1>3, <1>4, SameTypes, Zenon DEF RowsMade
<1> QED BY <1>1, <1>5, <1>6 DEF ColumnInv, HeadingMade

\* One more type of the rows.
LEMMA RowTypeMakes ==
  ASSUME Inv, TypeInv, ColumnInv, RowType
  PROVE  ColumnInv'
<1>1. /\ stage = "gather" /\ asked /\ k < Len(resourceType) /\ k' = k + 1
      /\ row' = row \o RowCells(resourceType[k + 1])
      /\ UNCHANGED <<command, resourceType, stage, asked, order, found, stdout>>
  BY DEF RowType, MoreTypes, inputs, parsed, gatherVars, printed, RowCells
<1>2. PICK f : Concatenates(f, k) /\ row = f[k]
  BY <1>1, Zenon DEF ColumnInv, RowsMade
<1>3. k \in Nat /\ Len(resourceType) \in Nat
  BY TypesAreSeq
<1>4. \E g : Concatenates(g, k + 1) /\ row' = g[k + 1]
  <2> DEFINE g == [j \in 0..(k + 1) |-> IF j = k + 1 THEN row' ELSE f[j]]
  <2>1. g[0] = f[0] /\ g[k + 1] = row' /\ \A j \in 0..k : g[j] = f[j]
    BY <1>3
  <2>2. ASSUME NEW j \in 0..((k + 1) - 1)
        PROVE  g[j + 1] = g[j] \o RowCells(resourceType[j + 1])
    <3>1. CASE j = k
      <4>1. k \in 0..k
        BY <1>3
      <4> HIDE DEF g
      <4> QED BY <1>1, <1>2, <2>1, <3>1, <4>1, Zenon
    <3>2. CASE j # k
      <4>1. j \in 0..(k - 1) /\ j \in 0..k /\ j + 1 \in 0..k
        BY <1>3, <3>2
      <4>2. f[j + 1] = f[j] \o RowCells(resourceType[j + 1])
        BY <1>2, <4>1, Zenon DEF Concatenates
      <4> HIDE DEF g
      <4> QED BY <2>1, <4>1, <4>2, Zenon
    <3> QED BY <3>1, <3>2
  <2> HIDE DEF g
  <2>3. g[0] = FirstColumns
    BY <1>2, <2>1, Zenon DEF Concatenates
  <2> QED BY <2>1, <2>2, <2>3, Zenon DEF Concatenates
<1>5. found = {}
  BY <1>1, <1>3 DEF ColumnInv, RowsMade
<1>6. stdout = ""
  BY <1>1 DEF Inv, Silent
<1>7. RowsMade'
  BY <1>1, <1>4, <1>5, SameTypes, Zenon DEF ColumnInv, RowsMade
<1> QED BY <1>1, <1>6, <1>7 DEF ColumnInv, HeadingMade

\* The call goes on: a row is found once it has all its columns.
LEMMA GatheringKeeps ==
  ASSUME Inv, TypeInv, ColumnInv, Gathering
  PROVE  ColumnInv'
<1>1. /\ stage = "gather" /\ stdout = ""
      /\ UNCHANGED <<command, resourceType, stage, asked, order, row, k, stdout>>
  BY DEF Gathering, inputs, parsed, columns, printed, Call!Find, Call!Break, Call!Respond,
         Inv, Silent
<1>2. \/ found' = found
      \/ ~MoreTypes /\ \E x : x \in ToSet(order)
  BY Zenon DEF Gathering, Call!Find, Call!Break, Call!Respond, ToSet, Call!ToSet
<1>3. k \in Nat /\ Len(resourceType) \in Nat /\ k <= Len(resourceType)
  BY TypesAreSeq
<1>4. ~MoreTypes => k = Len(resourceType)
  BY <1>3 DEF MoreTypes
<1>5. (\E x : x \in ToSet(order)) => asked
  BY DEF ColumnInv, RowsMade, ToSet
<1>6. RowsMade'
  BY <1>1, <1>2, <1>4, <1>5, SameTypes, Zenon DEF ColumnInv, RowsMade
<1> QED BY <1>1, <1>6 DEF ColumnInv, HeadingMade

\* The heading is begun, of a table whose rows have all their columns.
LEMMA HeadingBegun ==
  ASSUME Inv, TypeInv, ColumnInv, Returned, ~Failed
  PROVE  ColumnInv'
<1>1. /\ stage = "gather" /\ stage' = "heading" /\ k' = 0 /\ header' = FirstColumns
      /\ answer.kind # "none"
      /\ UNCHANGED <<command, resourceType, asked, order, found, row, stdout>>
  BY DEF Returned, inputs, parsed, gatherVars, printed, FirstColumns
<1>2. asked /\ found = ToSet(order)
  BY <1>1, Kinds DEF Inv, Answered, Failed
<1>3. order # <<>> => k = Len(resourceType)
  BY <1>1, <1>2, Zenon DEF ColumnInv, RowsMade
<1>4. PICK f : Concatenates(f, k) /\ row = f[k]
  BY <1>1, <1>2, Zenon DEF ColumnInv, RowsMade
<1>5. header' = f[0]
  BY <1>1, <1>4, Zenon DEF Concatenates
<1>6. Headed => order # <<>>
  BY Zenon DEF Headed
<1>7. stdout = ""
  BY <1>1 DEF Inv, Silent
<1>8. HeadingMade'
  BY <1>1, <1>3, <1>4, <1>5, <1>6, <1>7, SameTypes, Zenon DEF HeadingMade
<1>9. RowsMade'
  BY <1>1 DEF ColumnInv, RowsMade, ToSet
<1> QED BY <1>8, <1>9 DEF ColumnInv

\* One more type of the heading: the columns the rows have of it.
LEMMA HeaderTypeMakes ==
  ASSUME Inv, TypeInv, ColumnInv, HeaderType
  PROVE  ColumnInv'
<1>1. /\ stage = "heading" /\ k < Len(resourceType) /\ k' = k + 1
      /\ header' = header \o HeadingCells(resourceType[k + 1])
      /\ UNCHANGED <<command, resourceType, stage, asked, order, found, row, stdout>>
  BY DEF HeaderType, MoreTypes, inputs, parsed, gatherVars, printed, HeadingCells
<1>2. /\ k \in Nat /\ Len(resourceType) \in Nat
      /\ resourceType \in Seq(Range(resourceType))
  BY TypesAreSeq
<1>3. k \in 0..(Len(resourceType) - 1) /\ k + 1 \in 1..Len(resourceType)
  BY <1>1, <1>2
<1>4. Headed => RowCells(resourceType[k + 1]) = HeadingCells(resourceType[k + 1])
  <2>1. CASE command # "node"
    BY <2>1, PodColumns, Zenon
  <2>2. CASE command = "node" /\ resourceType # <<"">>
    <3>1. options.type # <<>>
      BY <1>1, <2>2, Zenon DEF TypeInv, Chosen, Split
    <3>2. Range(resourceType) \subseteq Offered
      BY <1>1, <3>1, Zenon DEF Inv, Validated
    <3>3. resourceType[k + 1] \in Range(resourceType)
      BY <1>2, <1>3
    <3> QED BY <3>2, <3>3, SameColumns, Zenon
  <2> QED BY <2>1, <2>2, Zenon DEF Headed
<1>5. Headed => \E f : /\ Concatenates(f, Len(resourceType))
                      /\ row = f[Len(resourceType)] /\ header' = f[k + 1]
  <2> SUFFICES ASSUME Headed
               PROVE  \E f : /\ Concatenates(f, Len(resourceType))
                             /\ row = f[Len(resourceType)] /\ header' = f[k + 1]
    OBVIOUS
  <2>1. PICK f : /\ Concatenates(f, Len(resourceType))
                 /\ row = f[Len(resourceType)] /\ header = f[k]
    BY <1>1, Zenon DEF ColumnInv, HeadingMade
  <2>2. f[k + 1] = f[k] \o RowCells(resourceType[k + 1])
    BY <1>3, <2>1, Zenon DEF Concatenates
  <2> QED BY <1>1, <1>4, <2>1, <2>2, Zenon
<1>6. stdout = ""
  BY <1>1 DEF Inv, Silent
<1>7. HeadingMade'
  BY <1>1, <1>5, <1>6, SameTypes, Zenon DEF HeadingMade
<1>8. RowsMade'
  BY <1>1 DEF ColumnInv, RowsMade, ToSet
<1> QED BY <1>7, <1>8 DEF ColumnInv

\* The table is printed once the heading has the columns of every type.
LEMMA RenderFits ==
  ASSUME TypeInv, ColumnInv, Render
  PROVE  ColumnInv'
<1>1. /\ stage = "heading" /\ ~MoreTypes /\ stage' = "exited"
      /\ UNCHANGED <<command, resourceType, asked, order, found, row, header>>
  BY DEF Render, Show, inputs, parsed, gatherVars, columns
<1>2. k = Len(resourceType)
  BY <1>1, TypesAreSeq DEF MoreTypes
<1>3. Headed => header = row
  BY <1>1, <1>2, Zenon DEF ColumnInv, HeadingMade
<1>4. HeadingMade'
  BY <1>1, <1>3, SameTypes, Zenon DEF HeadingMade
<1>5. RowsMade'
  BY <1>1 DEF ColumnInv, RowsMade, ToSet
<1> QED BY <1>4, <1>5 DEF ColumnInv

LEMMA ColumnNext == Inv /\ TypeInv /\ ColumnInv /\ [Next]_vars => ColumnInv'
<1> SUFFICES ASSUME Inv, TypeInv, ColumnInv, [Next]_vars PROVE ColumnInv'
  OBVIOUS
<1>1. CASE Execute
  BY <1>1, EnterAside, ShowAside, FailAside DEF Execute, Early
<1>2. CASE Complete
  BY <1>2, EnterAside, FailAside DEF Complete, Early
<1>3. CASE Validate
  BY <1>3, EnterAside, FailAside DEF Validate, Early
<1>4. CASE ParseSelectors
  BY <1>4, EnterAside, FailAside DEF ParseSelectors, Early
<1>5. CASE Discover
  BY <1>5, EnterAside, FailAside DEF Discover, Early
<1>6. CASE TimerFires \/ UNCHANGED vars
  <2>1. UNCHANGED <<command, resourceType, stage, asked, order, found, row, header, k, stdout>>
    BY <1>6 DEF TimerFires, Call!Expire, vars, inputs, parsed, columns, printed, gatherVars
  <2>2. RowsMade'
    BY <2>1, SameTypes, Zenon DEF ColumnInv, RowsMade
  <2>3. HeadingMade'
    BY <2>1, SameTypes, Zenon DEF ColumnInv, HeadingMade
  <2> QED BY <2>2, <2>3 DEF ColumnInv
<1>7. CASE Returned
  BY <1>7, HeadingBegun, FailAside DEF Returned
<1> QED BY <1>1, <1>2, <1>3, <1>4, <1>5, <1>6, <1>7, AskMakes, RowTypeMakes, GatheringKeeps,
           HeaderTypeMakes, RenderFits DEF Next

(* Every cell of a table stands under the heading of what it shows, for    *)
(* any values of --type; but for the default table of the nodes.           *)
THEOREM KnownHeaderAlwaysFits == Spec => []KnownHeaderFits
<1>1. ColumnInv => KnownHeaderFits
  BY Zenon DEF ColumnInv, HeadingMade, Headed, KnownHeaderFits, HeaderFits
<1> QED BY <1>1, ColumnInit, ColumnNext, TypeInit, TypeNext, Invariance, PTL DEF Spec

-----------------------------------------------------------------------------
(* The set of the columns of a row, from the types of the flag.            *)

\* What the rows show of the first m types.
Shown(m) ==
  Range(FirstColumns) \cup UNION {Range(RowCells(resourceType[j])) : j \in 1..m}

\* So far, and once there is a row.
RangeMade ==
  /\ stage = "gather" /\ asked => Range(row) = Shown(k)
  /\ (stage = "heading" \/ stdout = "table") /\ order # <<>> =>
       Range(row) = Shown(Len(resourceType))

LEMMA ShownStays ==
  ASSUME UNCHANGED <<command, resourceType>>
  PROVE  \A m : Shown(m)' = Shown(m)
  BY SameTypes, Zenon DEF Shown

LEMMA ShownMore ==
  ASSUME NEW m \in Nat
  PROVE  /\ Shown(0) = Range(FirstColumns)
         /\ Shown(m + 1) = Shown(m) \cup Range(RowCells(resourceType[m + 1]))
<1>1. 1..0 = {} /\ 1..(m + 1) = (1..m) \cup {m + 1}
  OBVIOUS
<1> QED BY <1>1, Zenon DEF Shown

LEMMA RangeInit == Init => RangeMade
<1> SUFFICES ASSUME Init PROVE RangeMade
  OBVIOUS
<1>1. stage = "execute" /\ stdout = ""
  BY Zenon DEF Init
<1> QED BY <1>1 DEF RangeMade

\* A step outside the loop over the types of the rows.
LEMMA RangeAside ==
  ASSUME RangeMade, UNCHANGED <<command, resourceType, asked, order, row, k>>,
         stage' = stage, stdout' = stdout
  PROVE  RangeMade'
  BY ShownStays, Zenon DEF RangeMade

LEMMA RangeNext == Inv /\ TypeInv /\ ColumnInv /\ RangeMade /\ [Next]_vars => RangeMade'
<1> SUFFICES ASSUME Inv, TypeInv, ColumnInv, RangeMade, [Next]_vars PROVE RangeMade'
  OBVIOUS
<1>1. ASSUME stage # "exited", NEW m, Fail(m) PROVE RangeMade'
  <2>1. stage' = "exited" /\ stdout' = ""
    BY <1>1 DEF Fail, Inv, Silent
  <2> QED BY <2>1 DEF RangeMade
<1>2. ASSUME NEW t, t # "table", Show(t) PROVE RangeMade'
  <2>1. stage' = "exited" /\ stdout' = t
    BY <1>2 DEF Show
  <2> QED BY <1>2, <2>1 DEF RangeMade
<1>3. ASSUME stage \in Early, NEW s \in Early \cup {"gather"}, Enter(s) PROVE RangeMade'
  <2>1. stage' = s /\ stdout' = "" /\ ~asked'
    BY <1>3 DEF Enter, gatherVars, printed, Inv, Silent, NothingYet, Early
  <2> QED BY <1>3, <2>1 DEF RangeMade, Early
<1>4. CASE Execute
  BY <1>1, <1>2, <1>3, <1>4 DEF Execute, Early
<1>5. CASE Complete \/ Validate \/ ParseSelectors \/ Discover
  BY <1>1, <1>3, <1>5 DEF Complete, Validate, ParseSelectors, Discover, Early
<1>6. CASE TimerFires \/ HeaderType \/ Gathering \/ UNCHANGED vars
  <2>1. CASE HeaderType
    <3>1. /\ UNCHANGED <<command, resourceType, asked, order, row, stdout>>
          /\ stage = "heading" /\ stage' = stage
      BY <2>1 DEF HeaderType, inputs, parsed, gatherVars, printed
    <3> QED BY <3>1, ShownStays DEF RangeMade
  <2>2. CASE ~HeaderType
    <3>1. UNCHANGED <<command, resourceType, asked, order, row, k, stage, stdout>>
      BY <1>6, <2>2 DEF TimerFires, Call!Expire, Gathering, Call!Find, Call!Break,
         Call!Respond, vars, inputs, parsed, columns, printed, gatherVars
    <3> QED BY <3>1, RangeAside
  <2> QED BY <2>1, <2>2
<1>7. CASE Ask
  <2>1. /\ stage = "gather" /\ ~asked /\ row' = FirstColumns
        /\ UNCHANGED <<command, resourceType, stage, k, stdout>>
    BY <1>7 DEF Ask, Call!Ask, inputs, parsed, FirstColumns
  <2>2. k = 0 /\ stdout = ""
    BY <2>1 DEF TypeInv, Unmade, Inv, Silent
  <2>3. Range(row') = Shown(0)
    BY <2>1, ShownMore, Zenon
  <2> QED BY <2>1, <2>2, <2>3, ShownStays DEF RangeMade
<1>8. CASE RowType
  <2>1. /\ stage = "gather" /\ asked /\ k' = k + 1
        /\ row' = row \o RowCells(resourceType[k + 1])
        /\ UNCHANGED <<command, resourceType, stage, asked, order, stdout>>
    BY <1>8 DEF RowType, inputs, parsed, gatherVars, printed, RowCells
  <2>2. row \in Seq(Headings) /\ RowCells(resourceType[k + 1]) \in Seq(Headings)
    BY CellsAreHeadings, Zenon DEF TypeInv, TypeOK, RowCells
  <2>3. Range(row') = Range(row) \cup Range(RowCells(resourceType[k + 1]))
    BY <2>1, <2>2, RangeConcatenation, Zenon
  <2>4. Range(row') = Shown(k + 1)
    BY <2>1, <2>3, ShownMore, TypesAreSeq, Zenon DEF RangeMade
  <2>5. stdout = ""
    BY <2>1 DEF Inv, Silent
  <2> QED BY <2>1, <2>4, <2>5, ShownStays DEF RangeMade
<1>9. CASE Returned /\ ~Failed
  <2>1. /\ stage = "gather" /\ stage' = "heading" /\ answer.kind # "none"
        /\ UNCHANGED <<command, resourceType, asked, order, row, stdout>>
    BY <1>9 DEF Returned, inputs, parsed, gatherVars, printed
  <2>2. asked /\ found = ToSet(order)
    BY <1>9, <2>1, Kinds DEF Inv, Answered, Failed
  <2>3. order # <<>> => k = Len(resourceType)
    BY <2>1, <2>2, Zenon DEF ColumnInv, RowsMade
  <2> QED BY <2>1, <2>2, <2>3, ShownStays DEF RangeMade
<1>10. CASE Returned /\ Failed
  BY <1>1, <1>10 DEF Returned
<1>11. CASE Render
  <2>1. /\ stage = "heading" /\ stage' = "exited"
        /\ UNCHANGED <<command, resourceType, asked, order, row>>
    BY <1>11 DEF Render, Show, inputs, parsed, gatherVars, columns
  <2> QED BY <2>1, ShownStays DEF RangeMade
<1> QED BY <1>4, <1>5, <1>6, <1>7, <1>8, <1>9, <1>10, <1>11 DEF Next

\* The types the flag was found to name, or all of them, have the columns asked for.
LEMMA AskedIsShown ==
  ASSUME Inv, TypeInv, stdout = "table", order # <<>>
  PROVE  Shown(Len(resourceType)) = KeyColumns \cup UNION {ColumnsOf(t) : t \in TypesAsked}
<1>1. Range(FirstColumns) = KeyColumns
  <2>1. ASSUME NEW a, NEW b PROVE Range(<<a>>) = {a} /\ Range(<<a, b>>) = {a, b}
    <3>1. DOMAIN <<a>> = {1} /\ DOMAIN <<a, b>> = {1, 2} /\ <<a>>[1] = a
          /\ <<a, b>>[1] = a /\ <<a, b>>[2] = b
      OBVIOUS
    <3> QED BY <3>1, Zenon DEF Range
  <2> QED BY <2>1, Zenon DEF FirstColumns, KeyColumns
<1>2. /\ resourceType = Split(options.type) /\ stage = "exited" /\ answer.kind = "rows"
      /\ asked
  BY Kinds DEF TypeInv, Chosen, Inv, Silent, Ended, Answered
<1>3. ASSUME NEW t \in Offered PROVE Range(RowCells(t)) = ColumnsOf(t)
  <2>1. CASE command = "node"
    <3>1. t \in {"cpu", "memory", "pod", "gpu"}
      BY <2>1, Zenon DEF Offered
    <3> QED BY <2>1, <3>1 DEF RowCells, NodeCells, ColumnsOf
  <2>2. CASE command # "node"
    <3>1. t \in {"cpu", "memory", "gpu"}
      BY <2>2, Zenon DEF Offered
    <3> QED BY <2>2, <3>1 DEF RowCells, PodCells, ColumnsOf
  <2> QED BY <2>1, <2>2
<1>4. UNION {Range(RowCells(resourceType[j])) : j \in 1..Len(resourceType)}
        = UNION {ColumnsOf(t) : t \in TypesAsked}
  <2>1. CASE options.type = <<>>
    <3>1. resourceType = <<"">> /\ TypesAsked = Offered
      BY <1>2, <2>1, Zenon DEF Split, TypesAsked
    <3>2. 1..Len(resourceType) = {1} /\ resourceType[1] = ""
      <4>1. \A e : Len(<<e>>) = 1 /\ <<e>>[1] = e /\ 1..1 = {1}
        OBVIOUS
      <4> QED BY <3>1, <4>1, Zenon
    <3>3. Range(RowCells("")) = UNION {ColumnsOf(t) : t \in Offered}
      <4>1. ASSUME NEW S, NEW a \in Seq(S), NEW b \in Seq(S), NEW c \in Seq(S)
            PROVE  /\ a \o b \o c \in Seq(S)
                   /\ \A x : x \in Range(a \o b \o c)
                              <=> x \in Range(a) \/ x \in Range(b) \/ x \in Range(c)
        <5>1. a \o b \in Seq(S) /\ a \o b \o c \in Seq(S)
          OBVIOUS
        <5>2. Range(a \o b) = Range(a) \cup Range(b)
          BY RangeConcatenation
        <5>3. Range(a \o b \o c) = Range(a \o b) \cup Range(c)
          BY <5>1, RangeConcatenation
        <5> QED BY <5>1, <5>2, <5>3
      <4>2. ASSUME NEW S, NEW a \in Seq(S), NEW b \in Seq(S), NEW c \in Seq(S),
                   NEW d \in Seq(S)
            PROVE  \A x : x \in Range(a \o b \o c \o d)
                            <=> \/ x \in Range(a) \/ x \in Range(b)
                                \/ x \in Range(c) \/ x \in Range(d)
        <5>1. a \o b \o c \in Seq(S)
          OBVIOUS
        <5>2. Range(a \o b \o c \o d) = Range(a \o b \o c) \cup Range(d)
          BY <5>1, RangeConcatenation
        <5> QED BY <4>1, <5>2
      <4>3. /\ NodeCpu \in Seq(Headings) /\ NodeMemory \in Seq(Headings)
            /\ NodeGpu \in Seq(Headings) /\ NodePods \in Seq(Headings)
        <5>1. /\ NodeCells("cpu") = NodeCpu /\ NodeCells("memory") = NodeMemory
              /\ NodeCells("gpu") = NodeGpu /\ NodeCells("pod") = NodePods
          BY DEF NodeCells
        <5> QED BY <5>1, CellsAreHeadings, Zenon
      <4>4. /\ PodCpu \in Seq(Headings) /\ PodMemory \in Seq(Headings)
            /\ PodGpu \in Seq(Headings)
        <5>1. PodCells("cpu") = PodCpu /\ PodCells("memory") = PodMemory /\ PodCells("gpu") = PodGpu
          BY DEF PodCells
        <5> QED BY <5>1, CellsAreHeadings, Zenon
      <4>5. CASE command = "node"
        <5>1. RowCells("") = NodeCpu \o NodeMemory \o NodeGpu \o NodePods
          BY <4>5 DEF RowCells, NodeCells
        <5>2. Offered = {"cpu", "memory", "pod", "gpu"}
          BY <4>5, Zenon DEF Offered
        <5>3. /\ ColumnsOf("cpu") = Range(NodeCpu) /\ ColumnsOf("memory") = Range(NodeMemory)
              /\ ColumnsOf("gpu") = Range(NodeGpu) /\ ColumnsOf("pod") = Range(NodePods)
          BY <4>5 DEF ColumnsOf
        <5>4. \A x : x \in Range(RowCells(""))
                       <=> \/ x \in Range(NodeCpu) \/ x \in Range(NodeMemory)
                           \/ x \in Range(NodeGpu) \/ x \in Range(NodePods)
          <6>1. \A x : x \in Range(NodeCpu \o NodeMemory \o NodeGpu \o NodePods)
                         <=> \/ x \in Range(NodeCpu) \/ x \in Range(NodeMemory)
                             \/ x \in Range(NodeGpu) \/ x \in Range(NodePods)
            BY <4>2, <4>3
          <6> QED BY <5>1, <6>1, Zenon
        <5> QED BY <5>2, <5>3, <5>4, Zenon
      <4>6. CASE command # "node"
        <5>1. RowCells("") = PodCpu \o PodMemory \o PodGpu
          BY <4>6 DEF RowCells, PodCells
        <5>2. Offered = {"cpu", "memory", "gpu"}
          BY <4>6, Zenon DEF Offered
        <5>3. /\ ColumnsOf("cpu") = Range(PodCpu) /\ ColumnsOf("memory") = Range(PodMemory)
              /\ ColumnsOf("gpu") = Range(PodGpu)
          BY <4>6 DEF ColumnsOf
        <5>4. \A x : x \in Range(RowCells(""))
                       <=> x \in Range(PodCpu) \/ x \in Range(PodMemory) \/ x \in Range(PodGpu)
          BY <4>1, <4>4, <5>1, Zenon
        <5> QED BY <5>2, <5>3, <5>4, Zenon
      <4> QED BY <4>5, <4>6
    <3> QED BY <3>1, <3>2, <3>3, Zenon
  <2>2. CASE options.type # <<>>
    <3>1. resourceType = options.type
      BY <1>2, <2>2, Zenon DEF Split
    <3>2. Range(resourceType) \subseteq Offered
      BY <1>2, <2>2, Zenon DEF Inv, Validated
    <3>3. TypesAsked = Range(resourceType)
      BY <2>2, <3>1, <3>2, Zenon DEF TypesAsked
    <3>4. DOMAIN resourceType = 1..Len(resourceType)
      BY TypesAreSeq
    <3>5. TypesAsked = {resourceType[j] : j \in 1..Len(resourceType)}
      BY <3>3, <3>4, Zenon DEF Range
    <3>6. \A t \in TypesAsked : Range(RowCells(t)) = ColumnsOf(t)
      BY <1>3, <3>2, <3>3, Zenon
    <3> QED BY <3>5, <3>6, Zenon
  <2> QED BY <2>1, <2>2
<1> QED BY <1>1, <1>4, Zenon DEF Shown

(* A row shows the columns of the types asked for and no other, for any    *)
(* values of --type and any implementation of Gather.                      *)
THEOREM TableAlwaysAsAsked == Spec => []TableAsAsked
<1>1. Inv /\ TypeInv /\ RangeMade => TableAsAsked
  BY AskedIsShown, Zenon DEF RangeMade, TableAsAsked
<1> QED BY <1>1, RangeInit, RangeNext, ColumnInit, ColumnNext, TypeInit, TypeNext, Invariance,
           PTL DEF Spec
=============================================================================
