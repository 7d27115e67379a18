--------------------------- MODULE FanOutPromise ----------------------------
(***************************************************************************)
(* The fan-out implements Gather: each of its steps, seen through the      *)
(* refinement mapping of FanOut, is a step of Gather or changes nothing    *)
(* that Gather knows of.                                                   *)
(***************************************************************************)
EXTENDS FanOutProofs

\* The abstract state, by name.
FoundItems == {n \in Item : at[n] \in {"send", "done"} /\ err[n] = "nil"}
Order == IF Started THEN names ELSE <<>>
ShownNames == [k \in 1..Len(resources) |-> resources[k].name]
Answer == [kind |-> outcome, rows |-> IF outcome = "rows" THEN ShownNames ELSE <<>>]

LEMMA NothingAsked ==
  ASSUME NEW first \in Listing, NEW empty, FanOutInit(first, empty)
  PROVE  Promise!Init
  <1>1. ~Started /\ outcome = "none" /\ ctx # "deadline"
    BY DEF FanOutInit, Started, Listing
  <1>2. FoundItems = {} /\ fault = FALSE
    BY DEF FanOutInit, FoundItems
  <1> QED
    BY <1>1, <1>2
       DEF Promise!Init, Promise!NoAnswer, Promise!Refusal, FoundItems

\* The instance has its own copies of the sequence operators.
LEMMA SameOperators ==
  /\ \A s : Promise!ToSet(s) = ToSet(s)
  /\ \A S : Promise!SetToAllKPermutations(S) = SetToAllKPermutations(S)
  <1>1. \A s : Promise!ToSet(s) = ToSet(s)
    BY DEF Promise!ToSet, ToSet
  <1>2. ASSUME NEW S
        PROVE  Promise!SetToSeqs(S) = SetToSeqs(S)
    BY Zenon DEF Promise!SetToSeqs, SetToSeqs, Promise!Cardinality, Cardinality
  <1>3. ASSUME NEW S
        PROVE  Promise!SetToAllKPermutations(S) = SetToAllKPermutations(S)
    BY <1>2 DEF Promise!SetToAllKPermutations, SetToAllKPermutations
  <1> QED
    BY <1>1, <1>3

\* A step that changes none of what Gather knows of.
LEMMA Invisible ==
  ASSUME Started' <=> Started, Order' = Order, FoundItems' = FoundItems,
         (ctx' = "deadline") <=> (ctx = "deadline"), fault' = fault, Answer' = Answer
  PROVE  UNCHANGED Promise!gatherVars
  BY DEF Promise!gatherVars, Order, FoundItems, Answer, ShownNames

\* The first failure that reaches the caller, or the deadline.
LEMMA Refuses ==
  ASSUME NEW e \in {"api", "deadline"}, outcome = "none", outcome' = e,
         Started' <=> Started, Order' = Order, FoundItems' = FoundItems, ctx' = ctx,
         fault \in BOOLEAN, fault' \in BOOLEAN, fault => fault',
         e = "api" => fault', e = "deadline" => ctx = "deadline"
  PROVE  Promise!Respond
  <1>1. fault' \in {fault, TRUE}
    OBVIOUS
  <1> QED
    BY <1>1 DEF Promise!Respond, Promise!NoAnswer, Promise!Refusal, Order, FoundItems

\* Before the goroutines are started, nothing has been asked for.
LEMMA NotStarted ==
  ASSUME FanInv, pc \in Listing
  PROVE  /\ ~Started /\ outcome = "none" /\ ctx # "canceled"
         /\ FoundItems = {} /\ \A n \in Item : at[n] = "idle"
  BY DEF FanInv, Phases, NotYet, Started, FoundItems, Listing

LEMMA CallRefusedMapped ==
  ASSUME FanInv, CallRefused
  PROVE  Promise!Respond
  <1>1. PICK e \in CallErrors :
          pc' \in {"returned", "exited"} /\ outcome' = e /\ NoteFault(e)
    BY DEF CallRefused
  <1>2. pc \in Listing /\ UNCHANGED <<ctx, names, resources, at, err>>
    BY DEF CallRefused, collectVars, workVars
  <1>3. e \in {"api", "deadline"} /\ (e = "deadline" => ctx = "deadline")
    BY <1>1, <1>2, NotStarted DEF CallErrors, FanInv, FanOutTypeOK, CtxErrors
  <1>4. ~Started' /\ Order' = Order /\ FoundItems' = FoundItems
    BY <1>1, <1>2, <1>3, NotStarted DEF Started, Order, FoundItems
  <1>5. fault \in BOOLEAN /\ fault' \in BOOLEAN /\ (fault => fault') /\ (e = "api" => fault')
    BY <1>1, FaultNoted DEF FanInv, FanOutTypeOK
  <1> QED
    BY <1>1, <1>2, <1>3, <1>4, <1>5, NotStarted, Refuses

LEMMA CallAnsweredMapped ==
  ASSUME FanInv, CallAnswered
  PROVE  UNCHANGED Promise!gatherVars
  <1>1. /\ pc \in Listing /\ pc' \in Listing
        /\ UNCHANGED <<ctx, outcome, resources, at, err, fault>>
    BY DEF CallAnswered, collectVars, workVars
  <1>2. ~Started' /\ Order' = Order /\ FoundItems' = FoundItems /\ Answer' = Answer
    BY <1>1, NotStarted DEF Started, Order, FoundItems, Answer, ShownNames, Listing
  <1> QED
    BY <1>1, <1>2, NotStarted, Invisible

LEMMA LaunchMapped ==
  ASSUME FanInv, Launch
  PROVE  Promise!Ask
  <1>1. /\ pc \in Listing /\ pc' = "collect"
        /\ names' \in SetToAllKPermutations(Item)
        /\ at' = [n \in Item |-> IF n \in NameSet' THEN "start" ELSE "idle"]
        /\ UNCHANGED <<ctx, outcome, resources, err, fault>>
    BY DEF Launch, StartAll, collectVars
  <1>2. Started' /\ Order' \in Promise!SetToAllKPermutations(Item)
    BY <1>1, SameOperators DEF Started, Order
  <1>3. FoundItems' = {} /\ FoundItems = {}
    BY <1>1, NotStarted DEF FoundItems
  <1>4. Answer = Promise!NoAnswer /\ Answer' = Answer
    BY <1>1, NotStarted DEF Answer, Promise!NoAnswer, Promise!Refusal
  <1> QED
    BY <1>1, <1>2, <1>3, <1>4, NotStarted
       DEF Promise!Ask, Order, FoundItems, Answer, ShownNames

\* While there are names to wait for, some goroutine has been started.
LEMMA StartedForGood ==
  ASSUME FanInv, pc = "collect", Len(names) > 0, at' = at
  PROVE  Started /\ Started'
  <1>1. names[1] \in NameSet
    BY LengthsNat DEF NameSet, FanInv
  <1>2. names[1] \in Item /\ at[names[1]] # "idle"
    BY <1>1, NamesCounted DEF WorkersStarted, FanInv
  <1> QED
    BY <1>2 DEF Started

LEMMA CollectDoneMapped ==
  ASSUME FanInv, CollectDone
  PROVE  Promise!Respond
  <1>1. /\ pc = "collect" /\ i < Len(names) /\ ctx # "live" /\ outcome' = ctx
        /\ UNCHANGED <<ctx, names, resources, at, err, fault>>
    BY DEF CollectDone, MoreAnswers, Return, collectVars, workVars
  <1>2. ctx = "deadline" /\ outcome = "none" /\ fault \in BOOLEAN
    BY <1>1 DEF FanInv, Phases, FanOutTypeOK, CtxErrors
  <1>3. Started /\ Started'
    BY <1>1, StartedForGood, LengthsNat DEF FanInv
  <1>4. Order' = Order /\ FoundItems' = FoundItems
    BY <1>1, <1>3 DEF Order, FoundItems
  <1> QED
    BY <1>1, <1>2, <1>3, <1>4, Refuses

LEMMA ReturnResourcesMapped ==
  ASSUME FanInv, ReturnResources
  PROVE  Promise!Respond
  <1> USE DEF FanInv
  <1>1. /\ pc = "collect" /\ ~(i < Len(names)) /\ scanned = Len(names)
        /\ outcome' = IF firstError # "nil" THEN firstError ELSE "rows"
        /\ UNCHANGED <<ctx, names, resources, at, err, fault>>
    BY DEF ReturnResources, MoreAnswers, Verdict, Return, collectVars, workVars
  <1>2. i = Len(names) /\ outcome = "none" /\ Started /\ fault \in BOOLEAN
    BY <1>1, LengthsNat DEF FanOutTypeOK, Phases, Started
  <1>3. CASE firstError # "nil"
    <2>1. /\ firstError \in {"api", "deadline"}
          /\ firstError = "api" => fault
          /\ firstError = "deadline" => ctx = "deadline"
          /\ i > 0
      BY <1>3 DEF FanOutTypeOK, ErrorsGenuine, Genuine, Errors, CtxErrors
    <2>2. Started'
      BY <1>1, <1>2, <2>1, StartedForGood
    <2>3. Order' = Order /\ FoundItems' = FoundItems
      BY <1>1, <1>2, <2>2 DEF Order, FoundItems
    <2> QED
      BY <1>1, <1>2, <1>3, <2>1, <2>2, <2>3, Refuses
  <1>4. CASE firstError = "nil"
    <2>1. outcome' = "rows" /\ Started'
      BY <1>1, <1>4 DEF Started
    <2>2. Order = names /\ Order' = names
      BY <1>1, <1>2, <2>1 DEF Order
    <2>3. NameSet = DoneSet /\ \A n \in NameSet : KeyOf(n) \in DOMAIN resultMap
      BY <1>2, <1>4, AllCollected
    <2>4. FoundItems = NameSet
      <3>1. \A n \in NameSet : n \in Item /\ at[n] = "done" /\ err[n] = "nil"
        BY <2>3 DEF Faithful, DoneSet
      <3>2. \A n \in Item : at[n] \in {"send", "done"} => n \in NameSet
        BY DEF Workers, WorkerOK
      <3> QED
        BY <3>1, <3>2 DEF FoundItems
    <2>5. Promise!ToSet(names) = NameSet
      BY SameOperators DEF ToSet, NameSet, FanOutTypeOK
    <2>6. ShownNames = names
      <3>1. /\ Len(resources) = Len(names)
            /\ \A k \in 1..Len(names) : resources[k].name = names[k]
        BY <1>1, <1>4 DEF Rebuilt
      <3>2. names = [k \in 1..Len(names) |-> names[k]]
        BY LenProperties DEF FanOutTypeOK
      <3> QED
        BY <3>1, <3>2 DEF ShownNames
    <2>7. Answer' = [kind |-> "rows", rows |-> names]
      BY <1>1, <2>1, <2>6 DEF Answer, ShownNames
    <2>8. FoundItems' = FoundItems /\ fault' \in {fault, TRUE}
      BY <1>1, <1>2 DEF FoundItems
    <2> QED
      BY <1>1, <1>2, <2>1, <2>2, <2>4, <2>5, <2>7, <2>8
         DEF Promise!Respond, Promise!NoAnswer, Promise!Refusal, Promise!Rows, Order,
             FoundItems, Answer, ShownNames
  <1> QED
    BY <1>3, <1>4

\* Collecting, rebuilding and leaving.
LEMMA MappedToNothing ==
  ASSUME FanInv, CollectResult \/ Rebuild \/ Exit \/ UNCHANGED fanVars
  PROVE  UNCHANGED Promise!gatherVars
  <1> USE DEF FanInv
  <1>1. CASE CollectResult \/ Rebuild
    <2>1. /\ pc = "collect" /\ outcome = "none"
          /\ UNCHANGED <<pc, outcome, ctx, names, at, err, fault>>
      BY <1>1 DEF CollectResult, Rebuild, workVars, Phases
    <2> QED
      BY <2>1, Invisible DEF Started, Order, FoundItems, Answer
  <1>2. CASE Exit
    <2>1. /\ pc = "returned" /\ pc' = "exited" /\ (ctx' = "deadline" <=> ctx = "deadline")
          /\ UNCHANGED <<outcome, resources, names, at, err, fault>>
      BY <1>2 DEF Exit, collectVars, workVars
    <2> QED
      BY <2>1, Invisible DEF Started, Order, FoundItems, Answer, ShownNames
  <1>3. CASE UNCHANGED fanVars
    BY <1>3, Invisible
       DEF fanVars, collectVars, workVars, Started, Order, FoundItems, Answer, ShownNames
  <1> QED
    BY <1>1, <1>2, <1>3

LEMMA DeadlineMapped ==
  ASSUME FanInv, Deadline
  PROVE  Promise!Expire
  BY DEF Deadline, Promise!Expire, collectVars, workVars, Started, Order, FoundItems,
         Answer, ShownNames

LEMMA WorkerMapped ==
  ASSUME FanInv, NEW n \in Item, WorkerNext(n)
  PROVE  [Promise!Next]_Promise!gatherVars
  <1> USE DEF FanInv, Reading
  <1>1. /\ at[n] \notin {"idle", "done"} /\ at'[n] # "idle"
        /\ \A m \in Item \ {n} : at'[m] = at[m] /\ err'[m] = err[m]
        /\ UNCHANGED <<ctx, pc, names, resources, outcome>>
        /\ at[n] # "send" => err[n] = "nil"
        /\ at[n] = "send" => at'[n] = "done" /\ err'[n] = err[n]
    BY DEF WorkerNext, SetsOut, GivesUp, ReadFails, ReadReturns, TypeAdded, Send, Fail,
           FanOutTypeOK, Workers, WorkerOK, mainVars, collectVars
  <1>2. Started /\ Started'
    BY <1>1 DEF Started
  <1>3. Order' = Order /\ Answer' = Answer /\ (ctx' = "deadline" <=> ctx = "deadline")
    BY <1>1, <1>2 DEF Order, Answer, ShownNames
  <1>4. fault \in BOOLEAN /\ fault' \in BOOLEAN /\ (fault => fault')
    BY FaultNoted DEF WorkerNext, SetsOut, GivesUp, ReadFails, ReadReturns, TypeAdded, Send,
                      FanOutTypeOK
  <1>5. CASE FoundItems' = FoundItems
    <2>1. CASE fault' = fault
      BY <1>2, <1>3, <1>5, <2>1, Invisible
    <2>2. CASE fault' # fault
      <3>1. fault' = TRUE
        BY <1>4, <2>2
      <3>2. Promise!Break
        BY <1>2, <1>3, <1>5, <3>1 DEF Promise!Break, Order, FoundItems, Answer, ShownNames
      <3> QED
        BY <3>2 DEF Promise!Next
    <2> QED
      BY <2>1, <2>2
  <1>6. CASE FoundItems' # FoundItems
    <2>1. n \notin FoundItems /\ FoundItems' = FoundItems \cup {n}
      BY <1>1, <1>6 DEF FoundItems
    <2>2. fault' = fault
      <3>1. CASE ReadFails(n)
        <4>1. err'[n] # "nil"
          BY <3>1 DEF ReadFails, Fail, CallErrors, FanOutTypeOK, CtxErrors
        <4> QED
          BY <2>1, <4>1 DEF FoundItems
      <3> QED
        BY <3>1 DEF WorkerNext, SetsOut, GivesUp, ReadReturns, TypeAdded, Send
    <2>3. n \in Promise!ToSet(Order)
      <3>1. n \in NameSet
        BY <1>1 DEF Workers, WorkerOK
      <3> QED
        BY <1>2, <3>1, SameOperators DEF Order, NameSet, ToSet, FanOutTypeOK
    <2>4. Promise!Find(n)
      BY <1>2, <1>3, <2>1, <2>2, <2>3 DEF Promise!Find, Order, FoundItems, Answer, ShownNames
    <2> QED
      BY <2>4 DEF Promise!Next
  <1> QED
    BY <1>5, <1>6

-----------------------------------------------------------------------------
(* What the commands need to keep the promise.                             *)

LEMMA PromiseStep ==
  ASSUME FanInv, [FanNext]_fanVars
  PROVE  [Promise!Next]_Promise!gatherVars
  <1>1. CASE CallRefused \/ CallAnswered \/ Launch \/ Deadline
    BY <1>1, CallRefusedMapped, CallAnsweredMapped, LaunchMapped, DeadlineMapped
       DEF Promise!Next
  <1>2. CASE Collect
    BY <1>2, CollectDoneMapped, ReturnResourcesMapped, MappedToNothing
       DEF Collect, Promise!Next
  <1>3. ASSUME NEW n \in Item, WorkerNext(n)
        PROVE  [Promise!Next]_Promise!gatherVars
    BY <1>3, WorkerMapped
  <1>4. CASE UNCHANGED fanVars
    BY <1>4, MappedToNothing
  <1> QED
    BY <1>1, <1>2, <1>3, <1>4 DEF FanNext
=============================================================================
