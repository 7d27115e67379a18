---------------------------- MODULE FanOutProofs ----------------------------
(***************************************************************************)
(* Proofs about FanOut, for any set of names and any rows, whatever the    *)
(* calls of a command read: FanNext says what is left of a command's steps *)
(* when only the variables of FanOut are looked at.  The argument: the     *)
(* channel and the counter together account for every goroutine that has   *)
(* answered; an answer is never altered once given; so that when as many   *)
(* answers are collected as there are names, every row is in the map or an *)
(* error is remembered.                                                    *)
(***************************************************************************)
EXTENDS FanOut, FiniteSetTheorems, SequenceTheorems, TLAPS

-----------------------------------------------------------------------------
(* The steps of a command, as far as FanOut is concerned.                  *)

\* The error of a call that fails: one of the server, or the context's.
CallErrors == {"api"} \cup (CtxErrors \cap {ctx})

\* A call of the main goroutine fails (before there is a context to cancel, the
\* command is over), returns and is followed by another, or returns and the
\* goroutines are started.
CallRefused ==
  /\ pc \in Listing /\ pc' \in {"returned", "exited"}
  /\ \E e \in CallErrors : outcome' = e /\ NoteFault(e)
  /\ UNCHANGED <<ctx, names, collectVars, workVars>>

CallAnswered ==
  /\ pc \in Listing /\ pc' \in Listing
  /\ names' \in SetToAllKPermutations(Item)
  /\ UNCHANGED <<ctx, collectVars, outcome, workVars, fault>>

Launch ==
  /\ pc \in Listing
  /\ names' \in SetToAllKPermutations(Item)
  /\ StartAll
  /\ UNCHANGED <<ctx, collectVars, row, err, fault>>

mainVars == <<ctx, pc, names, collectVars, outcome>>

\* A call of a goroutine fails, or returns what it puts into the row.
ReadFails(n) ==
  /\ at[n] \in Reading
  /\ \E e \in CallErrors : Fail(n, e) /\ NoteFault(e)
  /\ UNCHANGED <<mainVars, row>>

ReadReturns(n) ==
  /\ at[n] \in Reading
  /\ \E r \in Row, next \in Reading \cup {"types"} :
       /\ r.name = n /\ r.types = row[n].types
       /\ row' = [row EXCEPT ![n] = r]
       /\ at' = [at EXCEPT ![n] = next]
  /\ UNCHANGED <<mainVars, err, fault>>

\* The columns of one type: what AddType does, for any row it may be given.
TypeAdded(n) ==
  /\ at[n] = "types" /\ ctx = "live"
  /\ \E r \in Row :
       /\ r.name = n /\ r.types = row[n].types + 1
       /\ row' = [row EXCEPT ![n] = r]
       /\ at' = [at EXCEPT ![n] = IF MoreTypes(r.types) THEN "types" ELSE "send"]
  /\ UNCHANGED <<mainVars, err, fault>>

GivesUp(n) ==
  /\ at[n] \in {"start", "types"} /\ ctx # "live"
  /\ Fail(n, ctx)
  /\ UNCHANGED <<mainVars, row, fault>>

SetsOut(n) ==
  /\ at[n] = "start"
  /\ \E next \in Reading : at' = [at EXCEPT ![n] = next]
  /\ UNCHANGED <<mainVars, row, err, fault>>

WorkerNext(n) == SetsOut(n) \/ GivesUp(n) \/ ReadFails(n) \/ ReadReturns(n)
                   \/ TypeAdded(n) \/ Send(n)

FanNext == \/ CallRefused \/ CallAnswered \/ Launch \/ Collect
           \/ \E n \in Item : WorkerNext(n)
           \/ Deadline

-----------------------------------------------------------------------------
(* The inductive invariant.                                                *)

\* Nothing is started before the calls of the main goroutine have returned.
NotYet ==
  pc \in Listing =>
    /\ resultChan = <<>> /\ i = 0 /\ firstError = "nil"
    /\ DOMAIN resultMap = {} /\ scanned = 0 /\ resources = <<>>
    /\ \A n \in Item : at[n] = "idle"

Phases ==
  /\ outcome = "none" <=> pc \in Listing \cup {"collect"}
  /\ ctx = "canceled" => pc = "exited"

\* The list names some of the items, each once.
Enumerated == names \in SetToAllKPermutations(Item)

\* Each goroutine builds the row of its name, and fails at most once.
WorkerOK(n) ==
  /\ row[n].name = n
  /\ at[n] # "idle" => n \in NameSet
  /\ at[n] \in {"idle", "start"} \cup Reading => row[n].types = 0
  /\ at[n] = "types" => row[n].types < NumTypes
  /\ at[n] \notin {"send", "done"} => err[n] = "nil"
  /\ at[n] \in {"send", "done"} /\ err[n] = "nil" => row[n].types = NumTypes

Workers == \A n \in Item : WorkerOK(n)

WorkersStarted ==
  pc = "collect" \/ outcome = "rows" => \A n \in NameSet : at[n] # "idle"

\* What is in the channel, or was collected, is what the goroutine answered.
AnswerOf(n) == [key |-> KeyOf(n), resource |-> row[n], err |-> err[n]]

Faithful ==
  /\ \A k \in 1..Len(resultChan) :
       \E n \in Item : at[n] = "done" /\ resultChan[k] = AnswerOf(n)
  /\ \A n \in Item : KeyOf(n) \in DOMAIN resultMap =>
       at[n] = "done" /\ err[n] = "nil" /\ resultMap[KeyOf(n)] = row[n]

\* A goroutine that has answered is waiting in the channel, is in the map, or
\* failed and an error is remembered.
Accounted ==
  firstError = "nil" =>
    \A n \in Item :
      at[n] = "done" =>
        \/ KeyOf(n) \in DOMAIN resultMap
        \/ \E k \in 1..Len(resultChan) : resultChan[k].key = KeyOf(n)

\* The rows rebuilt so far are those of the first names.
Rebuilt ==
  /\ scanned > 0 => i = Len(names)
  /\ \A k \in 1..Len(resources) :
       \E n \in NameSet :
         KeyOf(n) \in DOMAIN resultMap /\ resources[k] = resultMap[KeyOf(n)]
  /\ firstError = "nil" =>
       /\ Len(resources) = scanned
       /\ \A k \in 1..scanned : resources[k].name = names[k]

Finished ==
  outcome = "rows" => firstError = "nil" /\ i = Len(names) /\ scanned = i

\* Every error at hand is one that happened.
Genuine(e) ==
  /\ e = "api" => fault
  /\ e = "deadline" => ctx = "deadline"
  /\ e = "canceled" => ctx = "canceled"

ErrorsGenuine ==
  /\ \A n \in Item : Genuine(err[n])
  /\ Genuine(firstError) /\ Genuine(outcome)
  /\ firstError # "canceled" /\ outcome # "canceled"
  /\ firstError # "nil" => i > 0

FanInv ==
  /\ FanOutTypeOK
  /\ NotYet
  /\ Phases
  /\ Enumerated
  /\ Workers
  /\ WorkersStarted
  /\ Faithful
  /\ Accounted
  /\ AnswersAccounted
  /\ Rebuilt
  /\ Finished
  /\ ErrorsGenuine

-----------------------------------------------------------------------------
(* Facts about the data.                                                   *)

LEMMA LengthsNat ==
  ASSUME FanOutTypeOK
  PROVE  /\ Len(names) \in Nat /\ Len(resultChan) \in Nat /\ Len(resources) \in Nat
         /\ i \in Nat /\ scanned \in Nat
  BY LenProperties DEF FanOutTypeOK

LEMMA KeysDiffer ==
  ASSUME NEW m \in Item, NEW n \in Item, KeyOf(m) = KeyOf(n)
  PROVE  m = n
  BY FanOutAssumption DEF KeyOf

\* An arrangement of a set of items has each of them once.
LEMMA PermutationOf ==
  ASSUME NEW S \in SUBSET Item, NEW s \in SetToSeqs(S)
  PROVE  /\ s \in Seq(Item)
         /\ \A k \in 1..Len(s) : s[k] \in S
         /\ \A j, k \in 1..Len(s) : s[j] = s[k] => j = k
  <1>1. Cardinality(S) \in Nat
    BY FanOutAssumption, FS_Subset, FS_CardinalityType
  <1>2. /\ s \in [1..Cardinality(S) -> S]
        /\ \A j, k \in 1..Cardinality(S) : j # k => s[j] # s[k]
    BY DEF SetToSeqs
  <1>3. s \in Seq(S) /\ Len(s) = Cardinality(S)
    BY <1>1, <1>2
  <1>4. s \in Seq(Item)
    BY <1>3, SeqMonotonic
  <1> QED
    BY <1>2, <1>3, <1>4

LEMMA Enumeration ==
  ASSUME NEW s \in SetToAllKPermutations(Item)
  PROVE  /\ s \in Seq(Item)
         /\ \A j, k \in 1..Len(s) : s[j] = s[k] => j = k
  BY PermutationOf DEF SetToAllKPermutations

\* As many rows are to be shown as there are names.
LEMMA NamesCounted ==
  ASSUME FanOutTypeOK, Enumerated
  PROVE  /\ IsFiniteSet(NameSet)
         /\ Cardinality(NameSet) = Len(names)
         /\ NameSet \subseteq Item
  <1> DEFINE f == [k \in 1..Len(names) |-> names[k]]
  <1>1. Len(names) \in Nat /\ \A k \in 1..Len(names) : names[k] \in Item
    BY LengthsNat, ElementOfSeq DEF FanOutTypeOK
  <1>2. f \in Bijection(1..Len(names), NameSet)
    BY Enumeration DEF Bijection, Injection, Surjection, IsInjective, NameSet, Enumerated
  <1>3. ExistsBijection(1..Len(names), NameSet)
    BY <1>2 DEF ExistsBijection
  <1>4. IsFiniteSet(1..Len(names)) /\ Cardinality(1..Len(names)) = Len(names)
    BY <1>1, FS_Interval, SMT
  <1> HIDE DEF f
  <1>5. IsFiniteSet(NameSet) /\ Cardinality(NameSet) = Len(names)
    BY <1>3, <1>4, FS_Bijection, Zenon
  <1> QED
    BY <1>1, <1>5 DEF NameSet

DoneSet == {n \in Item : at[n] = "done"}

LEMMA DoneCounted ==
  ASSUME FanOutTypeOK, Enumerated, Workers
  PROVE  /\ DoneSet \subseteq NameSet
         /\ IsFiniteSet(DoneSet)
         /\ Cardinality(DoneSet) <= Len(names)
         /\ Cardinality(DoneSet) = Len(names) => DoneSet = NameSet
  <1>1. DoneSet \subseteq NameSet
    BY DEF DoneSet, Workers, WorkerOK
  <1> QED
    BY <1>1, NamesCounted, FS_Subset

\* When every answer is collected and no error is remembered, the map has the
\* row of every name.
LEMMA AllCollected ==
  ASSUME FanInv, i = Len(names)
  PROVE  /\ resultChan = <<>>
         /\ NameSet = DoneSet
         /\ firstError = "nil" => \A n \in NameSet : KeyOf(n) \in DOMAIN resultMap
  <1> USE DEF FanInv
  <1>1. Len(resultChan) + i = Cardinality(DoneSet)
    BY DEF AnswersAccounted, DoneSet
  <1>2. Cardinality(DoneSet) \in Nat
    BY DoneCounted, FS_CardinalityType
  <1>3. Len(resultChan) = 0 /\ NameSet = DoneSet
    BY <1>1, <1>2, DoneCounted, LengthsNat
  <1>4. resultChan = <<>>
    BY <1>3, EmptySeq DEF FanOutTypeOK
  <1>5. ASSUME firstError = "nil", NEW n \in NameSet PROVE KeyOf(n) \in DOMAIN resultMap
    <2>1. \A k : k \notin 1..Len(resultChan)
      BY <1>3
    <2>2. n \in Item /\ at[n] = "done"
      BY <1>3 DEF DoneSet
    <2> QED
      BY <2>1, <2>2, <1>5 DEF Accounted
  <1> QED
    BY <1>3, <1>4, <1>5

LEMMA ErrorsOfCalls ==
  ASSUME FanOutTypeOK, NEW r \in Failures
  PROVE  r.err \in CallErrors /\ r.err # "nil"
  <1>1. ctx \in {"live"} \cup CtxErrors
    BY DEF FanOutTypeOK
  <1>2. \/ ctx = "live" /\ r.err = "api"
        \/ ctx # "live" /\ r.err = ctx
    BY DEF Failures
  <1> QED
    BY <1>1, <1>2 DEF CallErrors, CtxErrors

LEMMA NoFault ==
  ASSUME FanOutTypeOK, NoteFault("nil")
  PROVE  fault' = fault
  BY DEF FanOutTypeOK, NoteFault

LEMMA FaultNoted ==
  ASSUME NEW e, NoteFault(e)
  PROVE  fault' \in BOOLEAN /\ (fault => fault') /\ (e = "api" => fault')
  BY DEF NoteFault

LEMMA CallErrorsGenuine ==
  ASSUME FanInv, NEW e \in CallErrors, NoteFault(e), ctx' = ctx
  PROVE  /\ e \in Errors /\ Genuine(e)'
         /\ pc # "exited" => e # "canceled"
  BY FaultNoted DEF CallErrors, FanInv, FanOutTypeOK, Phases, Errors, CtxErrors, Genuine

-----------------------------------------------------------------------------
(* The steps of a goroutine.                                               *)

\* What every step of a goroutine that does not send leaves true, when its own
\* row and error are in order after it.
LEMMA OwnStep ==
  ASSUME FanInv, FanOutTypeOK', NEW n \in Item,
         UNCHANGED mainVars,
         at[n] \notin {"idle", "done"}, at'[n] \notin {"idle", "done"},
         \A m \in Item \ {n} :
           at'[m] = at[m] /\ row'[m] = row[m] /\ err'[m] = err[m],
         fault => fault',
         WorkerOK(n)', Genuine(err[n])'
  PROVE  FanInv'
  <1> USE DEF FanInv, mainVars, collectVars
  <1>1. NotYet' /\ Phases' /\ Enumerated' /\ Finished'
    BY DEF NotYet, Phases, Enumerated, Finished
  <1>2. WorkersStarted'
    BY NamesCounted DEF WorkersStarted, NameSet
  <1>3. Workers'
    BY DEF Workers, WorkerOK, NameSet
  <1>4. \A m \in Item : at[m] = "done" => m # n
    OBVIOUS
  <1>6. Faithful'
    <2>1. ASSUME NEW k \in 1..Len(resultChan)
          PROVE  \E m \in Item : at'[m] = "done" /\ resultChan'[k] = AnswerOf(m)'
      <3>1. PICK m \in Item : at[m] = "done" /\ resultChan[k] = AnswerOf(m)
        BY DEF Faithful
      <3>2. at'[m] = "done" /\ row'[m] = row[m] /\ err'[m] = err[m] /\ resultChan' = resultChan
        BY <1>4, <3>1
      <3>3. AnswerOf(m)' = AnswerOf(m)
        BY <3>2 DEF AnswerOf
      <3> QED
        BY <3>1, <3>2, <3>3
    <2>2. ASSUME NEW m \in Item, KeyOf(m) \in DOMAIN resultMap
          PROVE  (at[m] = "done" /\ err[m] = "nil" /\ resultMap[KeyOf(m)] = row[m])'
      BY <1>4, <2>2 DEF Faithful
    <2> QED
      BY <2>1, <2>2 DEF Faithful
  <1>7. Accounted'
    BY DEF Accounted
  <1>8. AnswersAccounted'
    <2>1. DoneSet' = DoneSet
      BY DEF DoneSet
    <2> QED
      BY <2>1 DEF AnswersAccounted, DoneSet
  <1>9. Rebuilt'
    BY DEF Rebuilt, NameSet
  <1>10. ErrorsGenuine'
    BY DEF ErrorsGenuine, Genuine
  <1> QED
    BY <1>1, <1>2, <1>3, <1>6, <1>7, <1>8, <1>9, <1>10

Places == {"idle", "start", "types", "send", "done"} \cup Reading

LEMMA WorkerTypes ==
  ASSUME FanOutTypeOK, UNCHANGED mainVars,
         at' \in [Item -> Places], row' \in [Item -> Row],
         err' \in [Item -> Errors \cup {"nil"}], fault' \in BOOLEAN
  PROVE  FanOutTypeOK'
  BY DEF FanOutTypeOK, Places, mainVars, collectVars, NameSet

\* A goroutine that fails, with the context's error or that of a call.
LEMMA FailStep ==
  ASSUME FanInv, NEW n \in Item, NEW e \in Errors, at[n] \notin {"idle", "done"},
         Fail(n, e), UNCHANGED <<mainVars, row>>, fault' \in BOOLEAN, fault => fault',
         Genuine(e)'
  PROVE  FanInv'
  <1> USE DEF FanInv
  <1>1. FanOutTypeOK'
    BY WorkerTypes DEF FanOutTypeOK, Fail, Places
  <1>2. /\ at'[n] = "send" /\ err'[n] = e
        /\ \A m \in Item \ {n} : at'[m] = at[m] /\ row'[m] = row[m] /\ err'[m] = err[m]
    BY DEF FanOutTypeOK, Fail
  <1>3. WorkerOK(n)' /\ Genuine(err[n])'
    BY <1>2 DEF Workers, WorkerOK, Genuine, mainVars, NameSet, Errors, CtxErrors, Reading
  <1> QED
    BY <1>1, <1>2, <1>3, OwnStep

\* A goroutine that goes on with row r.
LEMMA GoesOn ==
  ASSUME FanInv, NEW n \in Item, NEW r \in Row, NEW place \in Reading \cup {"types", "send"},
         at[n] \in {"start", "types"} \cup Reading,
         row' = [row EXCEPT ![n] = r], at' = [at EXCEPT ![n] = place],
         UNCHANGED <<mainVars, err, fault>>,
         r.name = n,
         place \in Reading => r.types = 0,
         place = "types" => r.types < NumTypes,
         place = "send" => r.types = NumTypes
  PROVE  FanInv'
  <1> USE DEF FanInv
  <1>1. FanOutTypeOK'
    BY WorkerTypes DEF FanOutTypeOK, Places
  <1>2. /\ at'[n] = place /\ row'[n] = r
        /\ \A m \in Item \ {n} : at'[m] = at[m] /\ row'[m] = row[m] /\ err'[m] = err[m]
    BY DEF FanOutTypeOK
  <1>3. place \notin {"idle", "done", "start"} /\ at[n] \notin {"idle", "send", "done"}
    BY DEF Reading
  <1>4. WorkerOK(n)' /\ Genuine(err[n])'
    BY <1>2, <1>3 DEF Workers, WorkerOK, Genuine, mainVars, NameSet, Reading
  <1> QED
    BY <1>1, <1>2, <1>3, <1>4, OwnStep

\* Sending the answer: one more in the channel, one more goroutine done.
LEMMA SendStep ==
  ASSUME FanInv, NEW n \in Item, Send(n)
  PROVE  FanInv'
  <1> USE DEF FanInv
  <1>1. /\ at[n] = "send"
        /\ resultChan' = Append(resultChan, AnswerOf(n))
        /\ at' = [at EXCEPT ![n] = "done"]
        /\ UNCHANGED <<ctx, pc, names, i, firstError, resultMap, scanned, resources,
                       outcome, row, err, fault>>
    BY DEF Send, AnswerOf
  <1>2. /\ at'[n] = "done"
        /\ \A m \in Item \ {n} : at'[m] = at[m]
        /\ \A m \in Item : at[m] = "done" => at'[m] = "done"
    BY <1>1 DEF FanOutTypeOK
  <1>3. AnswerOf(n) \in Answers
    BY DEF AnswerOf, Answers, FanOutTypeOK
  <1>4. /\ resultChan' \in Seq(Answers)
        /\ Len(resultChan') = Len(resultChan) + 1
        /\ \A k \in 1..Len(resultChan) : resultChan'[k] = resultChan[k]
        /\ resultChan'[Len(resultChan) + 1] = AnswerOf(n)
    BY <1>1, <1>3, AppendProperties DEF FanOutTypeOK
  <1>5. FanOutTypeOK'
    BY <1>1, <1>4 DEF FanOutTypeOK, NameSet
  <1>6. NotYet' /\ Phases' /\ Enumerated' /\ Finished'
    BY <1>1 DEF NotYet, Phases, Enumerated, Finished
  <1>7. Workers'
    BY <1>1, <1>2 DEF Workers, WorkerOK, NameSet, Reading
  <1>8. WorkersStarted'
    <2>1. NameSet' = NameSet /\ NameSet \subseteq Item /\ UNCHANGED <<pc, outcome>>
      BY <1>1, NamesCounted DEF NameSet
    <2>2. \A m \in Item : at[m] # "idle" => at'[m] # "idle"
      BY <1>2
    <2> QED
      BY <2>1, <2>2 DEF WorkersStarted
  <1>9. Faithful'
    <2>0. \A m \in Item : AnswerOf(m)' = AnswerOf(m)
      BY <1>1 DEF AnswerOf
    <2>1. ASSUME NEW k \in 1..Len(resultChan')
          PROVE  \E m \in Item : at'[m] = "done" /\ resultChan'[k] = AnswerOf(m)'
      <3>1. CASE k \in 1..Len(resultChan)
        <4>1. PICK m \in Item : at[m] = "done" /\ resultChan[k] = AnswerOf(m)
          BY <3>1 DEF Faithful
        <4> QED
          BY <1>2, <1>4, <2>0, <3>1, <4>1
      <3>2. CASE k = Len(resultChan) + 1
        BY <1>2, <1>4, <2>0, <3>2
      <3> QED
        BY <1>4, <3>1, <3>2, LengthsNat
    <2>2. ASSUME NEW m \in Item, KeyOf(m) \in DOMAIN resultMap
          PROVE  at'[m] = "done" /\ err'[m] = "nil" /\ resultMap[KeyOf(m)] = row'[m]
      BY <1>1, <1>2, <2>2 DEF Faithful
    <2> QED
      BY <1>1, <2>1, <2>2 DEF Faithful
  <1>10. Accounted'
    <2>1. \A m \in Item \ {n} : at'[m] = "done" => at[m] = "done"
      BY <1>2
    <2>2. \E k \in 1..Len(resultChan') : resultChan'[k].key = KeyOf(n)
      BY <1>4, LengthsNat DEF AnswerOf
    <2>3. \A k \in 1..Len(resultChan) : k \in 1..Len(resultChan')
      BY <1>4, LengthsNat
    <2> QED
      BY <1>1, <1>4, <2>1, <2>2, <2>3 DEF Accounted
  <1>11. AnswersAccounted'
    <2>1. DoneSet' = DoneSet \cup {n} /\ n \notin DoneSet
      BY <1>1, <1>2 DEF DoneSet
    <2>2. Cardinality(DoneSet') = Cardinality(DoneSet) + 1
      BY <2>1, DoneCounted, FS_AddElement
    <2> QED
      BY <1>1, <1>4, <2>2, LengthsNat DEF AnswersAccounted, DoneSet
  <1>12. Rebuilt' /\ ErrorsGenuine'
    BY <1>1 DEF Rebuilt, NameSet, ErrorsGenuine, Genuine
  <1> QED
    BY <1>5, <1>6, <1>7, <1>8, <1>9, <1>10, <1>11, <1>12

LEMMA WorkerStep ==
  ASSUME FanInv, NEW n \in Item, WorkerNext(n)
  PROVE  FanInv'
  <1> USE DEF FanInv
  <1>1. CASE SetsOut(n)
    <2>1. PICK next \in Reading : at' = [at EXCEPT ![n] = next]
      BY <1>1 DEF SetsOut
    <2>2. /\ at[n] = "start" /\ UNCHANGED <<mainVars, err, fault>>
          /\ row' = [row EXCEPT ![n] = row[n]]
      BY <1>1 DEF SetsOut, FanOutTypeOK
    <2>3. row[n] \in Row /\ row[n].name = n /\ row[n].types = 0 /\ next # "types" /\ next # "send"
      BY <2>2 DEF FanOutTypeOK, Workers, WorkerOK, Reading
    <2> QED
      BY <2>1, <2>2, <2>3, GoesOn
  <1>2. CASE GivesUp(n)
    <2>1. PICK e \in Errors : e = ctx
      BY <1>2 DEF GivesUp, FanOutTypeOK, Errors
    <2>2. Fail(n, e) /\ UNCHANGED <<mainVars, row, fault>> /\ at[n] \in {"start", "types"}
      BY <1>2, <2>1 DEF GivesUp
    <2>3. Genuine(e)' /\ fault' \in BOOLEAN /\ (fault => fault')
      BY <1>2, <2>1, <2>2 DEF GivesUp, FanOutTypeOK, CtxErrors, Genuine, mainVars
    <2> QED
      BY <2>1, <2>2, <2>3, FailStep
  <1>3. CASE ReadFails(n)
    <2>1. PICK e \in CallErrors : Fail(n, e) /\ NoteFault(e)
      BY <1>3 DEF ReadFails
    <2>2. at[n] \notin {"idle", "done"} /\ UNCHANGED <<mainVars, row>> /\ ctx' = ctx
      BY <1>3 DEF ReadFails, Reading, mainVars
    <2>3. e \in Errors /\ Genuine(e)'
      BY <2>1, <2>2, CallErrorsGenuine
    <2>4. fault' \in BOOLEAN /\ (fault => fault')
      BY <2>1, FaultNoted
    <2> QED
      BY <2>1, <2>2, <2>3, <2>4, FailStep
  <1>4. CASE ReadReturns(n)
    <2>1. PICK r \in Row, next \in Reading \cup {"types"} :
            /\ r.name = n /\ r.types = row[n].types
            /\ row' = [row EXCEPT ![n] = r]
            /\ at' = [at EXCEPT ![n] = next]
      BY <1>4 DEF ReadReturns
    <2>2. at[n] \in Reading /\ UNCHANGED <<mainVars, err, fault>>
      BY <1>4 DEF ReadReturns
    <2>3. r.types = 0 /\ 0 < NumTypes /\ next # "send"
      BY <2>1, <2>2, FanOutAssumption DEF Workers, WorkerOK, Reading
    <2> QED
      BY <2>1, <2>2, <2>3, GoesOn
  <1>5. CASE TypeAdded(n)
    <2>1. PICK r \in Row :
            /\ r.name = n /\ r.types = row[n].types + 1
            /\ row' = [row EXCEPT ![n] = r]
            /\ at' = [at EXCEPT ![n] = IF r.types < NumTypes THEN "types" ELSE "send"]
      BY <1>5 DEF TypeAdded, MoreTypes
    <2>2. at[n] = "types" /\ UNCHANGED <<mainVars, err, fault>>
      BY <1>5 DEF TypeAdded
    <2>3. r.types \in 0..NumTypes /\ NumTypes \in Nat
      BY FanOutAssumption
    <2> DEFINE next == IF r.types < NumTypes THEN "types" ELSE "send"
    <2>4. /\ next \in {"types", "send"} /\ (next = "types" => r.types < NumTypes)
          /\ (next = "send" => r.types = NumTypes) /\ next \notin Reading
      BY <2>3 DEF Reading
    <2> HIDE DEF next
    <2>5. at' = [at EXCEPT ![n] = next]
      BY <2>1 DEF next
    <2> QED
      BY <2>1, <2>2, <2>4, <2>5, GoesOn
  <1> QED
    BY <1>1, <1>2, <1>3, <1>4, <1>5, SendStep DEF WorkerNext

-----------------------------------------------------------------------------
(* The steps of the main goroutine.                                        *)

\* Giving up with an error, before or while the goroutines work.
LEMMA ReturnsError ==
  ASSUME FanInv, NEW e \in Errors, e # "canceled",
         pc' \in {"returned", "exited"}, outcome' = e,
         pc \in Listing \cup {"collect"},
         UNCHANGED <<ctx, names, collectVars, workVars>>,
         fault' \in BOOLEAN, fault => fault', Genuine(e)'
  PROVE  FanInv'
  <1> USE DEF FanInv, collectVars, workVars
  <1>1. FanOutTypeOK'
    BY DEF FanOutTypeOK, NameSet
  <1>2. /\ e # "none" /\ e # "rows" /\ e # "nil"
        /\ pc' \notin Listing \cup {"collect"} /\ pc # "exited"
    BY DEF Errors, CtxErrors, Listing
  <1>3. NotYet' /\ Enumerated' /\ Finished' /\ Rebuilt'
    BY <1>2 DEF NotYet, Enumerated, Finished, Rebuilt, NameSet
  <1>7. Phases'
    BY <1>2 DEF Phases
  <1>4. Workers' /\ WorkersStarted'
    BY <1>2 DEF Workers, WorkerOK, WorkersStarted, NameSet
  <1>5. Faithful' /\ Accounted' /\ AnswersAccounted'
    BY DEF Faithful, AnswerOf, Accounted, AnswersAccounted
  <1>6. ErrorsGenuine'
    BY DEF ErrorsGenuine, Genuine
  <1> QED
    BY <1>1, <1>3, <1>4, <1>5, <1>6, <1>7

LEMMA CallRefusedStep ==
  ASSUME FanInv, CallRefused
  PROVE  FanInv'
  <1>1. PICK e \in CallErrors : outcome' = e /\ NoteFault(e)
    BY DEF CallRefused
  <1>2. /\ pc \in Listing /\ pc' \in {"returned", "exited"} /\ pc # "exited" /\ ctx' = ctx
        /\ UNCHANGED <<ctx, names, collectVars, workVars>>
    BY DEF CallRefused, Listing
  <1>3. e \in Errors /\ e # "canceled" /\ Genuine(e)'
    BY <1>1, <1>2, CallErrorsGenuine
  <1>4. fault' \in BOOLEAN /\ (fault => fault')
    BY <1>1, FaultNoted
  <1> QED
    BY <1>1, <1>2, <1>3, <1>4, ReturnsError

LEMMA CallAnsweredStep ==
  ASSUME FanInv, CallAnswered
  PROVE  FanInv'
  <1> USE DEF FanInv, CallAnswered, collectVars, workVars
  <1>1. names' \in Seq(Item)
    BY Enumeration
  <1>2. /\ resultChan = <<>> /\ i = 0 /\ firstError = "nil" /\ outcome = "none"
        /\ DOMAIN resultMap = {} /\ scanned = 0 /\ resources = <<>>
        /\ \A n \in Item : at[n] = "idle"
    BY DEF NotYet, Phases
  <1>3. Len(names') \in Nat /\ "collect" \notin Listing /\ "exited" \notin Listing
    BY <1>1, LenProperties DEF Listing
  <1>4. FanOutTypeOK'
    BY <1>1, <1>2, <1>3 DEF FanOutTypeOK, NameSet
  <1>5. NotYet' /\ Phases' /\ Enumerated' /\ Finished' /\ WorkersStarted' /\ Rebuilt'
    BY <1>2, <1>3 DEF NotYet, Phases, Enumerated, Finished, WorkersStarted, Rebuilt, NameSet
  <1>6. Workers' /\ Faithful' /\ Accounted' /\ AnswersAccounted' /\ ErrorsGenuine'
    BY <1>2 DEF Workers, WorkerOK, Faithful, AnswerOf, Accounted, AnswersAccounted,
                ErrorsGenuine, Genuine
  <1> QED
    BY <1>4, <1>5, <1>6

LEMMA LaunchStep ==
  ASSUME FanInv, Launch
  PROVE  FanInv'
  <1> USE DEF FanInv, Launch, StartAll, collectVars
  <1>1. names' \in Seq(Item)
    BY Enumeration
  <1>2. /\ resultChan = <<>> /\ i = 0 /\ firstError = "nil" /\ outcome = "none"
        /\ DOMAIN resultMap = {} /\ scanned = 0 /\ resources = <<>>
        /\ \A n \in Item : at[n] = "idle"
    BY DEF NotYet, Phases
  <1>3. \A n \in Item : at'[n] = IF n \in NameSet' THEN "start" ELSE "idle"
    OBVIOUS
  <1>4. Len(names') \in Nat /\ "collect" \notin Listing
    BY <1>1, LenProperties DEF Listing
  <1>5. NameSet' \subseteq Item
    BY <1>1, <1>4, ElementOfSeq DEF NameSet
  <1>6. FanOutTypeOK'
    BY <1>1, <1>2, <1>4 DEF FanOutTypeOK
  <1>7. NotYet' /\ Phases' /\ Enumerated' /\ Finished' /\ Rebuilt'
    BY <1>2, <1>4 DEF NotYet, Phases, Enumerated, Finished, Rebuilt, NameSet, Listing
  <1>8. Workers' /\ WorkersStarted'
    BY <1>2, <1>3, <1>5 DEF Workers, WorkerOK, WorkersStarted, Reading
  <1>9. Faithful' /\ Accounted' /\ ErrorsGenuine'
    BY <1>2, <1>3 DEF Faithful, AnswerOf, Accounted, ErrorsGenuine, Genuine
  <1>10. AnswersAccounted'
    <2>1. DoneSet = {} /\ DoneSet' = {}
      BY <1>2, <1>3 DEF DoneSet
    <2> QED
      BY <2>1 DEF AnswersAccounted, DoneSet
  <1> QED
    BY <1>6, <1>7, <1>8, <1>9, <1>10

LEMMA CollectDoneStep ==
  ASSUME FanInv, CollectDone
  PROVE  FanInv'
  <1>1. /\ pc = "collect" /\ ctx # "live" /\ Return(ctx)
        /\ UNCHANGED <<ctx, names, collectVars, workVars, fault>>
    BY DEF CollectDone
  <1>2. PICK e \in Errors : e = ctx
    BY <1>1 DEF FanInv, FanOutTypeOK, Errors
  <1>3. e # "canceled" /\ Genuine(e)' /\ fault' \in BOOLEAN /\ (fault => fault')
    BY <1>1, <1>2 DEF FanInv, FanOutTypeOK, CtxErrors, Phases, Genuine
  <1> QED
    BY <1>1, <1>2, <1>3, ReturnsError DEF Return

\* Collecting an answer: one less in the channel, one more counted, and the row
\* is stored or the error noted.
LEMMA CollectResultStep ==
  ASSUME FanInv, CollectResult
  PROVE  FanInv'
  <1> USE DEF FanInv
  <1> DEFINE result == Head(resultChan)
  <1>1. /\ pc = "collect" /\ i < Len(names) /\ resultChan # <<>>
        /\ i' = i + 1
        /\ resultChan' = Tail(resultChan)
        /\ UNCHANGED <<ctx, pc, names, scanned, resources, outcome, workVars, fault>>
        /\ \/ /\ result.err # "nil"
              /\ firstError' = IF firstError = "nil" THEN result.err ELSE firstError
              /\ UNCHANGED resultMap
           \/ /\ result.err = "nil"
              /\ resultMap' = Store(resultMap, result.key, result.resource)
              /\ UNCHANGED firstError
    BY DEF CollectResult, MoreAnswers, Counted, NoteError
  <1>2. /\ Len(resultChan) \in Nat \ {0} /\ 1 \in 1..Len(resultChan)
        /\ resultChan' \in Seq(Answers)
        /\ Len(resultChan') = Len(resultChan) - 1
        /\ \A k \in 1..Len(resultChan') : resultChan'[k] = resultChan[k + 1]
        /\ result = resultChan[1]
    <2>1. Len(resultChan) \in Nat \ {0}
      BY <1>1, EmptySeq DEF FanOutTypeOK
    <2>2. 1 \in 1..Len(resultChan) /\ result = resultChan[1]
      BY <2>1
    <2> QED
      BY <1>1, <2>1, <2>2, HeadTailProperties DEF FanOutTypeOK
  <1>3. PICK n \in Item : at[n] = "done" /\ result = AnswerOf(n)
    BY <1>2 DEF Faithful
  <1>4. result.key = KeyOf(n) /\ result.resource = row[n] /\ result.err = err[n]
    BY <1>3 DEF AnswerOf
  <1>5. n \in NameSet
    BY <1>3 DEF Workers, WorkerOK
  <1>6. scanned = 0 /\ resources = <<>> /\ Len(resources) = 0 /\ outcome = "none"
    <2>1. scanned = 0
      BY <1>1, LengthsNat DEF Rebuilt
    <2> QED
      BY <1>1, <2>1, LengthsNat, EmptySeq DEF FanOutTypeOK, Phases
  <1>7. /\ DOMAIN resultMap' \subseteq DOMAIN resultMap \cup {KeyOf(n)}
        /\ DOMAIN resultMap \subseteq DOMAIN resultMap'
        /\ err[n] = "nil" => KeyOf(n) \in DOMAIN resultMap'
        /\ \A k \in DOMAIN resultMap' : resultMap'[k] \in Row
        /\ \A m \in Item : KeyOf(m) \in DOMAIN resultMap' =>
             resultMap'[KeyOf(m)] = row[m] /\ at[m] = "done" /\ err[m] = "nil"
    <2>1. CASE err[n] # "nil"
      BY <1>1, <1>4, <2>1 DEF Faithful, FanOutTypeOK
    <2>2. CASE err[n] = "nil"
      <3>1. resultMap' = [x \in DOMAIN resultMap \cup {KeyOf(n)} |->
                            IF x = KeyOf(n) THEN row[n] ELSE resultMap[x]]
        BY <1>1, <1>4, <2>2 DEF Store
      <3>2. \A k \in DOMAIN resultMap' : resultMap'[k] \in Row
        BY <3>1 DEF FanOutTypeOK
      <3>3. ASSUME NEW m \in Item, KeyOf(m) \in DOMAIN resultMap'
            PROVE  resultMap'[KeyOf(m)] = row[m] /\ at[m] = "done" /\ err[m] = "nil"
        BY <1>3, <2>2, <3>1, <3>3, KeysDiffer DEF Faithful
      <3> QED
        BY <3>1, <3>2, <3>3
    <2> QED
      BY <2>1, <2>2
  <1>8. /\ firstError' \in Errors \cup {"nil"}
        /\ firstError' = "nil" => firstError = "nil" /\ err[n] = "nil"
        /\ Genuine(firstError')
        /\ firstError' # "canceled"
    <2>1. ctx # "canceled"
      BY <1>1 DEF Phases
    <2>2. err[n] \in Errors \cup {"nil"} /\ Genuine(err[n]) /\ Genuine(firstError)
      BY DEF ErrorsGenuine, FanOutTypeOK
    <2>3. firstError \in Errors \cup {"nil"} /\ firstError # "canceled"
      BY DEF FanOutTypeOK, ErrorsGenuine
    <2>4. \/ err[n] # "nil" /\ firstError' = IF firstError = "nil" THEN err[n] ELSE firstError
          \/ err[n] = "nil" /\ firstError' = firstError
      BY <1>1, <1>4
    <2> QED
      BY <2>1, <2>2, <2>3, <2>4 DEF Genuine
  <1> HIDE DEF result
  <1>9. FanOutTypeOK'
    <2>1. /\ DOMAIN resultMap' \subseteq {KeyOf(m) : m \in NameSet}
          /\ \A k \in DOMAIN resultMap' : resultMap'[k] \in Row
      BY <1>5, <1>7 DEF FanOutTypeOK
    <2>2. i + 1 \in 0..Len(names)
      BY <1>1, LengthsNat
    <2> QED
      BY <1>1, <1>2, <1>8, <2>1, <2>2 DEF FanOutTypeOK, NameSet, workVars
  <1>10. NotYet' /\ Phases' /\ Enumerated' /\ Finished'
    BY <1>1, <1>6 DEF NotYet, Phases, Enumerated, Finished, Listing
  <1>11. Workers' /\ WorkersStarted'
    BY <1>1 DEF Workers, WorkerOK, WorkersStarted, NameSet, workVars
  <1>12. Faithful'
    <2>1. ASSUME NEW k \in 1..Len(resultChan')
          PROVE  \E m \in Item : at'[m] = "done" /\ resultChan'[k] = AnswerOf(m)'
      <3>1. k + 1 \in 1..Len(resultChan) /\ resultChan'[k] = resultChan[k + 1]
        BY <1>2
      <3>2. PICK m \in Item : at[m] = "done" /\ resultChan[k + 1] = AnswerOf(m)
        BY <3>1 DEF Faithful
      <3>3. AnswerOf(m)' = AnswerOf(m) /\ at' = at
        BY <1>1 DEF AnswerOf, workVars
      <3> QED
        BY <3>1, <3>2, <3>3
    <2>2. at' = at /\ row' = row /\ err' = err
      BY <1>1 DEF workVars
    <2> QED
      BY <1>7, <2>1, <2>2 DEF Faithful
  <1>13. Accounted'
    <2> SUFFICES ASSUME firstError' = "nil", NEW m \in Item, at[m] = "done"
                 PROVE  \/ KeyOf(m) \in DOMAIN resultMap'
                        \/ \E k \in 1..Len(resultChan') : resultChan'[k].key = KeyOf(m)
      BY <1>1 DEF Accounted, workVars
    <2>1. firstError = "nil" /\ KeyOf(n) \in DOMAIN resultMap'
      BY <1>7, <1>8
    <2>2. CASE KeyOf(m) \in DOMAIN resultMap
      BY <1>7, <2>2
    <2>3. CASE KeyOf(m) \notin DOMAIN resultMap
      <3>1. PICK k \in 1..Len(resultChan) : resultChan[k].key = KeyOf(m)
        BY <2>1, <2>3 DEF Accounted
      <3>2. CASE k = 1
        BY <1>2, <1>4, <2>1, <3>1, <3>2
      <3>3. CASE k # 1
        <4>1. k - 1 \in 1..Len(resultChan') /\ (k - 1) + 1 = k
          BY <1>2, <3>3
        <4>2. resultChan'[k - 1].key = KeyOf(m)
          BY <1>2, <3>1, <4>1
        <4> QED
          BY <4>1, <4>2
      <3> QED
        BY <3>2, <3>3
    <2> QED
      BY <2>2, <2>3
  <1>14. AnswersAccounted'
    <2>1. DoneSet' = DoneSet
      BY <1>1 DEF DoneSet, workVars
    <2>2. Len(resultChan') + i' = Len(resultChan) + i
      BY <1>1, <1>2, LengthsNat
    <2> QED
      BY <2>1, <2>2 DEF AnswersAccounted, DoneSet
  <1>15. Rebuilt'
    BY <1>1, <1>6 DEF Rebuilt
  <1>16. ErrorsGenuine'
    <2>1. i + 1 > 0
      BY LengthsNat
    <2>2. Genuine(firstError)'
      BY <1>1, <1>8 DEF Genuine
    <2> QED
      BY <1>1, <1>8, <2>1, <2>2 DEF ErrorsGenuine, Genuine, workVars
  <1> QED
    BY <1>9, <1>10, <1>11, <1>12, <1>13, <1>14, <1>15, <1>16

LEMMA RebuildStep ==
  ASSUME FanInv, Rebuild
  PROVE  FanInv'
  <1> USE DEF FanInv
  <1> DEFINE name == names[scanned + 1]
             key == KeyOf(name)
  <1>1. /\ pc = "collect" /\ ~(i < Len(names)) /\ scanned < Len(names)
        /\ resources' = IF key \in DOMAIN resultMap
                        THEN Append(resources, resultMap[key]) ELSE resources
        /\ scanned' = scanned + 1
        /\ UNCHANGED <<ctx, pc, names, resultChan, i, firstError, resultMap, outcome,
                       workVars, fault>>
    BY DEF Rebuild, MoreAnswers
  <1>2. i = Len(names)
    BY <1>1, LengthsNat DEF FanOutTypeOK
  <1>3. scanned + 1 \in 1..Len(names) /\ name \in NameSet
    BY <1>1, LengthsNat DEF NameSet
  <1>4. ASSUME key \in DOMAIN resultMap
        PROVE  /\ resultMap[key] \in Row /\ resultMap[key].name = name
               /\ resources' \in Seq(Row) /\ Len(resources') = Len(resources) + 1
               /\ \A k \in 1..Len(resources) : resources'[k] = resources[k]
               /\ resources'[Len(resources) + 1] = resultMap[key]
    <2>1. resultMap[key] \in Row
      BY <1>4 DEF FanOutTypeOK
    <2>2. resultMap[key].name = name
      BY <1>3, <1>4, NamesCounted DEF Faithful, Workers, WorkerOK
    <2>3. resources' = Append(resources, resultMap[key]) /\ resources \in Seq(Row)
      BY <1>1, <1>4 DEF FanOutTypeOK
    <2> QED
      BY <2>1, <2>2, <2>3, AppendProperties
  <1>5. ASSUME key \notin DOMAIN resultMap
        PROVE  resources' = resources
    BY <1>1, <1>5
  <1>6. firstError = "nil" => key \in DOMAIN resultMap
    BY <1>2, <1>3, AllCollected
  <1> HIDE DEF name, key
  <1>7. FanOutTypeOK'
    <2>1. resources' \in Seq(Row) /\ Len(resources') <= scanned + 1
      BY <1>4, <1>5, LengthsNat DEF FanOutTypeOK
    <2>2. scanned + 1 \in 0..Len(names)
      BY <1>3, LengthsNat
    <2> QED
      BY <1>1, <2>1, <2>2 DEF FanOutTypeOK, NameSet, workVars
  <1>8. NotYet' /\ Phases' /\ Enumerated' /\ Finished'
    BY <1>1 DEF NotYet, Phases, Enumerated, Finished, Listing
  <1>9. Workers' /\ WorkersStarted'
    BY <1>1 DEF Workers, WorkerOK, WorkersStarted, NameSet, workVars
  <1>10. Faithful' /\ Accounted' /\ AnswersAccounted'
    BY <1>1 DEF Faithful, AnswerOf, Accounted, AnswersAccounted, workVars
  <1>11. Rebuilt'
    <2>1. ASSUME NEW k \in 1..Len(resources')
          PROVE  \E n \in NameSet :
                   KeyOf(n) \in DOMAIN resultMap /\ resources'[k] = resultMap[KeyOf(n)]
      BY <1>3, <1>4, <1>5, LengthsNat DEF Rebuilt, key
    <2>2. ASSUME firstError = "nil"
          PROVE  /\ Len(resources') = scanned + 1
                 /\ \A k \in 1..(scanned + 1) : resources'[k].name = names[k]
      BY <1>4, <1>6, <2>2, LengthsNat DEF Rebuilt, name
    <2> QED
      BY <1>1, <1>2, <2>1, <2>2 DEF Rebuilt, NameSet
  <1>12. ErrorsGenuine'
    BY <1>1 DEF ErrorsGenuine, Genuine, workVars
  <1> QED
    BY <1>7, <1>8, <1>9, <1>10, <1>11, <1>12

LEMMA ReturnResourcesStep ==
  ASSUME FanInv, ReturnResources
  PROVE  FanInv'
  <1> USE DEF FanInv
  <1>1. /\ pc = "collect" /\ ~(i < Len(names)) /\ scanned = Len(names)
        /\ Return(IF firstError # "nil" THEN firstError ELSE "rows")
        /\ UNCHANGED <<ctx, names, collectVars, workVars, fault>>
    BY DEF ReturnResources, MoreAnswers, Verdict
  <1>2. CASE firstError # "nil"
    <2>1. PICK e \in Errors : e = firstError
      BY <1>2 DEF FanOutTypeOK
    <2>2. Return(e) /\ e # "canceled" /\ Genuine(e)' /\ fault' \in BOOLEAN /\ (fault => fault')
      BY <1>1, <1>2, <2>1 DEF FanOutTypeOK, ErrorsGenuine, Genuine
    <2> QED
      BY <1>1, <2>1, <2>2, ReturnsError DEF Return
  <1>3. CASE firstError = "nil"
    <2>1. i = Len(names) /\ pc' = "returned" /\ outcome' = "rows" /\ "returned" \notin Listing
      BY <1>1, <1>3, LengthsNat DEF FanOutTypeOK, Return, Listing
    <2>2. FanOutTypeOK'
      BY <1>1, <2>1 DEF FanOutTypeOK, NameSet, collectVars, workVars
    <2>3. NotYet' /\ Phases' /\ Enumerated' /\ Finished' /\ Rebuilt'
      BY <1>1, <1>3, <2>1
         DEF NotYet, Phases, Enumerated, Finished, Rebuilt, NameSet, collectVars
    <2>4. Workers' /\ WorkersStarted'
      BY <1>1 DEF Workers, WorkerOK, WorkersStarted, NameSet, workVars
    <2>5. Faithful' /\ Accounted' /\ AnswersAccounted'
      BY <1>1 DEF Faithful, AnswerOf, Accounted, AnswersAccounted, collectVars, workVars
    <2>6. ErrorsGenuine'
      BY <1>1, <2>1 DEF ErrorsGenuine, Genuine, collectVars, workVars
    <2> QED
      BY <2>2, <2>3, <2>4, <2>5, <2>6
  <1> QED
    BY <1>2, <1>3

\* Steps that change the context only: leaving, and the timer.
LEMMA ContextStep ==
  ASSUME FanInv, Exit \/ Deadline
  PROVE  FanInv'
  <1> USE DEF FanInv, collectVars, workVars
  <1>1. /\ UNCHANGED <<names, collectVars, outcome, workVars, fault>>
        /\ \/ pc = "returned" /\ pc' = "exited" /\ ctx' = IF ctx = "live" THEN "canceled" ELSE ctx
           \/ ctx = "live" /\ ctx' = "deadline" /\ pc' = pc
    BY DEF Exit, Deadline
  <1>2. FanOutTypeOK'
    BY <1>1 DEF FanOutTypeOK, NameSet, CtxErrors
  <1>3. NotYet' /\ Phases' /\ Enumerated' /\ Finished' /\ Rebuilt'
    BY <1>1 DEF NotYet, Phases, Enumerated, Finished, Rebuilt, NameSet, Listing
  <1>4. Workers' /\ WorkersStarted'
    BY <1>1 DEF Workers, WorkerOK, WorkersStarted, NameSet
  <1>5. Faithful' /\ Accounted' /\ AnswersAccounted'
    BY <1>1 DEF Faithful, AnswerOf, Accounted, AnswersAccounted
  <1>6. ErrorsGenuine'
    BY <1>1 DEF ErrorsGenuine, Genuine
  <1> QED
    BY <1>2, <1>3, <1>4, <1>5, <1>6

LEMMA StutterStep ==
  ASSUME FanInv, UNCHANGED fanVars
  PROVE  FanInv'
  <1> USE DEF FanInv, fanVars, collectVars, workVars
  <1>1. FanOutTypeOK'
    BY DEF FanOutTypeOK, NameSet
  <1>2. NotYet' /\ Phases' /\ Enumerated' /\ Finished' /\ Rebuilt'
    BY DEF NotYet, Phases, Enumerated, Finished, Rebuilt, NameSet
  <1>3. Workers' /\ WorkersStarted'
    BY DEF Workers, WorkerOK, WorkersStarted, NameSet
  <1>4. Faithful' /\ Accounted' /\ AnswersAccounted' /\ ErrorsGenuine'
    BY DEF Faithful, AnswerOf, Accounted, AnswersAccounted, ErrorsGenuine, Genuine
  <1> QED
    BY <1>1, <1>2, <1>3, <1>4

-----------------------------------------------------------------------------
(* FanInv is inductive, and implies the properties.                        *)

LEMMA FanInitInv ==
  ASSUME NEW first \in Listing, NEW empty \in [Item -> Row],
         \A n \in Item : empty[n].name = n /\ empty[n].types = 0,
         FanOutInit(first, empty)
  PROVE  FanInv
  <1> USE DEF FanOutInit
  <1>1. /\ names \in Seq(Item) /\ resources \in Seq(Row) /\ resultChan \in Seq(Answers)
        /\ Len(names) = 0 /\ Len(resources) = 0 /\ Len(resultChan) = 0
    OBVIOUS
  <1>2. /\ \A n \in Item : row[n] = empty[n] /\ at[n] = "idle" /\ err[n] = "nil"
        /\ DOMAIN resultMap = {}
    OBVIOUS
  <1>3. FanOutTypeOK
    <2>1. fault \in BOOLEAN
      OBVIOUS
    <2>2. 0 \in 0..Len(names) /\ Len(resources) <= 0
      BY <1>1
    <2> QED
      BY <1>1, <1>2, <2>1, <2>2 DEF FanOutTypeOK, Errors, CtxErrors
  <1>4. NotYet /\ Phases /\ Finished /\ Rebuilt
    BY <1>1, <1>2 DEF NotYet, Phases, Finished, Rebuilt, NameSet, Listing
  <1>5. Enumerated
    <2>1. <<>> \in SetToSeqs({})
      BY FS_EmptySet DEF SetToSeqs
    <2> QED
      BY <2>1 DEF Enumerated, SetToAllKPermutations
  <1>6. Workers /\ WorkersStarted
    BY <1>2 DEF Workers, WorkerOK, WorkersStarted, Listing
  <1>7. Faithful /\ Accounted
    BY <1>1, <1>2 DEF Faithful, Accounted
  <1>8. AnswersAccounted
    <2>1. DoneSet = {}
      BY <1>2 DEF DoneSet
    <2>2. Cardinality(DoneSet) = 0
      BY <2>1, FS_EmptySet
    <2>3. Len(resultChan) + i = 0
      BY <1>1
    <2> QED
      BY <2>2, <2>3 DEF AnswersAccounted, DoneSet
  <1>9. ErrorsGenuine
    BY <1>2 DEF ErrorsGenuine, Genuine
  <1> QED
    BY <1>3, <1>4, <1>5, <1>6, <1>7, <1>8, <1>9 DEF FanInv

LEMMA FanNextInv ==
  ASSUME FanInv, [FanNext]_fanVars
  PROVE  FanInv'
  <1>1. CASE Collect
    BY <1>1, CollectDoneStep, CollectResultStep, RebuildStep, ReturnResourcesStep, ContextStep
       DEF Collect
  <1>2. ASSUME NEW n \in Item, WorkerNext(n)
        PROVE  FanInv'
    BY <1>2, WorkerStep
  <1> QED
    BY <1>1, <1>2, CallRefusedStep, CallAnsweredStep, LaunchStep, ContextStep, StutterStep
       DEF FanNext

\* The channel has room for every answer still to come.
LEMMA HasRoom == FanInv => RoomForEveryAnswer
  <1> SUFFICES ASSUME FanInv, NEW n \in Item, at[n] = "send"
               PROVE  Len(resultChan) < ChanCap
    BY DEF RoomForEveryAnswer
  <1> USE DEF FanInv
  <1>1. DoneSet \subseteq NameSet /\ n \in NameSet /\ n \notin DoneSet
    BY DoneCounted DEF Workers, WorkerOK, DoneSet
  <1>2. Cardinality(DoneSet) # Len(names)
    BY <1>1, DoneCounted
  <1>3. Cardinality(DoneSet) \in Nat /\ Cardinality(DoneSet) <= Len(names)
    BY DoneCounted, FS_CardinalityType
  <1>4. Len(resultChan) + i = Cardinality(DoneSet)
    BY DEF AnswersAccounted, DoneSet
  <1> QED
    BY <1>2, <1>3, <1>4, LengthsNat DEF ChanCap

\* While answers are missing, either one is in the channel or a goroutine has
\* not sent its own: with all of them sent, the count would be complete.
LEMMA NotAlone == FanInv => SomebodyAnswers
  <1> SUFFICES ASSUME FanInv, pc = "collect", MoreAnswers, resultChan = <<>>,
                      \A n \in NameSet : at[n] \in {"idle", "done"}
               PROVE  FALSE
    BY DEF SomebodyAnswers
  <1> USE DEF FanInv
  <1>1. \A n \in NameSet : n \in Item /\ at[n] = "done"
    BY NamesCounted DEF WorkersStarted
  <1>2. DoneSet = NameSet
    BY <1>1, DoneCounted DEF DoneSet
  <1>3. Len(resultChan) + i = Len(names)
    BY <1>2, NamesCounted DEF AnswersAccounted, DoneSet
  <1> QED
    BY <1>3, LengthsNat DEF MoreAnswers

\* A row returned is what its goroutine built.
LEMMA RowsReturned ==
  ASSUME FanInv, NEW k \in 1..Len(resources)
  PROVE  /\ resources[k].name \in Item
         /\ at[resources[k].name] = "done" /\ err[resources[k].name] = "nil"
         /\ resources[k] = row[resources[k].name]
  <1>1. PICK n \in NameSet :
          KeyOf(n) \in DOMAIN resultMap /\ resources[k] = resultMap[KeyOf(n)]
    BY DEF FanInv, Rebuilt
  <1>2. n \in Item /\ at[n] = "done" /\ err[n] = "nil" /\ resultMap[KeyOf(n)] = row[n]
    BY <1>1, NamesCounted DEF FanInv, Faithful
  <1> QED
    BY <1>1, <1>2 DEF FanInv, Workers, WorkerOK

LEMMA IsComplete == FanInv => RowsComplete
  <1> SUFFICES ASSUME FanInv, outcome = "rows"
               PROVE  /\ Len(resources) = Len(names)
                      /\ \A k \in 1..Len(names) :
                           resources[k].name = names[k] /\ resources[k].types = NumTypes
    BY DEF RowsComplete
  <1> USE DEF FanInv
  <1>1. firstError = "nil" /\ scanned = Len(names)
    BY DEF Finished
  <1>2. Len(resources) = Len(names) /\ \A k \in 1..Len(names) : resources[k].name = names[k]
    BY <1>1 DEF Rebuilt
  <1>3. ASSUME NEW k \in 1..Len(names)
        PROVE  resources[k].types = NumTypes
    BY <1>2, RowsReturned DEF Workers, WorkerOK
  <1> QED
    BY <1>2, <1>3

LEMMA NothingSwallowed == FanInv => NoErrorSwallowed
  <1> SUFFICES ASSUME FanInv, outcome = "rows"
               PROVE  \A n \in NameSet : at[n] = "done" /\ err[n] = "nil"
    BY DEF NoErrorSwallowed
  <1>1. firstError = "nil" /\ i = Len(names)
    BY DEF FanInv, Finished
  <1>2. \A n \in NameSet : n \in Item /\ KeyOf(n) \in DOMAIN resultMap
    BY <1>1, AllCollected, NamesCounted DEF FanInv
  <1> QED
    BY <1>2 DEF FanInv, Faithful

LEMMA IsGenuine == FanInv => ErrorIsGenuine
  BY DEF FanInv, ErrorsGenuine, Genuine, ErrorIsGenuine
=============================================================================
