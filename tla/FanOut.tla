------------------------------- MODULE FanOut -------------------------------
(***************************************************************************)
(* The scaffold that GetNodeResources and GetPodResources (pkg/kube/       *)
(* kube.go) share: the main goroutine starts one goroutine per name and    *)
(* collects their answers from a buffered channel, under a context that    *)
(* expires after 30 seconds; then it puts the rows back in the order of    *)
(* the list.  NodeResources and PodResources add what each of them reads.  *)
(* The actions say nothing of the variables those modules add.             *)
(***************************************************************************)
EXTENDS Naturals, SequencesExt

CONSTANTS
  Item,        \* the names a row can be asked for
  NamespaceOf, \* the namespace and
  ShortName,   \*   the name that make up the key of each; nodes share a namespace
  Row,         \* the rows: records with a field name and a field types
  Sorted,      \* TRUE iff --sort-by was given
  NumTypes     \* number of entries of resourceType; strings.Split gives >= 1

ASSUME FanOutAssumption ==
  /\ IsFiniteSet(Item)
  /\ DOMAIN NamespaceOf = Item /\ DOMAIN ShortName = Item
  /\ \A m, n \in Item :
       NamespaceOf[m] = NamespaceOf[n] /\ ShortName[m] = ShortName[n] => m = n
  /\ Sorted \in BOOLEAN
  /\ NumTypes \in Nat \ {0}
  /\ \A r \in Row : r.name \in Item /\ r.types \in 0..NumTypes

VARIABLES
  ctx,         \* "live", or the error ctx.Err() returns
  pc,          \* where the main goroutine is
  names,       \* the names to show, in the order to show them
  resultChan,  \* the buffered channel of answers
  i,           \* answers collected so far
  firstError,  \* first error collected
  resultMap,   \* rows collected, by key
  scanned,     \* names visited by the rebuilding loop
  resources,   \* rows in display order
  outcome,     \* what the call returned: "rows" or an error
  at,          \* where each goroutine is
  row,         \* the row each goroutine is building
  err,         \* the error each goroutine answers with
  fault        \* history: some request failed with an error of its own

collectVars == <<resultChan, i, firstError, resultMap, scanned, resources>>
workVars == <<at, row, err>>
fanVars == <<ctx, pc, names, collectVars, outcome, workVars, fault>>

CtxErrors == {"deadline", "canceled"}
Errors    == {"api"} \cup CtxErrors

\* podKey := podmetric.Namespace + "/" + podmetric.Name; for a node, its name.
MutKeyOf(n) == ShortName[n]
KeyOf(n) == <<NamespaceOf[n], ShortName[n]>>

Answers   == [key : {KeyOf(n) : n \in Item}, resource : Row, err : Errors \cup {"nil"}]
NameSet   == {names[k] : k \in 1..Len(names)}

Listing   == {"discover", "metrics", "nodes"}  \* calls of the main goroutine
Reading   == {"pods", "metrics", "pod"}        \* calls of the others

FanOutTypeOK ==
  /\ ctx \in {"live"} \cup CtxErrors
  /\ pc \in Listing \cup {"collect", "returned", "exited"}
  /\ names \in Seq(Item)
  /\ resultChan \in Seq(Answers)
  /\ i \in 0..Len(names)
  /\ firstError \in Errors \cup {"nil"}
  /\ DOMAIN resultMap \subseteq {KeyOf(n) : n \in NameSet}
  /\ \A k \in DOMAIN resultMap : resultMap[k] \in Row
  /\ scanned \in 0..Len(names)
  /\ resources \in Seq(Row)
  /\ Len(resources) <= scanned
  /\ outcome \in {"none", "rows"} \cup Errors
  /\ at \in [Item -> {"idle", "start", "types", "send", "done"} \cup Reading]
  /\ row \in [Item -> Row]
  /\ err \in [Item -> Errors \cup {"nil"}]
  /\ fault \in BOOLEAN

\* The first call to make, and the rows before anything is read.
FanOutInit(first, empty) ==
  /\ ctx = "live" /\ pc = first
  /\ names = <<>> /\ resultChan = <<>>
  /\ i = 0 /\ firstError = "nil" /\ resultMap = [n \in {} |-> empty[n]]
  /\ scanned = 0 /\ resources = <<>> /\ outcome = "none"
  /\ at = [n \in Item |-> "idle"]
  /\ row = empty
  /\ err = [n \in Item |-> "nil"]
  /\ fault = FALSE

-----------------------------------------------------------------------------
(* A call is one step: it reads the cluster when the server answers.  While *)
(* the context is live it may succeed, fail or never return; once the      *)
(* context is done client-go makes it return the context's error.          *)

Reply(value) == [err |-> "nil", val |-> value]

\* A call that cannot succeed: the context's error, or one of the server.
Failures == IF ctx = "live" THEN {[err |-> "api", val |-> {}]}
                            ELSE {[err |-> ctx, val |-> {}]}

NoteFault(e) == fault' = (fault \/ e = "api")

-----------------------------------------------------------------------------
(* The main goroutine.                                                     *)

Return(o) == pc' = "returned" /\ outcome' = o

\* sort.Sort with the sorter of the metrics: descending in the samples.
MutInOrder(usage, s) == \A j, k \in 1..Len(s) : j < k => usage[s[j]] <= usage[s[k]]
InOrder(usage, s) == \A j, k \in 1..Len(s) : j < k => usage[s[j]] >= usage[s[k]]

\* The names of the samples listed.  sort.Sort is not stable: equal samples may
\* come in any order; without --sort-by the API's order is kept.
Arrange(usage) ==
  /\ names' \in SetToSeqs(DOMAIN usage)
  /\ Sorted => InOrder(usage, names')

\* Make the channel and start one goroutine per name.
StartAll ==
  /\ at' = [n \in Item |-> IF n \in NameSet' THEN "start" ELSE "idle"]
  /\ pc' = "collect"
  /\ UNCHANGED outcome

\* make(chan result, len(names)); Mut*: what a plausible bug would do.
MutChanCap == 1
ChanCap == Len(names)

\* for i := 0; i < len(names); i++, whatever the answer was.
MutMoreAnswers == i + 1 < Len(names)
MutFailFast == i < Len(names) /\ firstError = "nil"
MoreAnswers == i < Len(names)
MutCounted(result) == IF result.err = "nil" THEN i + 1 ELSE i
Counted(result) == i + 1

\* The first error is kept; the rows are returned only without one.
MutNoteError(e) == firstError
NoteError(e) == IF firstError = "nil" THEN e ELSE firstError
MutVerdict == IF resources = <<>> THEN firstError ELSE "rows"
Verdict == IF firstError # "nil" THEN firstError ELSE "rows"

\* select: ctx.Done() is ready.  Go chooses at random if an answer is too.
CollectDone ==
  /\ pc = "collect" /\ MoreAnswers
  /\ ctx # "live"
  /\ Return(ctx)
  /\ UNCHANGED <<ctx, names, collectVars, workVars, fault>>

\* resultMap[key] = row
Store(m, k, r) == [x \in DOMAIN m \cup {k} |-> IF x = k THEN r ELSE m[x]]

\* select: an answer is ready.
CollectResult ==
  /\ pc = "collect" /\ MoreAnswers
  /\ resultChan # <<>>
  /\ LET result == Head(resultChan)
     IN  /\ \/ /\ result.err # "nil"
               /\ firstError' = NoteError(result.err)
               /\ UNCHANGED resultMap
            \/ /\ result.err = "nil"
               /\ resultMap' = Store(resultMap, result.key, result.resource)
               /\ UNCHANGED firstError
         /\ i' = Counted(result)
  /\ resultChan' = Tail(resultChan)
  /\ UNCHANGED <<ctx, pc, names, scanned, resources, outcome, workVars, fault>>

\* One iteration of the loop that puts the rows back in the order of the list.
Rebuild ==
  /\ pc = "collect" /\ ~MoreAnswers
  /\ scanned < Len(names)
  /\ LET key == KeyOf(names[scanned + 1])
     IN  resources' = IF key \in DOMAIN resultMap
                      THEN Append(resources, resultMap[key])
                      ELSE resources
  /\ scanned' = scanned + 1
  /\ UNCHANGED <<ctx, pc, names, resultChan, i, firstError, resultMap, outcome,
                 workVars, fault>>

\* Every answer collected, every row in place: return them or the first error.
ReturnResources ==
  /\ pc = "collect" /\ ~MoreAnswers /\ scanned = Len(names)
  /\ Return(Verdict)
  /\ UNCHANGED <<ctx, names, collectVars, workVars, fault>>

\* The caller shows the rows or the error; its deferred cancel() runs.
Exit ==
  /\ pc = "returned"
  /\ pc' = "exited"
  /\ ctx' = IF ctx = "live" THEN "canceled" ELSE ctx
  /\ UNCHANGED <<names, collectVars, outcome, workVars, fault>>

Collect == CollectDone \/ CollectResult \/ Rebuild \/ ReturnResources \/ Exit

-----------------------------------------------------------------------------
(* The goroutine of name n.                                                *)

Fail(n, e) == /\ err' = [err EXCEPT ![n] = e]
              /\ at' = [at EXCEPT ![n] = "send"]

\* select before starting work: give up if the context is done.
Begin(n, next) ==
  /\ at[n] = "start"
  /\ \/ ctx = "live" /\ at' = [at EXCEPT ![n] = next] /\ UNCHANGED err
     \/ ctx # "live" /\ Fail(n, ctx)
  /\ UNCHANGED <<ctx, pc, names, collectVars, outcome, row, fault>>

\* for _, t := range resourceType
MutMoreTypes(k) == k <= NumTypes
MoreTypes(k) == k < NumTypes

\* One iteration of the loop over resourceType: check the context, then append
\* the columns of one type to r; after the last one the row is ready.  The error
\* of the allocation call (the nodes log it and leave the columns out, the pods
\* send it) is not here: PodRequestsAndLimits never fails.
AddType(n, r) ==
  /\ at[n] = "types"
  /\ \/ /\ ctx # "live"
        /\ Fail(n, ctx)
        /\ UNCHANGED row
     \/ /\ ctx = "live"
        /\ row' = [row EXCEPT ![n] = [r EXCEPT !.types = @ + 1]]
        /\ at' = [at EXCEPT ![n] = IF MoreTypes(r.types + 1) THEN "types" ELSE "send"]
        /\ UNCHANGED err
  /\ UNCHANGED <<ctx, pc, names, collectVars, outcome, fault>>

\* resultChan <- result{...}: blocks while the buffer is full.
Send(n) ==
  /\ at[n] = "send"
  /\ Len(resultChan) < ChanCap
  /\ resultChan' = Append(resultChan, [key |-> KeyOf(n), resource |-> row[n], err |-> err[n]])
  /\ at' = [at EXCEPT ![n] = "done"]
  /\ UNCHANGED <<ctx, pc, names, i, firstError, resultMap, scanned, resources,
                 outcome, row, err, fault>>

\* context.WithTimeout: the timer may fire at any moment.
MutNoDeadline == FALSE
MutTimerCancels ==
  /\ ctx = "live" /\ ctx' = "canceled"
  /\ UNCHANGED <<pc, names, collectVars, outcome, workVars, fault>>
Deadline ==
  /\ ctx = "live"
  /\ ctx' = "deadline"
  /\ UNCHANGED <<pc, names, collectVars, outcome, workVars, fault>>

CtxDone == ctx # "live"

-----------------------------------------------------------------------------
(* Properties of both commands; the line numbers are those of the nodes,   *)
(* with those of the pods after the semicolon.                             *)

(* A goroutine that has an answer never waits for room in the channel: it  *)
(* was made with one slot per name, so an answer can be sent even after    *)
(* the collector has stopped reading (kube.go:140, 251; 295, 365).         *)
RoomForEveryAnswer ==
  \A n \in Item : at[n] = "send" => Len(resultChan) < ChanCap

(* No answer is lost or collected twice: those in the channel and those    *)
(* collected are as many as the goroutines that have sent (kube.go:248;    *)
(* 362).                                                                   *)
AnswersAccounted ==
  Len(resultChan) + i = Cardinality({n \in Item : at[n] = "done"})

(* The collector is never left to the deadline by its own goroutines: while *)
(* it waits, an answer is in the channel or somebody is still to send one, *)
(* whichever of them failed, gave up or finished, and however far the      *)
(* counting has got (kube.go:248-252; 362-366).                            *)
SomebodyAnswers ==
  pc = "collect" /\ MoreAnswers =>
    resultChan # <<>> \/ \E n \in NameSet : at[n] \notin {"idle", "done"}

(* All or nothing: rows are returned only when every name has its row, in  *)
(* the order of the sorted list and with the columns of every requested    *)
(* type, whatever the order the answers came in (kube.go:265-276; 380-391). *)
RowsComplete ==
  outcome = "rows" =>
    /\ Len(resources) = Len(names)
    /\ \A k \in 1..Len(names) :
         resources[k].name = names[k] /\ resources[k].types = NumTypes

(* No goroutine's error is hidden behind a table: a pod that is listed and *)
(* cannot be read any more fails the command (kube.go:273; 388).           *)
NoErrorSwallowed ==
  outcome = "rows" => \A n \in NameSet : at[n] = "done" /\ err[n] = "nil"

(* The error reported is one that happened: a time-out only after the      *)
(* deadline, an API error only after a call failed, and never the          *)
(* "context canceled" of the deferred cancel (resource_node.go:165-174;    *)
(* resource_pod.go:164-208).                                               *)
ErrorIsGenuine ==
  /\ outcome = "api" => fault
  /\ outcome = "deadline" => ctx = "deadline"
  /\ outcome # "canceled"

(* What the call promises: Gather, where a name is found once its goroutine *)
(* has built its row, and nothing is asked for until the goroutines are    *)
(* started.                                                                *)
Started == pc = "collect" \/ outcome = "rows" \/ \E n \in Item : at[n] # "idle"

Promise == INSTANCE Gather WITH
  asked   <- Started,
  order   <- IF Started THEN names ELSE <<>>,
  found   <- {n \in Item : at[n] \in {"send", "done"} /\ err[n] = "nil"},
  expired <- ctx = "deadline",
  faulty  <- fault,
  answer  <- [kind |-> outcome,
              rows |-> IF outcome = "rows"
                       THEN [k \in 1..Len(resources) |-> resources[k].name]
                       ELSE <<>>]

(* The call implements Gather: one answer, whatever the interleaving.      *)
KeepsPromise == Promise!Spec

(* Every goroutine ends, including those the collector did not wait for.   *)
NoGoroutineLeak == <>[](\A n \in Item : at[n] \in {"idle", "done"})
=============================================================================
