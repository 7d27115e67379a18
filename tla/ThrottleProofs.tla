--------------------------- MODULE ThrottleProofs ---------------------------
(***************************************************************************)
(* Proofs about the rate limits, for any number of names, any burst and    *)
(* any deadline: each step is a step of the fan-out (FanOutProofs), and a  *)
(* limiter balances: its tokens and the callers it has given or promised a *)
(* token to make up the burst and what time has brought, and while tokens  *)
(* are owed the caller of the last one waits for it.                       *)
(***************************************************************************)
EXTENDS Throttle, FanOutPromise

\* A caller has a request only while it is making a call.
Calls == \A o \in Callers : request[o] # "none" => Calling(o)

\* Whose token of which client is taken, by the place of a goroutine.
WorkerTook(n) ==
  /\ at[n] \in {"idle", "start"} => \A c \in Clients : n \notin takers[c]
  /\ at[n] \in Reading => (n \in takers[ClientOf(at[n])] <=> request[n] # "none")
  /\ at[n] = "pods" => n \notin takers["metrics"]
  /\ at[n] = "metrics" => n \in takers["api"]
  /\ at[n] = "types" \/ (at[n] \in {"send", "done"} /\ err[n] = "nil") =>
       n \in takers["api"] /\ (command = "node" => n \in takers["metrics"])
  /\ command = "node" => at[n] # "pod"
  /\ command = "pod" => at[n] \notin {"pods", "metrics"} /\ n \notin takers["metrics"]

MainTook ==
  /\ pc # "discover"
  /\ pc \in Listing => (Main \in takers[ClientOf(pc)] <=> request[Main] # "none")
  /\ pc = "metrics" => Main \notin takers["api"]
  /\ pc = "nodes" => Main \in takers["metrics"] /\ command = "node"
  /\ pc = "collect" \/ outcome = "rows" =>
       Main \in takers["metrics"] /\ (command = "node" => Main \in takers["api"])
  /\ command = "pod" => Main \notin takers["api"]

Stages == MainTook /\ \A n \in Item : WorkerTook(n)

\* The requests that wait for a token of client c.
Waiting(c) == {o \in Callers : request[o] = "waiting" /\ ClientOf(CallOf(o)) = c}

\* The books of a limiter.
Balanced(c) ==
  /\ tokens[c] + Cardinality(takers[c]) <= Burst + now
  /\ Burst <= tokens[c] + Cardinality(takers[c])
  /\ now - Limit <= tokens[c]
  /\ \A o \in Waiting(c) : due[o] <= now \/ due[o] <= now - tokens[c]
  /\ ctx = "live" /\ tokens[c] < 0 => \E o \in Waiting(c) : due[o] = now - tokens[c]

\* A request is refused only when another waits for the last token before the
\* deadline, and until it has gone the call cannot return.
RefusedLate ==
  /\ ctx = "deadline" => now = Limit
  /\ fault /\ ctx = "live" =>
       now = Limit \/ \E o \in Callers : request[o] = "waiting" /\ due[o] = Limit
  /\ outcome = "api" => now = Limit

FewEnough == \A c \in Clients : Needed(c, names) <= Burst

Inv ==
  /\ FanInv
  /\ TypeOK
  /\ Calls
  /\ Stages
  /\ \A c \in Clients : Balanced(c)
  /\ FewEnough \/ pc \in Listing => ~fault
  /\ RefusedLate

-----------------------------------------------------------------------------
(* Every step is a step of the fan-out.                                    *)

LEMMA MainMapped ==
  ASSUME Inv, MainAnswered
  PROVE  CallAnswered \/ Launch
  <1>1. names' \in SetToAllKPermutations(Item)
    BY DEF MainAnswered, Inv, FanInv, Enumerated
  <1>2. CASE pc = "metrics" /\ command = "node"
    BY <1>1, <1>2 DEF MainAnswered, CallAnswered, Listing, workVars
  <1>3. CASE ~(pc = "metrics" /\ command = "node")
    BY <1>1, <1>3 DEF MainAnswered, Launch
  <1> QED
    BY <1>2, <1>3

LEMMA FailsMapped ==
  ASSUME Inv, NEW o \in Callers, NEW e \in CallErrors, Calling(o), CallFails(o, e)
  PROVE  FanNext
  <1>1. CASE o = Main
    BY <1>1 DEF CallFails, Calling, FanNext, CallRefused, Return
  <1>2. CASE o # Main
    <2>1. o \in Item /\ ReadFails(o)
      BY <1>2 DEF CallFails, Calling, Callers, ReadFails, mainVars
    <2> QED
      BY <2>1 DEF FanNext, WorkerNext
  <1> QED
    BY <1>1, <1>2

LEMMA AnsweredMapped ==
  ASSUME Inv, NEW n \in Item, WorkerAnswered(n)
  PROVE  ReadReturns(n)
  <1>1. row[n] \in Row /\ row[n].name = n /\ row \in [Item -> Row]
    BY DEF Inv, FanInv, FanOutTypeOK, Workers, WorkerOK
  <1>2. PICK next \in Reading \cup {"types"} : at' = [at EXCEPT ![n] = next]
    BY DEF WorkerAnswered, Reading
  <1>3. row' = [row EXCEPT ![n] = row[n]]
    BY <1>1 DEF WorkerAnswered
  <1> QED
    BY <1>1, <1>2, <1>3 DEF WorkerAnswered, ReadReturns, mainVars

LEMMA RunsMapped ==
  ASSUME Inv, NEW n \in Item, WorkerRuns(n)
  PROVE  SetsOut(n) \/ GivesUp(n) \/ TypeAdded(n) \/ Send(n)
  <1>1. CASE Begin(n, FirstRead)
    BY <1>1 DEF Begin, Fail, FirstRead, Reading, SetsOut, GivesUp, mainVars
  <1>2. CASE AddType(n, row[n])
    <2>1. CASE ctx # "live"
      BY <1>2, <2>1 DEF AddType, Fail, GivesUp, mainVars
    <2>2. CASE ctx = "live"
      <3> DEFINE r == [row[n] EXCEPT !.types = @ + 1]
      <3>1. row[n] \in Rows /\ row[n].name = n /\ row[n].types < NumTypes
        BY <1>2, ThrottleAssumption DEF AddType, Inv, FanInv, FanOutTypeOK, Workers, WorkerOK
      <3>2. r \in Row /\ r.name = n /\ r.types = row[n].types + 1
        BY <3>1, FanOutAssumption, ThrottleAssumption DEF Rows
      <3>3. /\ at[n] = "types"
            /\ row' = [row EXCEPT ![n] = r]
            /\ at' = [at EXCEPT ![n] = IF MoreTypes(r.types) THEN "types" ELSE "send"]
            /\ UNCHANGED <<mainVars, err, fault>>
        BY <1>2, <2>2, <3>2 DEF AddType, mainVars
      <3> HIDE DEF r
      <3> QED
        BY <2>2, <3>2, <3>3 DEF TypeAdded
    <2> QED
      BY <2>1, <2>2
  <1> QED
    BY <1>1, <1>2 DEF WorkerRuns

\* The errors of the calls that fail.
LEMMA FailsHow ==
  ASSUME Inv, NEW o \in Callers, Refuse(o) \/ GiveUp(o)
  PROVE  \E e \in CallErrors : Calling(o) /\ CallFails(o, e) /\ (e = "api" => Refuse(o))
  BY DEF Refuse, GiveUp, CallErrors, Inv, FanInv, FanOutTypeOK, CtxErrors

LEMMA StepMapped ==
  ASSUME Inv, [Next]_vars
  PROVE  [FanNext]_fanVars
  <1>1. ASSUME NEW n \in Item, WorkerRuns(n) \/ WorkerAnswered(n)
        PROVE  FanNext
    BY <1>1, RunsMapped, AnsweredMapped DEF FanNext, WorkerNext
  <1>2. ASSUME NEW o \in Callers, Refuse(o) \/ GiveUp(o)
        PROVE  FanNext
    BY <1>2, FailsHow, FailsMapped
  <1>3. ASSUME NEW o \in Callers, Reserve(o) \/ Go(o)
        PROVE  UNCHANGED fanVars
    BY <1>3 DEF Reserve, Go
  <1>4. CASE Tick \/ UNCHANGED vars
    BY <1>4 DEF Tick, vars
  <1>5. CASE Collecting \/ TimerFires
    BY <1>5 DEF Collecting, TimerFires, FanNext
  <1>6. CASE MainAnswered
    BY <1>6, MainMapped DEF FanNext
  <1> QED
    BY <1>1, <1>2, <1>3, <1>4, <1>5, <1>6 DEF Next

-----------------------------------------------------------------------------
(* Types, and the calls in progress.                                       *)

\* The steps that leave the limiters alone.
Elsewhere == MainAnswered \/ Collecting \/ TimerFires
               \/ (\E n \in Item : WorkerRuns(n) \/ WorkerAnswered(n))
               \/ (\E o \in Callers : Refuse(o) \/ GiveUp(o))

LEMMA LimitersUntouched ==
  ASSUME Elsewhere \/ UNCHANGED vars
  PROVE  UNCHANGED <<command, now, tokens, due, takers>>
  BY DEF Elsewhere, MainAnswered, Collecting, TimerFires, WorkerRuns, WorkerAnswered, Refuse,
         GiveUp, CallFails, limitVars, vars

\* What a step does to the requests: at most one ends, and its call with it.
LEMMA RequestsEnd ==
  ASSUME Inv, Elsewhere \/ UNCHANGED vars
  PROVE  /\ request' \in [Callers -> {"none", "waiting", "sent"}]
         /\ \A o \in Callers : request'[o] # "none" =>
              request'[o] = request[o] /\ CallOf(o)' = CallOf(o) /\ Calling(o)'
  <1> USE ThrottleAssumption DEF Inv, TypeOK, FanOutTypeOK, Calls, Callers, CallOf, Calling
  <1>1. CASE MainAnswered
    <2>1. \A n \in Item : at[n] = "idle" /\ request[n] = "none"
      BY <1>1 DEF MainAnswered, FanInv, NotYet, Reading
    <2>2. request' = [request EXCEPT ![Main] = "none"]
      BY <1>1 DEF MainAnswered
    <2> QED
      BY <2>1, <2>2
  <1>2. CASE Collecting \/ TimerFires \/ UNCHANGED vars
    <2>1. UNCHANGED <<request, at>> /\ (pc \in Listing => pc' = pc)
      BY <1>2 DEF Collecting, TimerFires, Collect, CollectDone, CollectResult, Rebuild,
         ReturnResources, Exit, Deadline, vars, fanVars, limitVars, workVars, Listing
    <2> QED
      BY <2>1
  <1>3. ASSUME NEW n \in Item, WorkerRuns(n)
        PROVE  UNCHANGED <<request, pc>> /\ at[n] \notin Reading
               /\ \A m \in Item \ {n} : at'[m] = at[m]
    BY <1>3 DEF WorkerRuns, Begin, AddType, Send, Fail, limitVars, Reading
  <1>4. ASSUME NEW n \in Item, WorkerAnswered(n)
        PROVE  /\ UNCHANGED pc /\ request' = [request EXCEPT ![n] = "none"]
               /\ \A m \in Item \ {n} : at'[m] = at[m]
    BY <1>4 DEF WorkerAnswered
  <1>5. ASSUME NEW o \in Callers, Refuse(o) \/ GiveUp(o)
        PROVE  /\ request' = [request EXCEPT ![o] = "none"]
               /\ o # Main => UNCHANGED pc
               /\ \A m \in Item \ {o} : at'[m] = at[m]
    BY <1>5 DEF Refuse, GiveUp, CallFails, Fail, workVars
  <1>6. CASE \E n \in Item : WorkerRuns(n)
    BY <1>3, <1>6
  <1>7. CASE \E n \in Item : WorkerAnswered(n)
    BY <1>4, <1>7
  <1>8. CASE \E o \in Callers : Refuse(o) \/ GiveUp(o)
    <2>1. PICK o \in Callers : Refuse(o) \/ GiveUp(o)
      BY <1>8
    <2>2. /\ request' = [request EXCEPT ![o] = "none"]
          /\ o # Main => UNCHANGED pc
          /\ \A m \in Item \ {o} : at'[m] = at[m]
      BY <1>5, <2>1
    <2>3. request' \in [Callers -> {"none", "waiting", "sent"}]
      BY <2>2
    <2>4. ASSUME NEW m \in Callers, request'[m] # "none"
          PROVE  request'[m] = request[m] /\ CallOf(m)' = CallOf(m) /\ Calling(m)'
      <3>1. m # o /\ request'[m] = request[m]
        BY <2>2, <2>4
      <3>2. CASE m = Main
        BY <2>2, <2>4, <3>1, <3>2
      <3>3. CASE m # Main
        BY <2>2, <2>4, <3>1, <3>3
      <3> QED
        BY <3>2, <3>3
    <2> QED
      BY <2>3, <2>4
  <1> HIDE DEF Inv, TypeOK, FanOutTypeOK, Calls, Callers, CallOf, Calling
  <1> QED
    BY <1>1, <1>2, <1>6, <1>7, <1>8, Zenon DEF Elsewhere

LEMMA ReserveTypes ==
  ASSUME Inv, NEW o \in Callers, Reserve(o)
  PROVE  LET c == ClientOf(CallOf(o))
             left == tokens[c] - 1
         IN  /\ c \in Clients /\ left \in Int
             /\ TokenTime(left) \in 0..Limit
             /\ tokens' = [tokens EXCEPT ![c] = left]
             /\ due' = [due EXCEPT ![o] = TokenTime(left)]
             /\ takers' = [takers EXCEPT ![c] = takers[c] \cup {o}]
             /\ request' = [request EXCEPT ![o] = "waiting"]
             /\ UNCHANGED <<fanVars, command, now>>
  <1>1. ClientOf(CallOf(o)) \in Clients
    BY DEF ClientOf, Clients
  <1>2. tokens[ClientOf(CallOf(o))] \in Int
    BY <1>1 DEF Inv, TypeOK
  <1>3. TokenTime(tokens[ClientOf(CallOf(o))] - 1) <= Limit
    BY DEF Reserve
  <1>4. TokenTime(tokens[ClientOf(CallOf(o))] - 1) \in 0..Limit
    BY <1>2, <1>3, ThrottleAssumption DEF TokenTime, Inv, TypeOK
  <1> QED
    BY <1>1, <1>2, <1>4 DEF Reserve

LEMMA TypesKept ==
  ASSUME Inv, [Next]_vars, FanOutTypeOK'
  PROVE  TypeOK'
  <1> USE ThrottleAssumption DEF Inv
  <1>1. CASE Elsewhere \/ UNCHANGED vars
    <2>1. UNCHANGED <<command, now, tokens, due, takers>>
      BY <1>1, LimitersUntouched
    <2> QED
      BY <1>1, <2>1, RequestsEnd DEF TypeOK
  <1>2. ASSUME NEW o \in Callers, Reserve(o)
        PROVE  TypeOK'
    <2> DEFINE c == ClientOf(CallOf(o))
               left == tokens[c] - 1
    <2>1. c \in Clients /\ left \in Int /\ TokenTime(left) \in 0..Limit
      BY <1>2, ReserveTypes
    <2>2. /\ tokens' = [tokens EXCEPT ![c] = left]
          /\ due' = [due EXCEPT ![o] = TokenTime(left)]
          /\ takers' = [takers EXCEPT ![c] = takers[c] \cup {o}]
          /\ request' = [request EXCEPT ![o] = "waiting"]
          /\ UNCHANGED <<fanVars, command, now>>
      BY <1>2, ReserveTypes
    <2>3. left <= Burst
      BY <2>1 DEF TypeOK
    <2> HIDE DEF c, left
    <2>4. tokens' \in [Clients -> Int] /\ \A d \in Clients : tokens'[d] <= Burst
      BY <2>1, <2>2, <2>3 DEF TypeOK
    <2>5. takers' \in [Clients -> SUBSET Callers]
      BY <2>1, <2>2 DEF TypeOK
    <2> QED
      BY <2>1, <2>2, <2>4, <2>5 DEF TypeOK
  <1>3. ASSUME NEW o \in Callers, Go(o)
        PROVE  TypeOK'
    BY <1>3 DEF Go, TypeOK
  <1>4. CASE Tick
    <2>1. tokens' \in [Clients -> Int] /\ \A c \in Clients : tokens'[c] <= Burst
      BY <1>4 DEF Tick, TypeOK, Refill
    <2> QED
      BY <1>4, <2>1 DEF Tick, TypeOK
  <1> QED
    BY <1>1, <1>2, <1>3, <1>4 DEF Next, Elsewhere

LEMMA CallsKept ==
  ASSUME Inv, [Next]_vars
  PROVE  Calls'
  <1>1. CASE Elsewhere \/ UNCHANGED vars
    BY <1>1, RequestsEnd DEF Calls
  <1>2. ASSUME NEW o \in Callers, Reserve(o) \/ Go(o)
        PROVE  Calls'
    BY <1>2 DEF Reserve, Go, Inv, TypeOK, Calls, Calling, fanVars, workVars
  <1>3. CASE Tick
    BY <1>3 DEF Tick, Inv, Calls, Calling, fanVars, workVars
  <1> QED
    BY <1>1, <1>2, <1>3 DEF Next, Elsewhere

-----------------------------------------------------------------------------
(* Who has taken a token.                                                  *)

\* Only the caller of a step moves on.
LEMMA OthersTook ==
  ASSUME Inv, NEW n \in Item,
         UNCHANGED <<command, at[n], err[n], request[n]>>,
         \A c \in Clients : n \in takers'[c] <=> n \in takers[c]
  PROVE  WorkerTook(n)'
  <1>1. "api" \in Clients /\ "metrics" \in Clients /\ ClientOf(at[n]) \in Clients
    BY DEF Clients, ClientOf
  <1>2. ClientOf(at[n])' = ClientOf(at[n])
    BY DEF ClientOf
  <1> QED
    BY <1>1, <1>2 DEF WorkerTook, Inv, Stages

LEMMA MainStays ==
  ASSUME Inv, UNCHANGED command,
         pc' = pc \/ (pc' \notin Listing /\ (pc' = "collect" => pc = "collect")),
         outcome' = "rows" => outcome = "rows" \/ pc = "collect",
         pc' \in Listing => request'[Main] = request[Main],
         \A c \in Clients : Main \in takers'[c] <=> Main \in takers[c]
  PROVE  MainTook'
  <1>1. "api" \in Clients /\ "metrics" \in Clients /\ ClientOf(pc) \in Clients
    BY DEF Clients, ClientOf
  <1>2. pc' = pc => ClientOf(pc)' = ClientOf(pc)
    BY DEF ClientOf
  <1> QED
    BY <1>1, <1>2 DEF MainTook, Inv, Stages, Listing

LEMMA MainAnsweredTakes ==
  ASSUME Inv, MainAnswered
  PROVE  Stages'
  <1>1. /\ \A n \in Item : at[n] = "idle" /\ at'[n] \in {"idle", "start"}
        /\ UNCHANGED <<command, takers, outcome>> /\ outcome = "none"
        /\ request[Main] = "sent" /\ request'[Main] = "none" /\ pc \in {"metrics", "nodes"}
        /\ \/ pc = "metrics" /\ command = "node" /\ pc' = "nodes"
           \/ ~(pc = "metrics" /\ command = "node") /\ pc' = "collect"
    BY DEF MainAnswered, StartAll, Inv, FanInv, NotYet, Phases, Stages, MainTook, Listing,
           TypeOK, Callers
  <1>2. MainTook'
    BY <1>1 DEF MainTook, Inv, Stages, ClientOf, Listing
  <1>3. \A n \in Item : WorkerTook(n)'
    BY <1>1 DEF WorkerTook, Inv, Stages, Reading, Clients
  <1> QED
    BY <1>2, <1>3 DEF Stages

LEMMA WorkerTakes ==
  ASSUME Inv, NEW n \in Item, WorkerRuns(n) \/ WorkerAnswered(n)
  PROVE  Stages'
  <1> USE ThrottleAssumption
  <1>1. /\ UNCHANGED <<command, takers, pc, outcome>> /\ request'[Main] = request[Main]
        /\ \A m \in Item \ {n} :
             at'[m] = at[m] /\ err'[m] = err[m] /\ request'[m] = request[m]
    BY DEF WorkerRuns, Begin, AddType, Send, Fail, WorkerAnswered, limitVars, Inv, FanInv,
           FanOutTypeOK, TypeOK, Callers
  <1>2. command \in {"node", "pod"} /\ n \in Callers
    BY DEF Inv, TypeOK, Callers
  <1>3. WorkerTook(n)'
    <2>1. CASE Begin(n, FirstRead)
      <3>1. /\ at[n] = "start" /\ request'[n] = "none"
            /\ \/ at'[n] = FirstRead /\ err'[n] = err[n]
               \/ at'[n] = "send" /\ err'[n] # "nil"
        <4>1. at[n] = "start" /\ UNCHANGED request
          BY <2>1 DEF Begin, WorkerRuns, WorkerAnswered, limitVars, Reading
        <4>2. n # Main /\ request[n] = "none"
          BY <1>2, <4>1 DEF Inv, Calls, Calling, Reading
        <4>3. \/ at'[n] = FirstRead /\ err'[n] = err[n]
              \/ at'[n] = "send" /\ err'[n] # "nil"
          BY <2>1 DEF Begin, Fail, Inv, FanInv, FanOutTypeOK, CtxErrors
        <4> QED
          BY <4>1, <4>2, <4>3
      <3> QED
        BY <1>1, <1>2, <3>1 DEF WorkerTook, Inv, Stages, FirstRead, ClientOf, Reading, Clients
    <2>2. CASE AddType(n, row[n]) \/ Send(n)
      <3>1. \/ at[n] = "types" /\ at'[n] \in {"types", "send"} /\ err'[n] = err[n]
            \/ at[n] = "types" /\ at'[n] = "send" /\ err'[n] # "nil"
            \/ at[n] = "send" /\ at'[n] = "done" /\ err'[n] = err[n]
        BY <2>2 DEF AddType, Send, Fail, Inv, FanInv, FanOutTypeOK, CtxErrors
      <3>2. at[n] = "types" => err[n] = "nil"
        BY DEF Inv, FanInv, Workers, WorkerOK
      <3> QED
        BY <1>1, <1>2, <3>1, <3>2 DEF WorkerTook, Inv, Stages, Reading
    <2>3. CASE WorkerAnswered(n)
      <3>1. /\ at[n] \in Reading /\ request[n] = "sent" /\ request'[n] = "none"
            /\ at'[n] = IF at[n] = "pods" THEN "metrics" ELSE "types"
        BY <1>2, <2>3 DEF WorkerAnswered, Inv, FanInv, FanOutTypeOK, TypeOK
      <3>2. n \in takers[ClientOf(at[n])]
        BY <3>1 DEF Inv, Stages, WorkerTook
      <3> QED
        BY <1>1, <1>2, <3>1, <3>2 DEF WorkerTook, Inv, Stages, ClientOf, Reading
    <2> QED
      BY <2>1, <2>2, <2>3 DEF WorkerRuns
  <1>4. \A m \in Item \ {n} : WorkerTook(m)'
    BY <1>1, OthersTook
  <1>5. MainTook'
    BY <1>1, MainStays
  <1> QED
    BY <1>3, <1>4, <1>5 DEF Stages

LEMMA FailureTakes ==
  ASSUME Inv, NEW o \in Callers, NEW e \in CallErrors, CallFails(o, e)
  PROVE  Stages'
  <1> USE ThrottleAssumption
  <1>0. /\ e # "nil" /\ e # "rows" /\ UNCHANGED <<command, takers>>
        /\ request \in [Callers -> {"none", "waiting", "sent"}]
        /\ request' = [request EXCEPT ![o] = "none"] /\ Main \in Callers
    BY DEF CallErrors, CtxErrors, CallFails, Inv, TypeOK, Callers
  <1>1. CASE o = Main
    <2>1. pc' = "returned" /\ outcome' = e /\ UNCHANGED <<at, err>>
      BY <1>1 DEF CallFails, Return, workVars
    <2>2. \A n \in Item : request'[n] = request[n]
      BY <1>0, <1>1 DEF Callers
    <2>3. MainTook'
      BY <1>0, <2>1, MainStays DEF Listing
    <2> QED
      BY <1>0, <2>1, <2>2, <2>3, OthersTook DEF Stages
  <1>2. CASE o # Main
    <2>1. /\ o \in Item /\ UNCHANGED <<pc, outcome>> /\ request'[Main] = request[Main]
          /\ request'[o] = "none"
      BY <1>0, <1>2 DEF CallFails, Callers
    <2>2. at'[o] = "send" /\ err'[o] = e
      BY <1>2, <2>1 DEF CallFails, Fail, Inv, FanInv, FanOutTypeOK
    <2>3. \A m \in Item \ {o} :
            at'[m] = at[m] /\ err'[m] = err[m] /\ request'[m] = request[m]
      BY <1>0, <1>2 DEF CallFails, Fail, Inv, FanInv, FanOutTypeOK, Callers
    <2>4. WorkerTook(o)'
      BY <1>0, <2>1, <2>2 DEF WorkerTook, Inv, Stages, Reading
    <2>5. \A m \in Item \ {o} : WorkerTook(m)'
      BY <1>0, <2>3, OthersTook
    <2> QED
      BY <1>0, <2>1, <2>4, <2>5, MainStays DEF Stages
  <1> QED
    BY <1>1, <1>2

LEMMA ReserveTakes ==
  ASSUME Inv, NEW o \in Callers, Reserve(o)
  PROVE  Stages'
  <1> USE ThrottleAssumption
  <1> DEFINE c == ClientOf(CallOf(o))
  <1>1. /\ c \in Clients
        /\ takers' = [takers EXCEPT ![c] = takers[c] \cup {o}]
        /\ request' = [request EXCEPT ![o] = "waiting"]
        /\ UNCHANGED <<fanVars, command>>
    BY ReserveTypes
  <1>2. takers \in [Clients -> SUBSET Callers] /\ Main \in Callers /\ Item \subseteq Callers
    BY DEF Inv, TypeOK, Callers
  <1>3. UNCHANGED <<command, pc, outcome, at, err>>
    BY <1>1 DEF fanVars, workVars
  <1>4. \A m \in Callers \ {o} :
          /\ request'[m] = request[m]
          /\ \A d \in Clients : m \in takers'[d] <=> m \in takers[d]
    BY <1>1, <1>2 DEF Inv, TypeOK
  <1>5. /\ request'[o] = "waiting" /\ o \in takers'[c]
        /\ \A d \in Clients \ {c} : o \in takers'[d] <=> o \in takers[d]
    BY <1>1, <1>2 DEF Inv, TypeOK
  <1>6. "api" \in Clients /\ "metrics" \in Clients
    BY DEF Clients
  <1>7. CASE o = Main
    <2>1. c = ClientOf(pc) /\ pc \in Listing
      BY <1>7 DEF CallOf, Calling, Reserve
    <2> HIDE DEF c
    <2>2. MainTook'
      BY <1>3, <1>5, <1>6, <1>7, <2>1
         DEF MainTook, Inv, Stages, ClientOf, Listing, FanInv, Phases
    <2>3. \A m \in Item : WorkerTook(m)'
      BY <1>2, <1>3, <1>4, <1>7, OthersTook
    <2> QED
      BY <2>2, <2>3 DEF Stages
  <1>8. CASE o # Main
    <2>1. c = ClientOf(at[o]) /\ at[o] \in Reading /\ o \in Item
      BY <1>8 DEF CallOf, Calling, Reserve, Callers
    <2> HIDE DEF c
    <2>2. WorkerTook(o)'
      BY <1>3, <1>5, <1>6, <2>1 DEF WorkerTook, Inv, Stages, ClientOf, Reading
    <2>3. \A m \in Item \ {o} : WorkerTook(m)'
      BY <1>2, <1>3, <1>4, OthersTook
    <2>4. MainTook'
      BY <1>2, <1>3, <1>4, <1>8, MainStays
    <2> QED
      BY <2>2, <2>3, <2>4 DEF Stages
  <1> QED
    BY <1>7, <1>8

LEMMA StagesKept ==
  ASSUME Inv, [Next]_vars
  PROVE  Stages'
  <1>1. ASSUME NEW o \in Callers, Refuse(o) \/ GiveUp(o)
        PROVE  Stages'
    BY <1>1, FailsHow, FailureTakes
  <1>2. ASSUME NEW o \in Callers, Go(o)
        PROVE  Stages'
    <2>1. /\ UNCHANGED <<command, pc, outcome, at, err, takers>>
          /\ request' = [request EXCEPT ![o] = "sent"] /\ request[o] = "waiting"
      BY <1>2 DEF Go, fanVars, workVars
    <2>2. Main \in Callers /\ Item \subseteq Callers
      BY DEF Callers
    <2>3. \A m \in Callers : request'[m] = "none" <=> request[m] = "none"
      BY <2>1 DEF Inv, TypeOK
    <2>4. MainTook'
      BY <2>1, <2>2, <2>3 DEF MainTook, Inv, Stages, ClientOf
    <2>5. \A n \in Item : WorkerTook(n)'
      BY <2>1, <2>2, <2>3 DEF WorkerTook, Inv, Stages, ClientOf
    <2> QED
      BY <2>4, <2>5 DEF Stages
  <1>3. CASE Collecting \/ TimerFires \/ Tick \/ UNCHANGED vars
    <2>1. UNCHANGED <<command, at, err, request, takers>>
      BY <1>3 DEF Collecting, TimerFires, Collect, CollectDone, CollectResult, Rebuild,
         ReturnResources, Exit, Deadline, Tick, vars, fanVars, limitVars, workVars
    <2>2. /\ pc' = pc \/ pc' \in {"returned", "exited"}
          /\ outcome' = "rows" => outcome = "rows" \/ pc = "collect"
      BY <1>3 DEF Collecting, TimerFires, Collect, CollectDone, CollectResult, Rebuild,
         ReturnResources, Exit, Deadline, Return, Tick, vars, fanVars, workVars
    <2>3. MainTook'
      BY <2>1, <2>2, MainStays DEF Listing
    <2> QED
      BY <2>1, <2>3, OthersTook DEF Stages
  <1>4. ASSUME NEW n \in Item, WorkerRuns(n) \/ WorkerAnswered(n)
        PROVE  Stages'
    BY <1>4, WorkerTakes
  <1> QED
    BY <1>1, <1>2, <1>3, <1>4, MainAnsweredTakes, ReserveTakes DEF Next

-----------------------------------------------------------------------------
(* The books of a limiter.                                                 *)

LEMMA FinitelyMany ==
  ASSUME TypeOK, NEW c \in Clients
  PROVE  /\ IsFiniteSet(Callers)
         /\ IsFiniteSet(takers[c]) /\ Cardinality(takers[c]) \in Nat
         /\ tokens[c] \in Int /\ tokens[c] <= Burst
         /\ now \in Nat /\ now <= Limit /\ Burst \in Nat /\ Limit \in Nat
         /\ \A o \in Callers : due[o] \in Nat
  <1>1. IsFiniteSet(Callers)
    BY FanOutAssumption, FS_AddElement DEF Callers
  <1>2. takers[c] \subseteq Callers
    BY DEF TypeOK
  <1>3. IsFiniteSet(takers[c]) /\ Cardinality(takers[c]) \in Nat
    BY <1>1, <1>2, FS_Subset, FS_CardinalityType
  <1> QED
    BY <1>1, <1>3, ThrottleAssumption DEF TypeOK

\* No new request waits, those that do go on while the context is live, and the
\* limiters are left alone.
LEMMA BalanceStays ==
  ASSUME TypeOK, NEW c \in Clients, Balanced(c),
         Waiting(c)' \subseteq Waiting(c), UNCHANGED <<now, tokens, due, takers>>,
         ctx' = "live" => ctx = "live" /\ Waiting(c) \subseteq Waiting(c)'
  PROVE  Balanced(c)'
  BY DEF Balanced

\* A caller that asks for a token has not had one of that client.
Entitled(c) == (IF command = "node" \/ c = "api" THEN NameSet ELSE {})
                 \cup (IF command = "node" \/ c = "metrics" THEN {Main} ELSE {})

LEMMA FirstToken ==
  ASSUME Inv, NEW o \in Callers, Calling(o), request[o] = "none"
  PROVE  LET c == ClientOf(CallOf(o))
         IN  o \in Entitled(c) /\ o \notin takers[c]
  <1> USE ThrottleAssumption
  <1>1. CASE o = Main
    BY <1>1 DEF Inv, Stages, MainTook, Calling, CallOf, ClientOf, Entitled, Listing, TypeOK
  <1>2. CASE o # Main
    <2>1. o \in Item /\ at[o] \in Reading /\ o \in NameSet /\ command \in {"node", "pod"}
      BY <1>2 DEF Callers, Calling, Inv, FanInv, Workers, WorkerOK, Reading, TypeOK
    <2> QED
      BY <1>2, <2>1 DEF Inv, Stages, WorkerTook, CallOf, ClientOf, Entitled, Reading
  <1> QED
    BY <1>1, <1>2

LEMMA AllEntitled ==
  ASSUME Inv, NEW c \in Clients
  PROVE  /\ IsFiniteSet(Entitled(c))
         /\ Cardinality(Entitled(c)) = Needed(c, names)
         /\ takers[c] \subseteq Entitled(c)
         /\ Needed(c, names) \in Nat
  <1> USE ThrottleAssumption
  <1>1. /\ IsFiniteSet(NameSet) /\ Cardinality(NameSet) = Len(names) /\ Len(names) \in Nat
        /\ Main \notin NameSet
    BY NamesCounted, LengthsNat DEF Inv, FanInv
  <1>2. c \in {"api", "metrics"} /\ command \in {"node", "pod"}
    BY DEF Clients, Inv, TypeOK
  <1>3. takers[c] \subseteq Entitled(c)
    <2>1. \A n \in Item : n \in takers[c] =>
            n \in NameSet /\ (command = "node" \/ c = "api")
      BY <1>2 DEF Inv, Stages, WorkerTook, FanInv, Workers, WorkerOK
    <2>2. Main \in takers[c] => command = "node" \/ c = "metrics"
      BY <1>2 DEF Inv, Stages, MainTook
    <2>3. takers[c] \subseteq Item \cup {Main}
      BY DEF Inv, TypeOK, Callers
    <2> QED
      BY <2>1, <2>2, <2>3 DEF Entitled
  <1>4. CASE command = "node"
    <2>1. Entitled(c) = NameSet \cup {Main}
      BY <1>4 DEF Entitled
    <2>2. IsFiniteSet(Entitled(c)) /\ Cardinality(Entitled(c)) = Len(names) + 1
      BY <1>1, <2>1, FS_AddElement
    <2> QED
      BY <1>1, <1>3, <1>4, <2>2 DEF Needed
  <1>5. CASE command = "pod" /\ c = "api"
    <2>1. Entitled(c) = NameSet
      BY <1>5 DEF Entitled
    <2> QED
      BY <1>1, <1>3, <1>5, <2>1 DEF Needed
  <1>6. CASE command = "pod" /\ c = "metrics"
    <2>1. Entitled(c) = {Main}
      BY <1>6 DEF Entitled
    <2>2. IsFiniteSet({Main}) /\ Cardinality({Main}) = 1
      BY FS_Singleton, Zenon
    <2>3. Needed(c, names) = 1
      BY <1>6 DEF Needed
    <2> QED
      BY <1>3, <2>1, <2>2, <2>3
  <1> QED
    BY <1>2, <1>4, <1>5, <1>6

LEMMA ReserveBalances ==
  ASSUME Inv, NEW o \in Callers, Reserve(o), NEW c \in Clients
  PROVE  Balanced(c)'
  <1> DEFINE mine == ClientOf(CallOf(o))
             left == tokens[mine] - 1
             time == TokenTime(left)
  <1>0. Balanced(c) /\ TypeOK
    BY DEF Inv
  <1>1. /\ mine \in Clients /\ left \in Int /\ time \in 0..Limit
        /\ tokens' = [tokens EXCEPT ![mine] = left]
        /\ due' = [due EXCEPT ![o] = time]
        /\ takers' = [takers EXCEPT ![mine] = takers[mine] \cup {o}]
        /\ request' = [request EXCEPT ![o] = "waiting"]
        /\ UNCHANGED <<now, pc, at, ctx>>
    BY ReserveTypes DEF fanVars, workVars
  <1>2. request[o] = "none" /\ o \notin takers[mine]
    BY FirstToken DEF Reserve
  <1>3. \A m \in Callers : CallOf(m)' = CallOf(m) /\ ClientOf(CallOf(m))' = ClientOf(CallOf(m))
    BY <1>1 DEF CallOf, ClientOf
  <1>4. \A m \in Callers \ {o} : request'[m] = request[m] /\ due'[m] = due[m]
    BY <1>0, <1>1 DEF TypeOK
  <1>5. request'[o] = "waiting" /\ due'[o] = time
    BY <1>0, <1>1 DEF TypeOK
  <1>6. CASE c # mine
    <2> HIDE DEF mine, left, time
    <2>1. ClientOf(CallOf(o)) # c
      BY <1>6 DEF mine
    <2>2. /\ Waiting(c)' = Waiting(c) /\ o \notin Waiting(c)
          /\ tokens'[c] = tokens[c] /\ takers'[c] = takers[c]
      BY <1>0, <1>1, <1>3, <1>4, <1>6, <2>1 DEF Waiting, TypeOK
    <2>3. \A m \in Waiting(c) : due'[m] = due[m]
      BY <1>4, <2>2 DEF Waiting
    <2> QED
      BY <1>0, <1>1, <2>2, <2>3 DEF Balanced
  <1>7. CASE c = mine
    <2>1. /\ tokens'[c] = tokens[c] - 1 /\ takers'[c] = takers[c] \cup {o}
          /\ o \notin takers[c]
      BY <1>0, <1>1, <1>2, <1>7 DEF TypeOK
    <2>2. time = IF tokens[c] - 1 < 0 THEN now - (tokens[c] - 1) ELSE now
      BY <1>7 DEF TokenTime
    <2>3. Waiting(c)' = Waiting(c) \cup {o} /\ o \notin Waiting(c)
      BY <1>2, <1>3, <1>4, <1>5, <1>7 DEF Waiting
    <2>4. time <= Limit
      BY <1>1, ThrottleAssumption
    <2> HIDE DEF mine, left, time
    <2>5. Cardinality(takers'[c]) = Cardinality(takers[c]) + 1
      BY <1>0, <2>1, FinitelyMany, FS_AddElement
    <2>6. \A m \in Waiting(c) : m \in Callers /\ m # o /\ due'[m] = due[m]
      BY <1>4, <2>3 DEF Waiting
    <2>7. /\ tokens'[c] + Cardinality(takers'[c]) <= Burst + now
          /\ Burst <= tokens'[c] + Cardinality(takers'[c])
          /\ now - Limit <= tokens'[c]
      BY <1>0, <2>1, <2>2, <2>4, <2>5, FinitelyMany DEF Balanced
    <2>8. \A m \in Waiting(c)' : due'[m] <= now \/ due'[m] <= now - tokens'[c]
      BY <1>0, <1>5, <2>1, <2>2, <2>3, <2>6, FinitelyMany DEF Balanced
    <2>9. tokens'[c] < 0 => due'[o] = now - tokens'[c]
      BY <1>5, <2>1, <2>2
    <2> QED
      BY <1>1, <2>3, <2>7, <2>8, <2>9 DEF Balanced
  <1> QED
    BY <1>6, <1>7

LEMMA GoBalances ==
  ASSUME Inv, NEW o \in Callers, Go(o), NEW c \in Clients
  PROVE  Balanced(c)'
  <1>0. Balanced(c) /\ TypeOK
    BY DEF Inv
  <1>1. /\ due[o] <= now
        /\ request' = [request EXCEPT ![o] = "sent"]
        /\ UNCHANGED <<now, tokens, due, takers, pc, at, ctx>>
    BY DEF Go, HasToken, fanVars, workVars
  <1>2. \A m \in Callers : ClientOf(CallOf(m))' = ClientOf(CallOf(m))
    BY <1>1 DEF CallOf, ClientOf
  <1>3. /\ \A m \in Callers \ {o} : request'[m] = request[m]
        /\ request'[o] = "sent"
    BY <1>0, <1>1 DEF TypeOK
  <1>4. Waiting(c)' = Waiting(c) \ {o}
    BY <1>2, <1>3 DEF Waiting
  <1>5. ASSUME ctx = "live", tokens[c] < 0
        PROVE  \E m \in Waiting(c)' : due[m] = now - tokens[c]
    <2>1. PICK m \in Waiting(c) : due[m] = now - tokens[c]
      BY <1>0, <1>5 DEF Balanced
    <2>2. m # o
      BY <1>0, <1>1, <1>5, <2>1, FinitelyMany
    <2> QED
      BY <1>4, <2>1, <2>2
  <1> QED
    BY <1>0, <1>1, <1>4, <1>5 DEF Balanced

LEMMA TickBalances ==
  ASSUME Inv, Tick, NEW c \in Clients
  PROVE  Balanced(c)'
  <1>0. Balanced(c) /\ TypeOK
    BY DEF Inv
  <1>1. /\ now < Limit /\ now' = now + 1 /\ tokens'[c] = Refill(tokens[c])
        /\ UNCHANGED <<request, due, takers, pc, at, ctx>>
    BY DEF Tick, fanVars, workVars
  <1>2. Waiting(c)' = Waiting(c)
    BY <1>1 DEF Waiting, CallOf, ClientOf
  <1>3. tokens'[c] = IF tokens[c] < Burst THEN tokens[c] + 1 ELSE tokens[c]
    BY <1>1 DEF Refill
  <1>4. \A m \in Waiting(c) : due[m] \in Nat
    BY <1>0, FinitelyMany DEF Waiting
  <1>5. /\ tokens'[c] + Cardinality(takers'[c]) <= Burst + now'
        /\ Burst <= tokens'[c] + Cardinality(takers'[c])
        /\ now' - Limit <= tokens'[c]
    <2>1. takers'[c] = takers[c] /\ Cardinality(takers[c]) \in Nat /\ tokens[c] \in Int
          /\ tokens[c] <= Burst /\ now \in Nat /\ now <= Limit /\ Burst \in Nat /\ Limit \in Nat
      BY <1>0, <1>1, FinitelyMany
    <2>2. /\ tokens[c] + Cardinality(takers[c]) <= Burst + now
          /\ Burst <= tokens[c] + Cardinality(takers[c])
          /\ now - Limit <= tokens[c]
      BY <1>0 DEF Balanced
    <2> QED
      BY <1>1, <1>3, <2>1, <2>2
  <1>6. \A m \in Waiting(c)' : due'[m] <= now' \/ due'[m] <= now' - tokens'[c]
    BY <1>0, <1>1, <1>2, <1>3, <1>4, FinitelyMany DEF Balanced
  <1>7. ASSUME ctx = "live", tokens'[c] < 0
        PROVE  \E m \in Waiting(c)' : due'[m] = now' - tokens'[c]
    <2>1. tokens[c] < 0 /\ now' - tokens'[c] = now - tokens[c]
      BY <1>0, <1>1, <1>3, <1>7, FinitelyMany, ThrottleAssumption
    <2> QED
      BY <1>0, <1>1, <1>2, <1>7, <2>1 DEF Balanced
  <1> QED
    BY <1>1, <1>5, <1>6, <1>7 DEF Balanced

\* While the context is live, a request that waits goes on waiting.
LEMMA WaitsOn ==
  ASSUME Inv, Elsewhere \/ UNCHANGED vars, ctx' = "live"
  PROVE  ctx = "live" /\ \A o \in Callers : request[o] = "waiting" => request'[o] = "waiting"
  <1> USE DEF Inv, TypeOK
  <1>1. CASE MainAnswered \/ (\E n \in Item : WorkerAnswered(n))
    BY <1>1 DEF MainAnswered, WorkerAnswered
  <1>2. CASE Collecting \/ TimerFires \/ UNCHANGED vars
    BY <1>2 DEF Collecting, TimerFires, Collect, CollectDone, CollectResult, Rebuild,
       ReturnResources, Exit, Deadline, vars, fanVars, limitVars
  <1>3. ASSUME NEW n \in Item, WorkerRuns(n)
        PROVE  UNCHANGED <<ctx, request>>
    BY <1>3 DEF WorkerRuns, Begin, AddType, Send, limitVars
  <1>4. ASSUME NEW o \in Callers, Refuse(o) \/ GiveUp(o)
        PROVE  /\ ctx' = ctx /\ (ctx = "live" => request[o] = "none")
               /\ request' = [request EXCEPT ![o] = "none"]
    BY <1>4 DEF Refuse, GiveUp, CallFails
  <1> QED
    BY <1>1, <1>2, <1>3, <1>4 DEF Elsewhere

LEMMA BalanceKept ==
  ASSUME Inv, [Next]_vars, NEW c \in Clients
  PROVE  Balanced(c)'
  <1>1. CASE Elsewhere \/ UNCHANGED vars
    <2>1. Waiting(c)' \subseteq Waiting(c)
      <3> SUFFICES ASSUME NEW o \in Callers, request'[o] = "waiting",
                          ClientOf(CallOf(o))' = c
                   PROVE  o \in Waiting(c)
        BY DEF Waiting
      <3>1. request[o] = "waiting" /\ CallOf(o)' = CallOf(o)
        BY <1>1, RequestsEnd
      <3>2. ClientOf(CallOf(o))' = ClientOf(CallOf(o))
        BY <3>1 DEF ClientOf
      <3> QED
        BY <3>1, <3>2 DEF Waiting
    <2>2. ASSUME ctx' = "live"
          PROVE  ctx = "live" /\ Waiting(c) \subseteq Waiting(c)'
      <3>1. ctx = "live" /\ \A o \in Callers : request[o] = "waiting" => request'[o] = "waiting"
        BY <1>1, <2>2, WaitsOn
      <3>2. \A o \in Callers : request'[o] = "waiting" => ClientOf(CallOf(o))' = ClientOf(CallOf(o))
        BY <1>1, RequestsEnd DEF ClientOf
      <3> QED
        BY <3>1, <3>2 DEF Waiting
    <2> QED
      BY <1>1, <2>1, <2>2, LimitersUntouched, BalanceStays DEF Inv
  <1> QED
    BY <1>1, ReserveBalances, GoBalances, TickBalances DEF Next, Elsewhere

-----------------------------------------------------------------------------
(* Errors of the limiter.                                                  *)

\* While there are tokens for all, none is refused.
LEMMA NoRefusal ==
  ASSUME Inv, FewEnough, NEW o \in Callers, Calling(o), request[o] = "none"
  PROVE  TokenTime(tokens[ClientOf(CallOf(o))] - 1) = now
  <1> DEFINE c == ClientOf(CallOf(o))
  <1>1. c \in Clients
    BY DEF ClientOf, Clients
  <1>2. o \in Entitled(c) /\ o \notin takers[c]
    BY FirstToken
  <1> HIDE DEF c
  <1>3. /\ takers[c] \cup {o} \subseteq Entitled(c) /\ IsFiniteSet(Entitled(c))
        /\ Cardinality(Entitled(c)) = Needed(c, names) /\ Needed(c, names) \in Nat
    BY <1>1, <1>2, AllEntitled
  <1>4. Cardinality(takers[c]) + 1 <= Needed(c, names)
    <2>1. Cardinality(takers[c] \cup {o}) = Cardinality(takers[c]) + 1
      BY <1>1, <1>2, FinitelyMany, FS_AddElement DEF Inv
    <2>2. Cardinality(takers[c] \cup {o}) <= Cardinality(Entitled(c))
      BY <1>3, FS_Subset
    <2> QED
      BY <1>3, <2>1, <2>2
  <1>5. Needed(c, names) <= Burst /\ Burst <= tokens[c] + Cardinality(takers[c])
    BY <1>1 DEF FewEnough, Inv, Balanced
  <1>6. ~(tokens[c] - 1 < 0)
    BY <1>1, <1>3, <1>4, <1>5, FinitelyMany DEF Inv
  <1> QED
    BY <1>6 DEF TokenTime, c

LEMMA NoFaultKept ==
  ASSUME Inv, [Next]_vars
  PROVE  (FewEnough \/ pc \in Listing => ~fault)'
  <1>1. CASE UNCHANGED fault /\ UNCHANGED <<command, names>> /\ (pc' \in Listing => pc \in Listing)
    BY <1>1 DEF Inv, FewEnough, Needed
  <1>2. CASE MainAnswered
    BY <1>2 DEF MainAnswered, Inv
  <1>3. ASSUME NEW o \in Callers, Refuse(o) \/ GiveUp(o)
        PROVE  (FewEnough \/ pc \in Listing => ~fault)'
    <2>1. PICK e \in CallErrors : Calling(o) /\ CallFails(o, e) /\ (e = "api" => Refuse(o))
      BY <1>3, FailsHow
    <2>2. UNCHANGED <<command, names>> /\ NoteFault(e) /\ pc' \notin Listing
      <3>1. CASE o = Main
        BY <2>1, <3>1 DEF CallFails, Return, Listing
      <3>2. CASE o # Main
        <4>1. pc \notin Listing
          BY <2>1, <3>2 DEF Calling, Callers, Inv, FanInv, NotYet, Reading
        <4> QED
          BY <2>1, <3>2, <4>1 DEF CallFails
      <3> QED
        BY <3>1, <3>2
    <2>3. ASSUME FewEnough PROVE e # "api" /\ ~fault
      <3>1. ~Refuse(o)
        <4>1. now <= Limit
          BY ThrottleAssumption DEF Inv, TypeOK
        <4>2. Refuse(o) => Calling(o) /\ request[o] = "none"
                             /\ TokenTime(tokens[ClientOf(CallOf(o))] - 1) > Limit
          BY DEF Refuse
        <4>3. now \in Nat /\ Limit \in Nat
          BY ThrottleAssumption DEF Inv, TypeOK
        <4> QED
          BY <2>3, <4>1, <4>2, <4>3, NoRefusal
      <3> QED
        BY <2>1, <2>3, <3>1 DEF Inv
    <2>4. FewEnough' => FewEnough
      BY <2>2 DEF FewEnough, Needed
    <2> QED
      BY <2>2, <2>3, <2>4 DEF NoteFault
  <1>4. CASE Collecting \/ TimerFires \/ Tick \/ UNCHANGED vars
    <2>1. UNCHANGED <<fault, command, names>> /\ (pc' \in Listing => pc \in Listing)
      BY <1>4 DEF Collecting, TimerFires, Collect, CollectDone, CollectResult, Rebuild,
         ReturnResources, Exit, Return, Deadline, Tick, vars, fanVars, limitVars, Listing
    <2> QED
      BY <1>1, <2>1
  <1>5. ASSUME NEW o \in Callers, Reserve(o) \/ Go(o)
        PROVE  UNCHANGED <<fault, command, names, pc>>
    BY <1>5 DEF Reserve, Go, fanVars
  <1>6. ASSUME NEW n \in Item, WorkerRuns(n) \/ WorkerAnswered(n)
        PROVE  UNCHANGED <<fault, command, names, pc>>
    BY <1>6 DEF WorkerRuns, Begin, AddType, Send, WorkerAnswered, limitVars
  <1> QED
    BY <1>1, <1>2, <1>3, <1>4, <1>5, <1>6 DEF Next

\* The lists come first, and find their limiter untouched.
LEMMA ListsNotRefused ==
  ASSUME Inv
  PROVE  ~Refuse(Main)
  <1> SUFFICES ASSUME Refuse(Main) PROVE FALSE
    OBVIOUS
  <1> DEFINE c == ClientOf(pc)
  <1>1. /\ pc \in Listing /\ request[Main] = "none" /\ c \in Clients
        /\ TokenTime(tokens[c] - 1) > Limit
    BY DEF Refuse, Calling, CallOf, ClientOf, Clients
  <1>2. takers[c] = {}
    <2>1. \A n \in Item : n \notin takers[c]
      BY <1>1 DEF Inv, FanInv, NotYet, Stages, WorkerTook
    <2>2. Main \notin takers[c]
      BY <1>1 DEF Inv, Stages, MainTook
    <2> QED
      BY <1>1, <2>1, <2>2 DEF Inv, TypeOK, Callers
  <1> HIDE DEF c
  <1>3. Burst <= tokens[c]
    BY <1>1, <1>2, FS_EmptySet, FinitelyMany DEF Inv, Balanced
  <1> QED
    BY <1>1, <1>3, FinitelyMany, ThrottleAssumption DEF Inv, TokenTime

\* A limiter that refuses has promised the last token before the deadline.
LEMMA LastPromised ==
  ASSUME Inv, NEW o \in Callers, Refuse(o)
  PROVE  \/ now = Limit
         \/ \E w \in Callers : w # o /\ request[w] = "waiting" /\ due[w] = Limit
  <1> DEFINE c == ClientOf(CallOf(o))
  <1>1. /\ request[o] = "none" /\ ctx = "live" /\ c \in Clients
        /\ TokenTime(tokens[c] - 1) > Limit
    BY DEF Refuse, ClientOf, Clients
  <1> HIDE DEF c
  <1>2. now - Limit <= tokens[c]
    BY <1>1 DEF Inv, Balanced
  <1>3. tokens[c] = now - Limit
    BY <1>1, <1>2, FinitelyMany DEF Inv, TokenTime
  <1>4. CASE now # Limit
    <2>1. tokens[c] < 0 /\ now - tokens[c] = Limit
      BY <1>1, <1>3, <1>4, FinitelyMany DEF Inv
    <2>2. PICK w \in Waiting(c) : due[w] = Limit
      BY <1>1, <2>1 DEF Inv, Balanced
    <2> QED
      BY <1>1, <2>2 DEF Waiting
  <1> QED
    BY <1>4

\* When the call returns the first error, nobody waits for a token any more.
LEMMA ErrorReturnedLate ==
  ASSUME Inv, ReturnResources, outcome' = "api"
  PROVE  now = Limit
  <1>1. pc = "collect" /\ ~(i < Len(names)) /\ firstError = "api"
    BY DEF ReturnResources, MoreAnswers, Return, Verdict
  <1>2. fault /\ ctx \in {"live", "deadline"}
    BY <1>1 DEF Inv, FanInv, ErrorsGenuine, Genuine, Phases, FanOutTypeOK, CtxErrors
  <1>3. i = Len(names)
    BY <1>1, LengthsNat DEF Inv, FanInv, FanOutTypeOK
  <1>4. NameSet = DoneSet
    BY <1>3, AllCollected DEF Inv
  <1>5. \A o \in Callers : request[o] # "waiting"
    <2> SUFFICES ASSUME NEW o \in Callers, request[o] = "waiting" PROVE FALSE
      OBVIOUS
    <2>1. Calling(o)
      BY DEF Inv, Calls
    <2>2. o # Main
      BY <1>1, <2>1 DEF Calling, Listing
    <2>3. o \in Item /\ at[o] \in Reading
      BY <2>1, <2>2 DEF Calling, Callers
    <2>4. o \in NameSet
      BY <2>3 DEF Inv, FanInv, Workers, WorkerOK, Reading
    <2> QED
      BY <1>4, <2>3, <2>4 DEF DoneSet, Reading
  <1> QED
    BY <1>2, <1>5 DEF Inv, RefusedLate

LEMMA RefusedLateKept ==
  ASSUME Inv, [Next]_vars
  PROVE  RefusedLate'
  <1> USE DEF Inv, TypeOK
  <1>1. ASSUME UNCHANGED <<now, due, fault, ctx>>, outcome' = "api" => outcome = "api",
               ctx = "live" => \A o \in Callers : request[o] = "waiting" => request'[o] = "waiting"
        PROVE  RefusedLate'
    BY <1>1 DEF RefusedLate
  <1>2. CASE MainAnswered \/ (\E n \in Item : WorkerRuns(n) \/ WorkerAnswered(n))
    <2>1. UNCHANGED <<now, due, fault, ctx, outcome>>
      BY <1>2 DEF MainAnswered, StartAll, WorkerRuns, Begin, AddType, Send, WorkerAnswered,
                  limitVars
    <2> QED
      BY <1>1, <1>2, <2>1, WaitsOn DEF Elsewhere
  <1>3. ASSUME NEW o \in Callers, Refuse(o)
        PROVE  RefusedLate'
    <2>1. o # Main
      BY <1>3, ListsNotRefused
    <2>2. /\ request' = [request EXCEPT ![o] = "none"]
          /\ UNCHANGED <<ctx, outcome, now, due>>
      BY <1>3, <2>1 DEF Refuse, CallFails
    <2>3. \/ now = Limit
          \/ \E w \in Callers : request'[w] = "waiting" /\ due[w] = Limit
      BY <1>3, <2>2, LastPromised
    <2> QED
      BY <2>2, <2>3 DEF RefusedLate
  <1>4. ASSUME NEW o \in Callers, GiveUp(o)
        PROVE  RefusedLate'
    <2>1. /\ ctx # "live" /\ ctx # "api" /\ CallFails(o, ctx)
          /\ UNCHANGED <<ctx, now, due>>
      BY <1>4 DEF GiveUp, CallFails, FanInv, FanOutTypeOK, CtxErrors
    <2>2. outcome' = "api" => outcome = "api"
      BY <2>1 DEF CallFails, Return
    <2> QED
      BY <2>1, <2>2 DEF RefusedLate
  <1>5. ASSUME NEW o \in Callers, Reserve(o)
        PROVE  RefusedLate'
    <2>1. /\ UNCHANGED <<now, fault, ctx, outcome>> /\ request[o] = "none"
          /\ request' = [request EXCEPT ![o] = "waiting"]
          /\ \A w \in Callers \ {o} : due'[w] = due[w]
      BY <1>5 DEF Reserve, fanVars
    <2> QED
      BY <2>1 DEF RefusedLate
  <1>6. ASSUME NEW o \in Callers, Go(o)
        PROVE  RefusedLate'
    <2>1. /\ UNCHANGED <<now, fault, ctx, outcome, due>> /\ due[o] <= now
          /\ request' = [request EXCEPT ![o] = "sent"]
      BY <1>6 DEF Go, HasToken, fanVars
    <2>2. due[o] = Limit => now = Limit
      BY <2>1, ThrottleAssumption
    <2> QED
      BY <2>1, <2>2 DEF RefusedLate
  <1>7. CASE Tick
    <2>1. now # Limit /\ UNCHANGED <<fault, ctx, outcome, due, request>>
      BY <1>7, ThrottleAssumption DEF Tick, fanVars
    <2> QED
      BY <2>1 DEF RefusedLate
  <1>8. CASE TimerFires
    <2>1. now = Limit /\ now' = now
      BY <1>8 DEF TimerFires, limitVars
    <2> QED
      BY <2>1 DEF RefusedLate
  <1>9. CASE Collecting
    <2>1. UNCHANGED <<now, due, request, fault>>
      BY <1>9 DEF Collecting, limitVars, Collect, CollectDone, CollectResult, Rebuild,
                  ReturnResources, Exit
    <2>2. \/ ctx' = ctx
          \/ ctx' = "canceled" /\ outcome' = outcome
      BY <1>9 DEF Collecting, Collect, CollectDone, CollectResult, Rebuild, ReturnResources, Exit
    <2>3. outcome' = "api" => outcome = "api" \/ now = Limit
      <3>1. CASE ReturnResources
        BY <3>1, ErrorReturnedLate
      <3>2. CASE CollectDone
        BY <3>2 DEF CollectDone, Return, FanInv, FanOutTypeOK, CtxErrors
      <3>3. CASE CollectResult \/ Rebuild \/ Exit
        BY <3>3 DEF CollectResult, Rebuild, Exit
      <3> QED
        BY <1>9, <3>1, <3>2, <3>3 DEF Collecting, Collect
    <2> QED
      BY <2>1, <2>2, <2>3 DEF RefusedLate
  <1>10. CASE UNCHANGED vars
    BY <1>1, <1>10 DEF vars, fanVars, limitVars
  <1> QED
    BY <1>2, <1>3, <1>4, <1>5, <1>6, <1>7, <1>8, <1>9, <1>10 DEF Next

LEMMA NextInv == Inv /\ [Next]_vars => Inv'
  <1> SUFFICES ASSUME Inv, [Next]_vars PROVE Inv'
    OBVIOUS
  <1>1. FanInv'
    BY StepMapped, FanNextInv DEF Inv
  <1>2. TypeOK'
    BY <1>1, TypesKept DEF FanInv
  <1> QED
    BY <1>1, <1>2, CallsKept, StagesKept, BalanceKept, NoFaultKept,
       RefusedLateKept DEF Inv

LEMMA InitInv == Init => Inv
  <1> SUFFICES ASSUME Init PROVE Inv
    OBVIOUS
  <1> USE ThrottleAssumption
  <1> DEFINE empty == [n \in Item |-> [name |-> n, types |-> 0]]
  <1>1. empty \in [Item -> Row] /\ \A n \in Item : empty[n].name = n /\ empty[n].types = 0
    BY FanOutAssumption DEF Rows
  <1>2. FanOutInit("metrics", empty) /\ "metrics" \in Listing
    BY DEF Init, Listing
  <1>3. /\ pc = "metrics" /\ outcome = "none" /\ fault = FALSE
        /\ \A n \in Item : at[n] = "idle" /\ err[n] = "nil"
    BY <1>2 DEF FanOutInit
  <1> HIDE DEF empty
  <1>4. FanInv
    BY <1>1, <1>2, FanInitInv
  <1>5. /\ command \in Commands /\ now = 0
        /\ \A c \in Clients : tokens[c] = Burst /\ takers[c] = {}
        /\ \A o \in Callers : request[o] = "none" /\ due[o] = 0
        /\ DOMAIN tokens = Clients
    BY DEF Init
  <1>6. TypeOK
    BY <1>4 DEF Init, TypeOK, FanInv
  <1>7. Calls
    BY <1>5 DEF Calls
  <1>8. Main \in Callers /\ Item \subseteq Callers
    BY DEF Callers
  <1>9. Stages
    BY <1>3, <1>5, <1>8 DEF Stages, MainTook, WorkerTook, ClientOf, Clients, Listing, Reading
  <1>10. ASSUME NEW c \in Clients
         PROVE  Balanced(c)
    <2>1. Waiting(c) = {}
      BY <1>5 DEF Waiting
    <2>2. Cardinality(takers[c]) = 0
      BY <1>5, FS_EmptySet
    <2>3. tokens[c] = Burst /\ ~(tokens[c] < 0) /\ now = 0 /\ now - Limit <= tokens[c]
      BY <1>5
    <2>4. tokens[c] + Cardinality(takers[c]) = Burst
      BY <2>2, <2>3
    <2> QED
      BY <2>1, <2>3, <2>4 DEF Balanced
  <1>11. RefusedLate
    BY <1>2, <1>3 DEF RefusedLate, FanOutInit
  <1> QED
    BY <1>3, <1>4, <1>6, <1>7, <1>9, <1>10, <1>11 DEF Inv

-----------------------------------------------------------------------------
(* What holds of the limits.                                               *)

(* Inv is an inductive invariant.                                          *)
THEOREM Invariance == Spec => []Inv
  BY InitInv, NextInv, PTL DEF Spec

(* Every variable keeps its type: a limiter never holds more than its      *)
(* burst, and no request waits beyond the deadline.                        *)
THEOREM TypeCorrect == Spec => []TypeOK
  <1>1. Inv => TypeOK
    BY DEF Inv
  <1> QED
    BY Invariance, <1>1, PTL

(* A command whose requests to each client fit into the burst is never     *)
(* throttled (kube.go:34-36).                                              *)
THEOREM BurstAlwaysFree == Spec => []BurstIsFree
  <1>1. ASSUME Inv, FewEnough
        PROVE  ~fault /\ \A o \in Callers : request[o] = "waiting" => HasToken(o)
    <2>1. ~fault
      BY <1>1 DEF Inv
    <2>2. ASSUME NEW o \in Callers, request[o] = "waiting"
          PROVE  due[o] <= now
      <3> DEFINE c == ClientOf(CallOf(o))
      <3>1. c \in Clients /\ o \in Waiting(c)
        BY <2>2 DEF ClientOf, Clients, Waiting
      <3> HIDE DEF c
      <3>2. Cardinality(takers[c]) <= Needed(c, names) /\ Needed(c, names) \in Nat
        BY <1>1, <3>1, AllEntitled, FS_Subset
      <3>3. Needed(c, names) <= Burst /\ Burst <= tokens[c] + Cardinality(takers[c])
        BY <1>1, <3>1 DEF FewEnough, Inv, Balanced
      <3>4. tokens[c] >= 0
        BY <1>1, <3>1, <3>2, <3>3, FinitelyMany DEF Inv
      <3>5. due[o] <= now \/ due[o] <= now - tokens[c]
        BY <1>1, <3>1 DEF Inv, Balanced
      <3> QED
        BY <1>1, <3>1, <3>4, <3>5, FinitelyMany DEF Inv
    <2> QED
      BY <2>1, <2>2 DEF HasToken
  <1>2. Inv => BurstIsFree
    BY <1>1 DEF BurstIsFree, FewEnough
  <1> QED
    BY Invariance, <1>2, PTL

(* A table shown is one that the limits allow before the deadline: every   *)
(* goroutine and the lists have had their tokens (kube.go:35-36,           *)
(* resource_node.go:165).                                                  *)
THEOREM TooManyAlwaysFail == Spec => []TooManyNeverSucceed
  <1>1. ASSUME Inv, outcome = "rows", NEW c \in Clients
        PROVE  Needed(c, names) <= Burst + Limit
    <2>1. \A n \in NameSet : n \in Item /\ at[n] = "done" /\ err[n] = "nil"
      BY <1>1, NothingSwallowed, NamesCounted DEF Inv, NoErrorSwallowed, FanInv
    <2>2. c \in {"api", "metrics"} /\ command \in {"node", "pod"}
      BY <1>1, ThrottleAssumption DEF Inv, TypeOK, Clients
    <2>3. Entitled(c) \subseteq takers[c]
      BY <1>1, <2>1, <2>2 DEF Inv, Stages, MainTook, WorkerTook, Entitled
    <2>4. Entitled(c) = takers[c]
      BY <1>1, <2>3, AllEntitled
    <2>5. Cardinality(takers[c]) = Needed(c, names)
      BY <1>1, <2>4, AllEntitled
    <2> QED
      BY <1>1, <2>5, FinitelyMany DEF Inv, Balanced
  <1>2. Inv => TooManyNeverSucceed
    BY <1>1 DEF TooManyNeverSucceed
  <1> QED
    BY Invariance, <1>2, PTL

(* The limits report a refusal at the deadline only: a limiter that refuses *)
(* has promised the last token before it, and the call waits for whoever   *)
(* has the promise (kube.go:35-36, 248-258).                               *)
THEOREM RefusedOnlyLate == Spec => []NeverRefusedEarly
  <1>1. Inv => NeverRefusedEarly
    BY DEF Inv, RefusedLate, NeverRefusedEarly
  <1> QED
    BY Invariance, <1>1, PTL

(* The throttled call implements Gather all the same.                      *)
THEOREM PromiseKept == Spec => KeepsPromise
  <1>1. Init => Inv /\ Promise!Init
    BY InitInv, NothingAsked DEF Init, Listing
  <1>2. Inv /\ [Next]_vars => Inv' /\ [Promise!Next]_Promise!gatherVars
    BY NextInv, StepMapped, PromiseStep DEF Inv
  <1> QED
    BY <1>1, <1>2, PTL DEF Spec, KeepsPromise, Promise!Spec
=============================================================================
