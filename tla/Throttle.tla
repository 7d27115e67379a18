------------------------------ MODULE Throttle ------------------------------
(***************************************************************************)
(* The rate limits of NewClient (pkg/kube/kube.go), under a fan-out: each  *)
(* of the two clients has a token bucket of its own, Burst tokens deep and *)
(* refilled at QPS tokens a second, that every request to it goes through. *)
(* A tick is the time in which one token comes.  The limiter (client-go,   *)
(* golang.org/x/time/rate) makes a request wait for its token, and refuses *)
(* at once one whose token would come after the deadline of its context.   *)
(* Here the server answers every request, so that the only error of a call *)
(* that is not the context's is the refusal of its limiter.                *)
(***************************************************************************)
EXTENDS Integers, FanOut

CONSTANTS
  Commands,    \* which of "node" and "pod" are run
  Burst,       \* config.Burst
  Limit,       \* bound: ticks before the deadline, 30 s * config.QPS
  Main         \* the main goroutine, as a caller

Rows == [name : Item, types : 0..NumTypes]

ASSUME ThrottleAssumption ==
  /\ Commands \subseteq {"node", "pod"}
  /\ Row = Rows
  /\ Burst \in Nat \ {0}
  /\ Limit \in Nat
  /\ Main \notin Item

Clients == {"api", "metrics"}
Callers == Item \cup {Main}

VARIABLES
  command,     \* the command: which calls are made
  now,         \* ticks since the context was made
  tokens,      \* tokens of each limiter; negative when promised in advance
  request,     \* the request of each caller: none yet, waiting, or sent
  due,         \* when the token of a waiting request comes
  takers       \* history: who took a token or the promise of one, by client

limitVars == <<command, now, tokens, request, due, takers>>
vars == <<fanVars, limitVars>>

TypeOK ==
  /\ FanOutTypeOK
  /\ command \in Commands
  /\ now \in 0..Limit
  /\ tokens \in [Clients -> Int] /\ \A c \in Clients : tokens[c] <= Burst
  /\ request \in [Callers -> {"none", "waiting", "sent"}]
  /\ due \in [Callers -> 0..Limit]
  /\ takers \in [Clients -> SUBSET Callers]

\* A limiter is made full.
Init ==
  /\ FanOutInit("metrics", [n \in Item |-> [name |-> n, types |-> 0]])
  /\ command \in Commands
  /\ now = 0
  /\ tokens = [c \in Clients |-> Burst]
  /\ request = [o \in Callers |-> "none"]
  /\ due = [o \in Callers |-> 0]
  /\ takers = [c \in Clients |-> {}]

-----------------------------------------------------------------------------
(* A request.                                                              *)

\* The call a caller is making.
CallOf(o) == IF o = Main THEN pc ELSE at[o]
Calling(o) == IF o = Main THEN pc \in Listing ELSE at[o] \in Reading

\* The metrics are asked of the metrics client, all the rest of the main one.
MutClientOf(call) == "api"
ClientOf(call) == IF call = "metrics" THEN "metrics" ELSE "api"

\* When the token comes of a request that leaves the limiter with so many.
MutTokenTime(left) == now
TokenTime(left) == IF left < 0 THEN now - left ELSE now

\* Limiter.Wait: the token is taken, or promised for a time before the deadline.
Reserve(o) ==
  /\ Calling(o) /\ request[o] = "none" /\ ctx = "live"
  /\ LET c == ClientOf(CallOf(o))
         left == tokens[c] - 1
     IN  /\ TokenTime(left) <= Limit
         /\ tokens' = [tokens EXCEPT ![c] = left]
         /\ due' = [due EXCEPT ![o] = TokenTime(left)]
         /\ takers' = [takers EXCEPT ![c] = @ \cup {o}]
  /\ request' = [request EXCEPT ![o] = "waiting"]
  /\ UNCHANGED <<fanVars, command, now>>

\* The call fails with error e.
CallFails(o, e) ==
  /\ NoteFault(e)
  /\ IF o = Main THEN Return(e) /\ UNCHANGED workVars
                 ELSE Fail(o, e) /\ UNCHANGED <<pc, outcome, row>>
  /\ request' = [request EXCEPT ![o] = "none"]
  /\ UNCHANGED <<ctx, names, collectVars, command, now, tokens, due, takers>>

\* Limiter.Wait: "would exceed context deadline", whatever the time is.
Refuse(o) ==
  /\ Calling(o) /\ request[o] = "none" /\ ctx = "live"
  /\ TokenTime(tokens[ClientOf(CallOf(o))] - 1) > Limit
  /\ CallFails(o, "api")

\* Limiter.Wait or the request itself, once the context is done.
GiveUp(o) == Calling(o) /\ ctx # "live" /\ CallFails(o, ctx)

\* The token has come.
HasToken(o) == due[o] <= now
Go(o) ==
  /\ Calling(o) /\ request[o] = "waiting" /\ HasToken(o)
  /\ request' = [request EXCEPT ![o] = "sent"]
  /\ UNCHANGED <<fanVars, command, now, tokens, due, takers>>

-----------------------------------------------------------------------------
(* The answers of the server.                                              *)

\* The metrics list names some of the items, and in GetNodeResources is followed
\* by the list of the nodes; the goroutines start after the last list.
MainAnswered ==
  /\ pc \in Listing /\ request[Main] = "sent" /\ ctx = "live"
  /\ IF pc = "metrics" THEN names' \in SetToAllKPermutations(Item) ELSE UNCHANGED names
  /\ IF pc = "metrics" /\ command = "node"
     THEN pc' = "nodes" /\ UNCHANGED <<at, outcome>>
     ELSE StartAll
  /\ request' = [request EXCEPT ![Main] = "none"]
  /\ UNCHANGED <<ctx, collectVars, row, err, fault, command, now, tokens, due, takers>>

FirstRead == IF command = "node" THEN "pods" ELSE "pod"

WorkerAnswered(n) ==
  /\ at[n] \in Reading /\ request[n] = "sent" /\ ctx = "live"
  /\ at' = [at EXCEPT ![n] = IF @ = "pods" THEN "metrics" ELSE "types"]
  /\ request' = [request EXCEPT ![n] = "none"]
  /\ UNCHANGED <<ctx, pc, names, collectVars, outcome, row, err, fault,
                 command, now, tokens, due, takers>>

\* The steps that make no request.
WorkerRuns(n) ==
  /\ Begin(n, FirstRead) \/ AddType(n, row[n]) \/ Send(n)
  /\ UNCHANGED limitVars

Collecting == Collect /\ UNCHANGED limitVars

-----------------------------------------------------------------------------
(* Time: a token comes to each limiter that is not full.                   *)

MutRefill(t) == t + 1
Refill(t) == IF t < Burst THEN t + 1 ELSE t

Tick ==
  /\ now < Limit
  /\ now' = now + 1
  /\ tokens' = [c \in Clients |-> Refill(tokens[c])]
  /\ UNCHANGED <<fanVars, command, request, due, takers>>

TimerFires == now = Limit /\ Deadline /\ UNCHANGED limitVars

Next ==
  \/ MainAnswered \/ Collecting
  \/ \E n \in Item : WorkerRuns(n) \/ WorkerAnswered(n)
  \/ \E o \in Callers : Reserve(o) \/ Refuse(o) \/ GiveUp(o) \/ Go(o)
  \/ Tick \/ TimerFires

Spec == Init /\ [][Next]_vars

-----------------------------------------------------------------------------
(* What the limits mean for the commands.                                  *)

\* Requests the command makes of client c, for s names.
Needed(c, s) ==
  IF command = "node" THEN Len(s) + 1
  ELSE IF c = "api" THEN Len(s) ELSE 1

(* Up to the burst there is no throttling at all, which is what the limits *)
(* were raised for (kube.go:34): no request waits and none is refused, as  *)
(* the two clients do not draw on each other's tokens.                     *)
BurstIsFree ==
  (\A c \in Clients : Needed(c, names) <= Burst) =>
    /\ ~fault
    /\ \A o \in Callers : request[o] = "waiting" => HasToken(o)

(* Rows are shown only of what the limits allow before the deadline: past  *)
(* 100 + 30 * 50 requests to one client the command fails, however fast    *)
(* the server is (kube.go:35-36, resource_node.go:165).                    *)
TooManyNeverSucceed ==
  outcome = "rows" => \A c \in Clients : Needed(c, names) <= Burst + Limit

(* The limits never cut a command short: a request refused by its limiter  *)
(* ends one goroutine, and the call waits for all the others, which hold   *)
(* promises up to the last tick; the refusal is reported at the deadline   *)
(* only, where it races with the time-out (kube.go:248-258).               *)
NeverRefusedEarly == outcome = "api" => now = Limit
=============================================================================
