------------------------ MODULE NodeResourcesProofs -------------------------
(***************************************************************************)
(* Proofs about GetNodeResources, for any cluster: each of its steps is a  *)
(* step of the fan-out (FanOutProofs), so that what holds of the fan-out   *)
(* holds of it; and what its rows are made of.                             *)
(***************************************************************************)
EXTENDS NodeResources, ClusterProofs, FanOutPromise

\* Until its pods are read a row has none; then, if GetNodes returned the node,
\* they are the pods of the node.
Charged(n) ==
  /\ at[n] \in {"idle", "start", "pods"} => row[n].pods = {}
  /\ n \in nodes => \A p \in row[n].pods : place[p] \in {n, Completed, Deleted}

RowsCharged == \A n \in Node : Charged(n)

Inv == FanInv /\ TypeOK /\ RowsCharged

-----------------------------------------------------------------------------
(* The replies.                                                            *)

LEMMA MetricsReply ==
  ASSUME TypeOK, NEW r \in GetNodeMetricsFromMetricsAPI
  PROVE  /\ r.err # "nil" => r.err \in CallErrors
         /\ r.err = "nil" => /\ DOMAIN r.val = Asked(Measured)
                             /\ DOMAIN r.val \subseteq Node
                             /\ \A m \in DOMAIN r.val : r.val[m] = nodeUsage[m]
                             /\ \A m \in DOMAIN r.val : r.val[m] \in Usages
  <1>1. CASE r \in Failures
    BY <1>1, ErrorsOfCalls DEF TypeOK
  <1>2. CASE r \in Found(Asked(Measured), [n \in Asked(Measured) |-> nodeUsage[n]])
    <2>1. r = [err |-> "nil", val |-> [n \in Asked(Measured) |-> nodeUsage[n]]]
      BY <1>2 DEF Found, Reply
    <2>2. \A m \in Asked(Measured) : m \in Node /\ nodeUsage[m] \in Usages
      BY DEF Asked, Measured, TypeOK
    <2> QED
      BY <2>1, <2>2
  <1> QED
    BY <1>1, <1>2 DEF GetNodeMetricsFromMetricsAPI

LEMMA NodesReply ==
  ASSUME TypeOK, NEW r \in GetNodes
  PROVE  /\ r.err # "nil" => r.err \in CallErrors
         /\ r.err = "nil" => r.val \subseteq Node
  <1>1. CASE r \in Failures
    BY <1>1, ErrorsOfCalls DEF TypeOK
  <1>2. CASE r \in Found(Asked(up), Asked(up))
    BY <1>2 DEF Found, Reply, Asked, TypeOK, ClusterTypeOK
  <1> QED
    BY <1>1, <1>2 DEF GetNodes

LEMMA PodsReply ==
  ASSUME TypeOK, NEW n \in Node, NEW r \in GetActivePodByNodename(n)
  PROVE  /\ r.err # "nil" => r.err \in CallErrors
         /\ r.err = "nil" => /\ r.val \subseteq Pod
                             /\ n \in nodes => \A p \in r.val : place[p] = n
  <1>1. CASE r \in Failures
    BY <1>1, ErrorsOfCalls DEF TypeOK
  <1>2. CASE r \notin Failures
    BY <1>2 DEF GetActivePodByNodename, Reply
  <1> QED
    BY <1>1, <1>2

-----------------------------------------------------------------------------
(* Every step is a step of the fan-out.                                    *)

LEMMA ListingMapped ==
  ASSUME Inv, Discover \/ ListMetrics \/ ListNodes
  PROVE  FanNext
  <1> USE DEF Inv, TypeOK
  <1>1. CASE ListMetrics
    <2>1. PICK r \in GetNodeMetricsFromMetricsAPI :
            /\ NoteFault(r.err)
            /\ \/ r.err # "nil" /\ Return(r.err) /\ UNCHANGED names
               \/ r.err = "nil" /\ Arrange(r.val) /\ pc' = "nodes" /\ UNCHANGED outcome
      BY <1>1 DEF ListMetrics
    <2>2. pc \in Listing /\ "nodes" \in Listing /\ UNCHANGED <<ctx, collectVars, workVars>>
      BY <1>1 DEF ListMetrics, Listing
    <2>3. CASE r.err # "nil"
      BY <2>1, <2>2, <2>3, MetricsReply DEF FanNext, CallRefused, Return
    <2>4. CASE r.err = "nil"
      <3>1. names' \in SetToAllKPermutations(Item)
        BY <2>1, <2>4, MetricsReply, NodeResourcesAssumption DEF Arrange, SetToAllKPermutations
      <3> QED
        BY <2>1, <2>2, <2>4, <3>1, NoFault DEF FanNext, CallAnswered
    <2> QED
      BY <2>3, <2>4
  <1>2. CASE ListNodes
    <2>1. PICK r \in GetNodes :
            /\ NoteFault(r.err)
            /\ \/ r.err # "nil" /\ Return(r.err) /\ UNCHANGED at
               \/ r.err = "nil" /\ StartAll
      BY <1>2 DEF ListNodes
    <2>2. pc \in Listing /\ UNCHANGED <<ctx, names, collectVars, row, err>>
      BY <1>2 DEF ListNodes, Listing
    <2>3. CASE r.err # "nil"
      BY <2>1, <2>2, <2>3, NodesReply DEF FanNext, CallRefused, Return, workVars
    <2>4. CASE r.err = "nil"
      BY <2>1, <2>2, <2>4, NoFault DEF FanNext, Launch, FanInv, Enumerated
    <2> QED
      BY <2>3, <2>4
  <1>3. CASE Discover
    <2>1. pc \in Listing /\ UNCHANGED <<ctx, names, collectVars, workVars>>
      BY <1>3 DEF Discover, Listing
    <2>2. CASE pc' = "metrics" /\ UNCHANGED <<outcome, fault>>
      BY <2>1, <2>2 DEF FanNext, CallAnswered, FanInv, Enumerated, Listing
    <2>3. CASE pc' = "exited" /\ outcome' = "api" /\ NoteFault("api")
      BY <2>1, <2>3 DEF FanNext, CallRefused, CallErrors
    <2> QED
      BY <1>3, <2>2, <2>3 DEF Discover
  <1> QED
    BY <1>1, <1>2, <1>3

LEMMA WorkerRunsMapped ==
  ASSUME Inv, NEW n \in Node, WorkerRuns(n)
  PROVE  WorkerNext(n)
  <1> USE NodeResourcesAssumption DEF Inv, TypeOK
  <1>1. CASE Begin(n, "pods")
    BY <1>1 DEF Begin, WorkerNext, SetsOut, GivesUp, Reading, mainVars
  <1>2. CASE AddType(n, row[n])
    <2>1. CASE ctx # "live"
      BY <1>2, <2>1 DEF AddType, WorkerNext, GivesUp, mainVars
    <2>2. CASE ctx = "live"
      <3> DEFINE r == [row[n] EXCEPT !.types = @ + 1]
      <3>1. row[n] \in Rows /\ row[n].types + 1 \in 0..NumTypes /\ row[n].name = n
        BY <1>2, FanOutAssumption DEF AddType, FanInv, FanOutTypeOK, Workers, WorkerOK, Rows
      <3>2. r \in Row /\ r.name = n /\ r.types = row[n].types + 1
        BY <3>1 DEF Rows
      <3>3. /\ at[n] = "types"
            /\ row' = [row EXCEPT ![n] = r]
            /\ at' = [at EXCEPT ![n] = IF MoreTypes(row[n].types + 1) THEN "types" ELSE "send"]
            /\ UNCHANGED <<mainVars, err, fault>>
        BY <1>2, <2>2 DEF AddType, mainVars
      <3> HIDE DEF r
      <3> QED
        BY <2>2, <3>2, <3>3 DEF WorkerNext, TypeAdded
    <2> QED
      BY <2>1, <2>2
  <1> QED
    BY <1>1, <1>2 DEF WorkerRuns, WorkerNext

LEMMA WorkerPodsMapped ==
  ASSUME Inv, NEW n \in Node, WorkerPods(n)
  PROVE  /\ WorkerNext(n) /\ UNCHANGED ownVars
         /\ \/ row' = row
            \/ \E r \in GetActivePodByNodename(n) :
                 /\ r.err = "nil"
                 /\ row' = [row EXCEPT ![n] = [row[n] EXCEPT !.pods = r.val]]
  <1> USE NodeResourcesAssumption DEF Inv, TypeOK
  <1>1. /\ at[n] \in Reading /\ "metrics" \in Reading
        /\ UNCHANGED mainVars /\ UNCHANGED ownVars
    BY DEF WorkerPods, Reading, mainVars
  <1>2. PICK r \in GetActivePodByNodename(n) :
          /\ NoteFault(r.err)
          /\ \/ r.err # "nil" /\ Fail(n, r.err) /\ UNCHANGED row
             \/ /\ r.err = "nil"
                /\ row' = [row EXCEPT ![n] = [row[n] EXCEPT !.pods = r.val]]
                /\ at' = [at EXCEPT ![n] = "metrics"]
                /\ UNCHANGED err
    BY DEF WorkerPods
  <1>3. CASE r.err # "nil"
    BY <1>1, <1>2, <1>3, PodsReply DEF WorkerNext, ReadFails
  <1>4. CASE r.err = "nil"
    <2> DEFINE new == [row[n] EXCEPT !.pods = r.val]
    <2>1. row[n] \in Rows /\ row[n].name = n
      BY DEF FanInv, FanOutTypeOK, Workers, WorkerOK
    <2>2. new \in Row /\ new.name = n /\ new.types = row[n].types
      BY <1>4, <2>1, PodsReply DEF Rows
    <2>3. row' = [row EXCEPT ![n] = new] /\ UNCHANGED <<mainVars, err, fault>>
      BY <1>1, <1>2, <1>4, NoFault
    <2> HIDE DEF new
    <2>4. ReadReturns(n)
      BY <1>1, <1>2, <1>4, <2>2, <2>3 DEF ReadReturns
    <2> QED
      BY <1>1, <1>2, <1>4, <2>4 DEF WorkerNext
  <1> QED
    BY <1>3, <1>4

LEMMA WorkerMetricsMapped ==
  ASSUME Inv, NEW n \in Node, WorkerMetrics(n)
  PROVE  /\ WorkerNext(n) /\ UNCHANGED ownVars
         /\ \/ row' = row
            \/ \E u \in Usages : row' = [row EXCEPT ![n] = [row[n] EXCEPT !.usage = u]]
  <1> USE NodeResourcesAssumption DEF Inv, TypeOK
  <1>1. at[n] \in Reading /\ UNCHANGED mainVars /\ UNCHANGED ownVars
    BY DEF WorkerMetrics, Reading, mainVars
  <1>2. PICK r \in GetNodeMetricsFromMetricsAPI :
          /\ NoteFault(r.err)
          /\ \/ r.err # "nil" /\ Fail(n, r.err) /\ UNCHANGED row
             \/ /\ r.err = "nil"
                /\ row' = [row EXCEPT ![n] = [row[n] EXCEPT !.usage =
                             IF n \in nodes \cap DOMAIN r.val THEN r.val[n] ELSE 0]]
                /\ at' = [at EXCEPT ![n] = "types"]
                /\ UNCHANGED err
    BY DEF WorkerMetrics
  <1>3. CASE r.err # "nil"
    BY <1>1, <1>2, <1>3, MetricsReply DEF WorkerNext, ReadFails
  <1>4. CASE r.err = "nil"
    <2>1. PICK u \in Usages : u = IF n \in nodes \cap DOMAIN r.val THEN r.val[n] ELSE 0
      BY <1>4, MetricsReply DEF Usages
    <2> DEFINE new == [row[n] EXCEPT !.usage = u]
    <2>2. row[n] \in Rows /\ row[n].name = n
      BY DEF FanInv, FanOutTypeOK, Workers, WorkerOK
    <2>3. new \in Row /\ new.name = n /\ new.types = row[n].types
      BY <2>2 DEF Rows
    <2>4. row' = [row EXCEPT ![n] = new] /\ UNCHANGED <<mainVars, err, fault>>
      BY <1>1, <1>2, <1>4, <2>1, NoFault
    <2>5. row' = [row EXCEPT ![n] = [row[n] EXCEPT !.usage = u]]
      BY <2>4
    <2> HIDE DEF new
    <2>6. ReadReturns(n)
      BY <1>1, <1>2, <1>4, <2>3, <2>4 DEF ReadReturns
    <2> QED
      BY <1>1, <2>5, <2>6 DEF WorkerNext
  <1> QED
    BY <1>3, <1>4

LEMMA StepMapped ==
  ASSUME Inv, [Next]_vars
  PROVE  [FanNext]_fanVars
  <1>1. ASSUME NEW n \in Node, WorkerRuns(n) \/ WorkerPods(n) \/ WorkerMetrics(n)
        PROVE  FanNext
    BY <1>1, WorkerRunsMapped, WorkerPodsMapped, WorkerMetricsMapped, NodeResourcesAssumption
       DEF FanNext
  <1>2. CASE Collecting \/ TimerFires
    BY <1>2 DEF Collecting, TimerFires, FanNext
  <1>3. CASE (\E n \in Node : Scrape(n)) \/ ClusterChange \/ UNCHANGED vars
    BY <1>3 DEF Scrape, ClusterChange, vars
  <1> QED
    BY <1>1, <1>2, <1>3, ListingMapped DEF Next

-----------------------------------------------------------------------------
(* The invariant.                                                          *)

LEMMA InitInv == Init => Inv
  <1> SUFFICES ASSUME Init PROVE Inv
    OBVIOUS
  <1> DEFINE empty == [n \in Node |-> EmptyRow(n)]
  <1>1. /\ empty \in [Item -> Row]
        /\ \A n \in Item : empty[n].name = n /\ empty[n].types = 0 /\ empty[n].pods = {}
    BY NodeResourcesAssumption, FanOutAssumption DEF EmptyRow, Rows, Usages
  <1>2. FanOutInit("discover", empty) /\ "discover" \in Listing
    BY DEF Init, Listing
  <1>3. row = empty
    BY <1>2 DEF FanOutInit
  <1> HIDE DEF empty
  <1>4. FanInv
    BY <1>1, <1>2, FanInitInv
  <1>5. TypeOK
    BY <1>4 DEF Init, TypeOK, FanInv, ClusterInit, ClusterTypeOK
  <1>6. RowsCharged
    BY <1>1, <1>3, NodeResourcesAssumption DEF RowsCharged, Charged
  <1> QED
    BY <1>4, <1>5, <1>6 DEF Inv

LEMMA OwnTypes ==
  ASSUME Inv, [Next]_vars
  PROVE  /\ ClusterTypeOK'
         /\ nodeUsage' \in [Node -> Usages \cup {NoUsage}]
         /\ resourceName' \in Node \cup {AllNodes}
         /\ nodes' \in SUBSET Node
         /\ resampled' \in SUBSET Node
  <1> USE DEF Inv, TypeOK
  <1>1. CASE UNCHANGED ownVars
    BY <1>1 DEF ownVars, clusterVars, ClusterTypeOK
  <1>2. CASE ListNodes
    <2>1. nodes' \subseteq Node
      BY <1>2, NodesReply DEF ListNodes
    <2> QED
      BY <1>2, <2>1 DEF ListNodes, clusterVars, ClusterTypeOK
  <1>3. CASE ClusterChange
    BY <1>3, PlaceStep DEF ClusterChange
  <1>4. ASSUME NEW n \in Node, Scrape(n)
        PROVE  /\ nodeUsage' \in [Node -> Usages \cup {NoUsage}]
               /\ resampled' \in SUBSET Node
               /\ UNCHANGED <<clusterVars, resourceName, nodes>>
    BY <1>4 DEF Scrape
  <1>5. CASE \E n \in Node : Scrape(n)
    BY <1>4, <1>5 DEF clusterVars, ClusterTypeOK
  <1>6. ASSUME NEW n \in Node, WorkerRuns(n) \/ WorkerPods(n) \/ WorkerMetrics(n)
        PROVE  UNCHANGED ownVars
    BY <1>6 DEF WorkerRuns, WorkerPods, WorkerMetrics
  <1> QED
    BY <1>1, <1>2, <1>3, <1>5, <1>6 DEF Next, Discover, ListMetrics, Collecting,
                                             TimerFires, vars

LEMMA RowsStayCharged ==
  ASSUME Inv, [Next]_vars
  PROVE  RowsCharged'
  <1> USE NodeResourcesAssumption DEF Inv
  <1>0. \A n \in Node : row[n] \in Rows
    BY DEF TypeOK, FanOutTypeOK
  <1>1. CASE UNCHANGED <<nodes, clusterVars, at, row>>
    BY <1>1 DEF RowsCharged, Charged, clusterVars
  <1>2. CASE ListNodes
    <2>1. UNCHANGED row /\ \A n \in Node : at[n] = "idle"
      BY <1>2 DEF ListNodes, FanInv, NotYet, Listing
    <2> QED
      BY <2>1 DEF RowsCharged, Charged
  <1>3. CASE ClusterChange
    <2>1. /\ UNCHANGED <<nodes, at, row>>
          /\ \A n \in Node, p \in Pod :
               place[p] \in {n, Completed, Deleted} => place'[p] \in {n, Completed, Deleted}
      BY <1>3, PlaceStep DEF ClusterChange, TypeOK, fanVars, workVars
    <2>2. \A n \in Node : row[n].pods \subseteq Pod
      BY <1>0 DEF Rows
    <2> QED
      BY <2>1, <2>2 DEF RowsCharged, Charged
  <1>4. ASSUME NEW n \in Node, WorkerRuns(n) \/ WorkerMetrics(n)
        PROVE  RowsCharged'
    <2>1. /\ WorkerNext(n) /\ UNCHANGED <<nodes, clusterVars>>
          /\ \/ row' = row
             \/ \E u \in Usages : row' = [row EXCEPT ![n] = [row[n] EXCEPT !.usage = u]]
             \/ row' = [row EXCEPT ![n] = [row[n] EXCEPT !.types = @ + 1]]
      <3>1. CASE WorkerRuns(n)
        BY <3>1, WorkerRunsMapped DEF WorkerRuns, Begin, AddType, Send, ownVars
      <3>2. CASE WorkerMetrics(n)
        BY <3>2, WorkerMetricsMapped DEF ownVars
      <3> QED
        BY <1>4, <3>1, <3>2
    <2>2. \A m \in Node : row'[m].pods = row[m].pods
      <3>0. row \in [Node -> Rows]
        BY DEF TypeOK, FanOutTypeOK
      <3>1. ASSUME NEW new \in Rows, new.pods = row[n].pods, row' = [row EXCEPT ![n] = new]
            PROVE  \A m \in Node : row'[m].pods = row[m].pods
        BY <3>0, <3>1
      <3>2. ASSUME NEW u \in Usages
            PROVE  /\ [row[n] EXCEPT !.usage = u] \in Rows
                   /\ [row[n] EXCEPT !.usage = u].pods = row[n].pods
        BY <1>0 DEF Rows
      <3>3. CASE \E u \in Usages : row' = [row EXCEPT ![n] = [row[n] EXCEPT !.usage = u]]
        BY <3>1, <3>2, <3>3
      <3>4. CASE row' = [row EXCEPT ![n] = [row[n] EXCEPT !.types = @ + 1]]
        <4>1. [row[n] EXCEPT !.types = @ + 1].pods = row[n].pods
          BY <1>0 DEF Rows
        <4> QED
          BY <3>0, <3>4, <4>1
      <3> QED
        BY <2>1, <3>3, <3>4
    <2>3. \A m \in Node : at'[m] \in {"idle", "start", "pods"}
                            => at[m] \in {"idle", "start", "pods"}
      <3>1. /\ \A m \in Node \ {n} : at'[m] = at[m]
            /\ at[n] = "start" \/ at'[n] \in {"types", "send", "done"}
        <4>0. at \in [Item -> Places]
          BY DEF TypeOK, FanOutTypeOK, Places
        <4>1. CASE Begin(n, "pods")
          BY <4>0, <4>1 DEF Begin, Fail
        <4>2. CASE AddType(n, row[n])
          BY <4>0, <4>2 DEF AddType, Fail
        <4>3. CASE Send(n)
          BY <4>0, <4>3 DEF Send
        <4>4. CASE WorkerMetrics(n)
          BY <4>0, <4>4 DEF WorkerMetrics, Fail
        <4> QED
          BY <1>4, <4>1, <4>2, <4>3, <4>4 DEF WorkerRuns
      <3> QED
        BY <3>1
    <2> QED
      BY <2>1, <2>2, <2>3 DEF RowsCharged, Charged, clusterVars
  <1>5. ASSUME NEW n \in Node, WorkerPods(n)
        PROVE  RowsCharged'
    <2>1. /\ UNCHANGED <<nodes, clusterVars>>
          /\ \/ row' = row
             \/ \E r \in GetActivePodByNodename(n) :
                  /\ r.err = "nil"
                  /\ row' = [row EXCEPT ![n] = [row[n] EXCEPT !.pods = r.val]]
      BY <1>5, WorkerPodsMapped DEF ownVars
    <2>2. /\ at'[n] \in {"metrics", "send"}
          /\ \A m \in Node \ {n} : at'[m] = at[m] /\ row'[m] = row[m]
      BY <1>5, <2>1 DEF WorkerPods, Fail, TypeOK, FanOutTypeOK
    <2>3. \/ row'[n].pods = row[n].pods
          \/ n \in nodes => \A p \in row'[n].pods : place[p] = n
      <3>1. CASE row' = row
        BY <3>1
      <3>2. ASSUME NEW r \in GetActivePodByNodename(n), r.err = "nil",
                   row' = [row EXCEPT ![n] = [row[n] EXCEPT !.pods = r.val]]
            PROVE  n \in nodes => \A p \in row'[n].pods : place[p] = n
        <4>1. row'[n].pods = r.val
          BY <1>0, <3>2 DEF TypeOK, FanOutTypeOK, Rows
        <4> QED
          BY <3>2, <4>1, PodsReply
      <3> QED
        BY <2>1, <3>1, <3>2
    <2>4. \A m \in Node \ {n} : Charged(m)'
      BY <2>1, <2>2 DEF RowsCharged, Charged, clusterVars
    <2>5. Charged(n)'
      BY <2>1, <2>2, <2>3 DEF RowsCharged, Charged, clusterVars
    <2> QED
      BY <2>4, <2>5 DEF RowsCharged
  <1>6. CASE Discover \/ ListMetrics \/ Collecting \/ TimerFires \/ (\E n \in Node : Scrape(n))
             \/ UNCHANGED vars
    <2>1. UNCHANGED <<nodes, clusterVars, at, row>>
      BY <1>6 DEF Discover, ListMetrics, Collecting, Collect, CollectDone, CollectResult, Rebuild,
         ReturnResources, Exit, TimerFires, Deadline, Scrape, vars, ownVars, fanVars, workVars
    <2> QED
      BY <1>1, <2>1
  <1> QED
    BY <1>2, <1>3, <1>4, <1>5, <1>6 DEF Next

LEMMA NextInv == Inv /\ [Next]_vars => Inv'
  <1> SUFFICES ASSUME Inv, [Next]_vars PROVE Inv'
    OBVIOUS
  <1>1. FanInv'
    BY StepMapped, FanNextInv DEF Inv
  <1>2. TypeOK'
    BY <1>1, OwnTypes DEF TypeOK, FanInv
  <1> QED
    BY <1>1, <1>2, RowsStayCharged DEF Inv

-----------------------------------------------------------------------------
(* What holds of GetNodeResources.                                         *)

(* Inv is an inductive invariant of GetNodeResources.                      *)
THEOREM Invariance == Spec => []Inv
  BY InitInv, NextInv, PTL DEF Spec

(* Every variable keeps its type, for any cluster.                         *)
THEOREM TypeCorrect == Spec => []TypeOK
  <1>1. Inv => TypeOK
    BY DEF Inv
  <1> QED
    BY Invariance, <1>1, PTL

(* No answer is lost or collected twice (kube.go:248).                     *)
THEOREM AnswersAlwaysAccounted == Spec => []AnswersAccounted
  <1>1. Inv => AnswersAccounted
    BY DEF Inv, FanInv
  <1> QED
    BY Invariance, <1>1, PTL

(* The channel of kube.go:140 has room for every answer, so that no        *)
(* goroutine is left blocked when the collector returns early.             *)
THEOREM AlwaysRoom == Spec => []RoomForEveryAnswer
  <1>1. Inv => RoomForEveryAnswer
    BY HasRoom DEF Inv
  <1> QED
    BY Invariance, <1>1, PTL

(* The collecting loop of kube.go:248 never waits for an answer that no    *)
(* goroutine is going to send, so that a time-out is never of its own      *)
(* making.                                                                 *)
THEOREM NeverAlone == Spec => []SomebodyAnswers
  <1>1. Inv => SomebodyAnswers
    BY NotAlone DEF Inv
  <1> QED
    BY Invariance, <1>1, PTL

(* Rows are returned all together, in the order of the list and with every *)
(* requested column (kube.go:265-276).                                     *)
THEOREM AlwaysComplete == Spec => []RowsComplete
  <1>1. Inv => RowsComplete
    BY IsComplete DEF Inv
  <1> QED
    BY Invariance, <1>1, PTL

(* A table is shown only when every goroutine succeeded (kube.go:273).     *)
THEOREM ErrorsNeverSwallowed == Spec => []NoErrorSwallowed
  <1>1. Inv => NoErrorSwallowed
    BY NothingSwallowed DEF Inv
  <1> QED
    BY Invariance, <1>1, PTL

(* The error reported is one that happened, and never "context canceled"   *)
(* (resource_node.go:165-174).                                             *)
THEOREM ErrorAlwaysGenuine == Spec => []ErrorIsGenuine
  <1>1. Inv => ErrorIsGenuine
    BY IsGenuine DEF Inv
  <1> QED
    BY Invariance, <1>1, PTL

(* GetNodeResources implements Gather: it answers once, with every row in  *)
(* the order of the list, or with a failure that happened, or after the    *)
(* deadline.                                                               *)
THEOREM PromiseKept == Spec => KeepsPromise
  <1>1. Init => Inv /\ Promise!Init
    BY InitInv, NothingAsked DEF Init, Listing
  <1>2. Inv /\ [Next]_vars => Inv' /\ [Promise!Next]_Promise!gatherVars
    BY NextInv, StepMapped, PromiseStep DEF Inv
  <1> QED
    BY <1>1, <1>2, PTL DEF Spec, KeepsPromise, Promise!Spec

(* The row of a node that GetNodes returned charges only its own pods,     *)
(* whatever happens to them meanwhile.                                     *)
THEOREM KnownRowsAlwaysChargeOwnPods == Spec => []KnownRowsChargeOwnPods
  <1>1. Inv => KnownRowsChargeOwnPods
    BY RowsReturned, NodeResourcesAssumption
       DEF Inv, KnownRowsChargeOwnPods, RowsCharged, Charged
  <1> QED
    BY Invariance, <1>1, PTL

-----------------------------------------------------------------------------
(* The order of the rows of the nodes that are not sampled meanwhile.      *)

\* The names not sampled since are sorted by the samples that are still there,
\* and the rows show them.
Measurement ==
  /\ pc \in {"discover", "metrics"} => names = <<>>
  /\ \A k \in 1..Len(names) : names[k] \in Asked(Measured) \cup resampled
  /\ Sorted =>
       \A j, k \in 1..Len(names) :
         j < k /\ {names[j], names[k]} \cap resampled = {} =>
           nodeUsage[names[j]] >= nodeUsage[names[k]]
  /\ \A n \in nodes \ resampled :
       at[n] = "types" \/ (at[n] \in {"send", "done"} /\ err[n] = "nil")
         => row[n].usage = nodeUsage[n]

LEMMA InitMeasurement == Init => Measurement
  BY DEF Init, FanOutInit, Measurement

\* What Measurement reads, and nothing else.
LEMMA SameMeasurement ==
  ASSUME Measurement, UNCHANGED <<names, nodes, nodeUsage, resourceName, resampled>>,
         UNCHANGED <<at, err, row>>,
         pc' \in {"discover", "metrics"} => pc \in {"discover", "metrics"}
  PROVE  Measurement'
  BY DEF Measurement, Asked, Measured

LEMMA ListMeasures ==
  ASSUME Inv, Measurement, ListMetrics
  PROVE  Measurement'
  <1> USE NodeResourcesAssumption DEF Inv, TypeOK
  <1>1. PICK r \in GetNodeMetricsFromMetricsAPI :
          \/ UNCHANGED names /\ pc' = "returned"
          \/ r.err = "nil" /\ Arrange(r.val) /\ pc' = "nodes"
    BY DEF ListMetrics, Return
  <1>2. /\ \A n \in Node : at'[n] = "idle"
        /\ UNCHANGED <<nodes, nodeUsage, resourceName, resampled>>
    BY DEF ListMetrics, FanInv, NotYet, Listing, workVars, ownVars
  <1>3. CASE UNCHANGED names /\ pc' = "returned"
    BY <1>2, <1>3 DEF Measurement, Asked, Measured
  <1>4. CASE r.err = "nil" /\ Arrange(r.val) /\ pc' = "nodes"
    <2>1. /\ DOMAIN r.val = Asked(Measured) /\ DOMAIN r.val \subseteq Node
          /\ \A m \in DOMAIN r.val : r.val[m] = nodeUsage[m]
      BY <1>4, MetricsReply
    <2>2. \A k \in 1..Len(names') : names'[k] \in DOMAIN r.val
      BY <1>4, <2>1, PermutationOf DEF Arrange
    <2>3. Sorted => \A j, k \in 1..Len(names') :
                      j < k => nodeUsage[names'[j]] >= nodeUsage[names'[k]]
      BY <1>4, <2>1, <2>2 DEF Arrange, InOrder
    <2> QED
      BY <1>2, <1>4, <2>1, <2>2, <2>3 DEF Measurement, Asked, Measured
  <1> QED
    BY <1>1, <1>3, <1>4

LEMMA WorkerMeasures ==
  ASSUME Inv, Measurement, NEW n \in Node,
         WorkerRuns(n) \/ WorkerPods(n) \/ WorkerMetrics(n)
  PROVE  Measurement'
  <1> USE NodeResourcesAssumption DEF Inv, TypeOK, FanInv, FanOutTypeOK
  <1>1. UNCHANGED <<pc, names, nodes, nodeUsage, resourceName, resampled>>
    BY DEF WorkerRuns, Begin, AddType, Send, WorkerPods, WorkerMetrics, ownVars
  <1>2. \A m \in Node \ {n} : at'[m] = at[m] /\ err'[m] = err[m] /\ row'[m] = row[m]
    BY DEF WorkerRuns, Begin, AddType, Send, WorkerPods, WorkerMetrics, Fail
  <1>3. ASSUME n \in nodes \ resampled,
               at'[n] = "types" \/ (at'[n] \in {"send", "done"} /\ err'[n] = "nil")
        PROVE  row'[n].usage = nodeUsage[n]
    <2>1. CASE WorkerMetrics(n)
      <3>1. PICK r \in GetNodeMetricsFromMetricsAPI :
              \/ r.err # "nil" /\ Fail(n, r.err)
              \/ /\ r.err = "nil"
                 /\ row' = [row EXCEPT ![n] = [row[n] EXCEPT !.usage =
                              IF n \in nodes \cap DOMAIN r.val THEN r.val[n] ELSE 0]]
        BY <2>1 DEF WorkerMetrics
      <3>2. r.err = "nil"
        BY <1>3, <3>1 DEF Fail
      <3>3. n \in Asked(Measured)
        BY <1>3, <2>1 DEF Measurement, WorkerMetrics, Workers, WorkerOK, NameSet
      <3>4. n \in DOMAIN r.val /\ r.val[n] = nodeUsage[n]
        BY <3>2, <3>3, MetricsReply
      <3>5. row' = [row EXCEPT ![n] = [row[n] EXCEPT !.usage = r.val[n]]]
        BY <1>3, <3>1, <3>2, <3>4
      <3> QED
        BY <3>4, <3>5 DEF Rows
    <2>2. CASE Begin(n, "pods") \/ WorkerPods(n)
      <3>1. CASE Begin(n, "pods")
        BY <1>3, <3>1 DEF Begin, Fail, CtxErrors
      <3>2. CASE WorkerPods(n)
        BY <1>3, <3>2 DEF WorkerPods, Fail
      <3> QED
        BY <2>2, <3>1, <3>2
    <2>3. CASE AddType(n, row[n])
      <3>1. at[n] = "types" /\ row'[n].usage = row[n].usage
        BY <2>3 DEF AddType, Rows
      <3> QED
        BY <1>3, <3>1 DEF Measurement
    <2>4. CASE Send(n)
      BY <1>3, <2>4 DEF Send, Measurement
    <2> QED
      BY <2>1, <2>2, <2>3, <2>4 DEF WorkerRuns
  <1> QED
    BY <1>1, <1>2, <1>3 DEF Measurement, Asked, Measured

\* A sample taken before the sort is sorted by; one taken later is of a node
\* that is not spoken of any more.
LEMMA ScrapeMeasures ==
  ASSUME Inv, Measurement, NEW n \in Node, Scrape(n)
  PROVE  Measurement'
  <1> USE DEF Inv, TypeOK
  <1>1. /\ \A m \in Node \ {n} : nodeUsage'[m] = nodeUsage[m]
        /\ UNCHANGED <<resourceName, nodes, pc, names, at, err, row>>
        /\ nodeUsage' \in [Node -> Usages \cup {NoUsage}]
    BY DEF Scrape, fanVars, workVars
  <1>2. CASE pc \in {"discover", "metrics"}
    <2>1. /\ names = <<>> /\ names' = <<>> /\ Len(names') = 0
          /\ \A m \in Node : at'[m] = "idle"
      BY <1>1, <1>2, NodeResourcesAssumption DEF Measurement, FanInv, NotYet, Listing
    <2> QED
      BY <1>1, <2>1 DEF Measurement
  <1>3. CASE pc \notin {"discover", "metrics"}
    <2>1. resampled' = resampled \cup {n}
      BY <1>3 DEF Scrape
    <2>2. \A k \in 1..Len(names) : names[k] \in Node
      BY NodeResourcesAssumption, ElementOfSeq DEF FanOutTypeOK
    <2>3. Asked(Measured) \subseteq Asked(Measured)' \cup {n}
      BY <1>1 DEF Asked, Measured
    <2>4. \A k \in 1..Len(names') : names'[k] \in Asked(Measured)' \cup resampled'
      BY <1>1, <2>1, <2>3 DEF Measurement
    <2> QED
      BY <1>1, <1>3, <2>1, <2>2, <2>4 DEF Measurement
  <1> QED
    BY <1>2, <1>3

LEMMA NextMeasurement ==
  ASSUME Inv, Measurement, [Next]_vars
  PROVE  Measurement'
  <1> USE NodeResourcesAssumption DEF Inv, TypeOK
  <1>1. CASE ListNodes
    <2>1. /\ UNCHANGED <<names, nodeUsage, resourceName, resampled>> /\ nodes' \subseteq Node
          /\ pc' \notin {"discover", "metrics"}
      BY <1>1, NodesReply DEF ListNodes, StartAll, Return
    <2>2. \A n \in Node : at'[n] \in {"idle", "start"}
      BY <1>1 DEF ListNodes, StartAll, FanInv, NotYet, Listing
    <2> QED
      BY <2>1, <2>2 DEF Measurement, Asked, Measured
  <1>2. CASE Discover \/ Collecting \/ TimerFires \/ ClusterChange \/ UNCHANGED vars
    <2>1. UNCHANGED <<names, nodes, nodeUsage, resourceName, resampled, at, err, row>>
      BY <1>2 DEF Discover, Collecting, Collect, CollectDone, CollectResult, Rebuild,
         ReturnResources, Exit, TimerFires, Deadline, ClusterChange, vars, ownVars, fanVars,
         workVars
    <2>2. pc' \in {"discover", "metrics"} => pc \in {"discover", "metrics"}
      BY <1>2 DEF Discover, Collecting, Collect, CollectDone, CollectResult, Rebuild,
         ReturnResources, Exit, Return, TimerFires, Deadline, ClusterChange, vars, fanVars
    <2> QED
      BY <2>1, <2>2, SameMeasurement
  <1> QED
    BY <1>1, <1>2, ListMeasures, WorkerMeasures, ScrapeMeasures DEF Next

(* With --sort-by, the rows of the nodes that GetNodes returned and that   *)
(* were not sampled after the sort are in descending order of the usage    *)
(* they show, whatever the other nodes do (kube.go:114, 163, 265-271).     *)
THEOREM SteadyRowsAlwaysInUsageOrder == Spec => []SteadyRowsInUsageOrder
  <1>1. Init => Inv /\ Measurement
    BY InitInv, InitMeasurement
  <1>2. Inv /\ Measurement /\ [Next]_vars => (Inv /\ Measurement)'
    BY NextInv, NextMeasurement
  <1>3. ASSUME Inv, Measurement, outcome = "rows", Sorted,
               NEW j \in 1..Len(resources), NEW k \in 1..Len(resources), j < k,
               {resources[j].name, resources[k].name} \subseteq nodes \ resampled
        PROVE  resources[j].usage >= resources[k].usage
    <2>1. /\ Len(resources) = Len(names)
          /\ \A m \in 1..Len(names) : resources[m].name = names[m]
      BY <1>3, IsComplete DEF Inv, RowsComplete
    <2>2. ASSUME NEW m \in 1..Len(resources), resources[m].name \in nodes \ resampled
          PROVE  resources[m].usage = nodeUsage[names[m]]
      BY <1>3, <2>1, <2>2, RowsReturned DEF Inv, Measurement
    <2>3. nodeUsage[names[j]] >= nodeUsage[names[k]]
      BY <1>3, <2>1 DEF Measurement
    <2> QED
      BY <1>3, <2>2, <2>3
  <1>4. Inv /\ Measurement => SteadyRowsInUsageOrder
    BY <1>3 DEF SteadyRowsInUsageOrder
  <1> QED
    BY <1>1, <1>2, <1>4, PTL DEF Spec
=============================================================================
