--------------------------- MODULE NodeResources ---------------------------
(***************************************************************************)
(* RunResourceNode (cmd/kubectl-resource-view/resource_node.go) and        *)
(* KubeClient.GetNodeResources (pkg/kube/kube.go): FanOut over the nodes   *)
(* of the metrics list.  The 30 seconds start after the discovery of the   *)
(* metrics API.  The main goroutine lists the node metrics, sorts them and *)
(* lists the nodes; the goroutine of a node reads the pods of its node and *)
(* the node metrics AGAIN.                                                 *)
(***************************************************************************)
EXTENDS Cluster, FanOut

CONSTANTS
  MaxUsage,    \* bound: measured usage is in 0..MaxUsage
  NoUsage,     \* the metrics server has no sample
  AllNodes     \* no NAME argument: resourceName is ""

Usages == 0..MaxUsage
\* The rows: which pods are charged, the usage shown, how many of the
\* requested types have their columns.
Rows == [name : Node, pods : SUBSET Pod, usage : Usages, types : 0..NumTypes]

ASSUME NodeResourcesAssumption ==
  /\ Item = Node
  /\ Row = Rows
  /\ MaxUsage \in Nat
  /\ NoUsage \notin Usages
  /\ AllNodes \notin Node

VARIABLES
  nodeUsage,    \* metrics server: the latest sample of each node
  resourceName, \* the NAME argument, or AllNodes
  nodes,        \* keys of the map GetNodes returned
  resampled     \* history: nodes sampled since the metrics were sorted

ownVars == <<clusterVars, nodeUsage, resourceName, nodes, resampled>>
vars == <<fanVars, ownVars>>

TypeOK ==
  /\ FanOutTypeOK
  /\ ClusterTypeOK
  /\ nodeUsage \in [Node -> Usages \cup {NoUsage}]
  /\ resourceName \in Node \cup {AllNodes}
  /\ nodes \in SUBSET Node
  /\ resampled \in SUBSET Node

EmptyRow(n) == [name |-> n, pods |-> {}, usage |-> 0, types |-> 0]

Init ==
  /\ FanOutInit("discover", [n \in Node |-> EmptyRow(n)])
  /\ ClusterInit
  /\ nodeUsage \in [Node -> Usages \cup {NoUsage}]
  /\ resourceName \in Node \cup {AllNodes}
  /\ nodes = {} /\ resampled = {}

-----------------------------------------------------------------------------
(* API calls: the possible replies, each an error and a value.             *)

\* The nodes the metrics server has a sample of.
Measured == {n \in Node : nodeUsage[n] # NoUsage}

\* The names asked for: all those in S, or the one given on the command line.
Asked(S) == IF resourceName = AllNodes THEN S ELSE S \cap {resourceName}

\* A reply when the context is live; by NAME, finding nothing is an error.
Found(found, value) ==
  IF ctx = "live" /\ (resourceName # AllNodes => found # {}) THEN {Reply(value)} ELSE {}

\* A map from node names to samples.
GetNodeMetricsFromMetricsAPI ==
  Failures \cup Found(Asked(Measured), [n \in Asked(Measured) |-> nodeUsage[n]])

\* The names of the nodes found.
GetNodes == Failures \cup Found(Asked(up), Asked(up))

\* The pods whose spec.nodeName is node.Name and whose phase is active.  For a
\* node that is not in the map, nodes[nodename] is the zero Node and its Name
\* is "": the field selector then matches the pods not bound to any node.
MutGetActivePod(n) ==
  Failures \cup IF ctx = "live" THEN {Reply({p \in Pod : place[p] \in Node})} ELSE {}
GetActivePodByNodename(n) ==
  LET nodeName == IF n \in nodes THEN n ELSE Unbound
  IN  Failures \cup IF ctx = "live" THEN {Reply({p \in Pod : place[p] = nodeName})}
                                   ELSE {}

-----------------------------------------------------------------------------
(* The main goroutine.                                                     *)

\* ServerGroups takes no context: it may never answer.  If it fails, or the
\* metrics API is not among the groups, the command is over before the context
\* is made.
Discover ==
  /\ pc = "discover"
  /\ \/ pc' = "metrics" /\ UNCHANGED <<outcome, fault>>
     \/ pc' = "exited" /\ outcome' = "api" /\ NoteFault("api")
  /\ UNCHANGED <<ownVars, ctx, names, collectVars, workVars>>

\* List the metrics and put their names in order.
ListMetrics ==
  /\ pc = "metrics"
  /\ \E r \in GetNodeMetricsFromMetricsAPI :
       /\ NoteFault(r.err)
       /\ \/ r.err # "nil" /\ Return(r.err) /\ UNCHANGED names
          \/ r.err = "nil" /\ Arrange(r.val) /\ pc' = "nodes" /\ UNCHANGED outcome
  /\ UNCHANGED <<ownVars, ctx, collectVars, workVars>>

\* List the nodes, and start one goroutine per name.
ListNodes ==
  /\ pc = "nodes"
  /\ UNCHANGED <<clusterVars, nodeUsage, resourceName, resampled, ctx, names,
                 collectVars, row, err>>
  /\ \E r \in GetNodes :
       /\ NoteFault(r.err)
       /\ \/ r.err # "nil" /\ Return(r.err) /\ UNCHANGED <<nodes, at>>
          \/ r.err = "nil" /\ nodes' = r.val /\ StartAll

Collecting == Collect /\ UNCHANGED ownVars

-----------------------------------------------------------------------------
(* The goroutine of node n.                                                *)

WorkerPods(n) ==
  /\ at[n] = "pods"
  /\ \E r \in GetActivePodByNodename(n) :
       /\ NoteFault(r.err)
       /\ \/ r.err # "nil" /\ Fail(n, r.err) /\ UNCHANGED row
          \/ /\ r.err = "nil"
             /\ row' = [row EXCEPT ![n] = [@ EXCEPT !.pods = r.val]]
             /\ at' = [at EXCEPT ![n] = "metrics"]
             /\ UNCHANGED err
  /\ UNCHANGED <<ownVars, ctx, pc, names, collectVars, outcome>>

\* The usage shown is looked up by node.Name in this second reply; the zero
\* Node and a node without a sample get the zero Quantity.
WorkerMetrics(n) ==
  /\ at[n] = "metrics"
  /\ \E r \in GetNodeMetricsFromMetricsAPI :
       /\ NoteFault(r.err)
       /\ \/ r.err # "nil" /\ Fail(n, r.err) /\ UNCHANGED row
          \/ /\ r.err = "nil"
             /\ row' = [row EXCEPT ![n] = [@ EXCEPT !.usage =
                          IF n \in nodes \cap DOMAIN r.val THEN r.val[n] ELSE 0]]
             /\ at' = [at EXCEPT ![n] = "types"]
             /\ UNCHANGED err
  /\ UNCHANGED <<ownVars, ctx, pc, names, collectVars, outcome>>

\* The steps that make no call.
WorkerRuns(n) ==
  /\ Begin(n, "pods") \/ AddType(n, row[n]) \/ Send(n)
  /\ UNCHANGED ownVars

-----------------------------------------------------------------------------
(* The environment.                                                        *)

\* The timer is there from the discovery to the deferred cancel().
TimerFires == pc \notin {"discover", "exited"} /\ Deadline /\ UNCHANGED ownVars

\* The metrics server takes a sample of a node, or drops those of a lost one.
Scrape(n) ==
  /\ "usage" \in Changes
  /\ \E u \in IF n \in up THEN Usages ELSE {NoUsage} :
       nodeUsage' = [nodeUsage EXCEPT ![n] = u]
  /\ resampled' = IF pc \in {"discover", "metrics"} THEN {} ELSE resampled \cup {n}
  /\ UNCHANGED <<clusterVars, resourceName, nodes, fanVars>>

ClusterChange ==
  ClusterNext /\ UNCHANGED <<nodeUsage, resourceName, nodes, resampled, fanVars>>

Next ==
  \/ Discover \/ ListMetrics \/ ListNodes \/ Collecting
  \/ \E n \in Node : WorkerRuns(n) \/ WorkerPods(n) \/ WorkerMetrics(n)
  \/ TimerFires
  \/ \E n \in Node : Scrape(n)
  \/ ClusterChange

Spec == Init /\ [][Next]_vars

(***************************************************************************)
(* The timer fires; a goroutine that can run, runs; a call returns once    *)
(* the context is done.  A call made while it is live may never return,    *)
(* and nothing says that the discovery does.                               *)
(***************************************************************************)
Fairness ==
  /\ WF_vars(TimerFires)
  /\ WF_vars(CtxDone /\ (ListMetrics \/ ListNodes))
  /\ WF_vars(Collecting)
  /\ \A n \in Node : /\ WF_vars(WorkerRuns(n))
                     /\ WF_vars(CtxDone /\ (WorkerPods(n) \/ WorkerMetrics(n)))

FairSpec == Spec /\ Fairness

-----------------------------------------------------------------------------
(* Properties of the node table; those of any fan-out are in FanOut.       *)

(* The row of a node that GetNodes returned charges only pods bound to     *)
(* that node, whatever is bound, completes or is deleted meanwhile.        *)
KnownRowsChargeOwnPods ==
  \A k \in 1..Len(resources) :
    resources[k].name \in nodes =>
      \A p \in resources[k].pods : place[p] \in {resources[k].name, Completed, Deleted}

(* The same of every row.  A name that is in the metrics but not in the    *)
(* nodes map gets the row of the zero Node: the pods bound to no node.     *)
RowsChargeOwnPods ==
  \A k \in 1..Len(resources) :
    \A p \in resources[k].pods : place[p] \in {resources[k].name, Completed, Deleted}

(* With --sort-by, the rows of the nodes that GetNodes returned are in     *)
(* descending order of the usage they show ("If non-empty, sort nodes list *)
(* using specified field", resource_node.go:90).  The goroutines read the  *)
(* usage again after the sort (kube.go:114, 163), so that a sample taken   *)
(* in between breaks this.  The row of an unknown node shows zero anyhow.  *)
KnownRowsInUsageOrder ==
  outcome = "rows" /\ Sorted =>
    \A j, k \in 1..Len(resources) :
      j < k /\ {resources[j].name, resources[k].name} \subseteq nodes =>
        resources[j].usage >= resources[k].usage

(* No other row is out of order: of two nodes that GetNodes returned and   *)
(* that were not sampled between the sort and the end, the one above shows *)
(* the higher usage, whatever happens to the other nodes, to their samples *)
(* and to the pods (kube.go:114, 163, 265-271).                            *)
SteadyRowsInUsageOrder ==
  outcome = "rows" /\ Sorted =>
    \A j, k \in 1..Len(resources) :
      j < k /\ {resources[j].name, resources[k].name} \subseteq nodes \ resampled =>
        resources[j].usage >= resources[k].usage

(* Once the discovery has answered the command ends, even if the API       *)
(* server never answers any other call (resource_node.go:151, 165).        *)
Returns == pc # "discover" ~> pc = "exited"
=============================================================================
