---------------------------- MODULE PodResources ----------------------------
(***************************************************************************)
(* RunResourcePod (cmd/kubectl-resource-view/resource_pod.go) and          *)
(* KubeClient.GetPodResources (pkg/kube/kube.go): FanOut over the samples  *)
(* of the pod metrics list.  The 30 seconds start before the discovery of  *)
(* the metrics API, whose request is not bound to the context; the         *)
(* goroutine of a sample gets the pod of that name and pairs its requests  *)
(* and limits with the usage of the sample it was started with.            *)
(***************************************************************************)
EXTENDS Cluster, FanOut

CONSTANTS
  Namespace,   \* namespaces
  MaxUsage,    \* bound: measured usage is in 0..MaxUsage
  NoSample,    \* the metrics server has no sample
  NoPod,       \* no pod was read yet
  AllPods      \* no NAME argument: resourceName is ""

ShortNames == {ShortName[k] : k \in PodName}
Samples    == [of : Pod, usage : 0..MaxUsage]
Queries    == [namespace : Namespace, allNamespaces : BOOLEAN,
               resourceName : ShortNames \cup {AllPods}]
\* The rows: the sample shown, the pod whose requests and limits are shown, how
\* many of the requested types have their columns.
Rows == [name : PodName, sample : Samples \cup {NoSample},
         pod : Pod \cup {NoPod}, types : 0..NumTypes]

ASSUME PodResourcesAssumption ==
  /\ Item = PodName
  /\ Row = Rows
  /\ NamespaceOf \in [PodName -> Namespace]
  /\ MaxUsage \in Nat
  /\ NoPod \notin Pod
  /\ NoSample \notin Samples

VARIABLES
  podSample,   \* metrics server: the latest sample under each name
  query,       \* the namespace, -A and NAME of the command line
  podmetrics   \* the samples listed, by name

ownVars == <<clusterVars, podSample, query, podmetrics>>
vars == <<fanVars, ownVars>>

TypeOK ==
  /\ FanOutTypeOK
  /\ ClusterTypeOK
  /\ podSample \in [PodName -> Samples \cup {NoSample}]
  /\ query \in Queries
  /\ DOMAIN podmetrics \subseteq PodName
  /\ \A k \in DOMAIN podmetrics : podmetrics[k] \in Samples

EmptyRow(k) == [name |-> k, sample |-> NoSample, pod |-> NoPod, types |-> 0]

\* A sample is of a pod that has run under its name, perhaps not any more.
HasRun(k, s) == NameOf[s.of] = k /\ place[s.of] \notin {Absent, Unbound}

Init ==
  /\ FanOutInit("discover", [k \in PodName |-> EmptyRow(k)])
  /\ ClusterInit
  /\ podSample \in [PodName -> Samples \cup {NoSample}]
  /\ \A k \in PodName : podSample[k] # NoSample => HasRun(k, podSample[k])
  /\ query \in Queries
  /\ podmetrics = [k \in {} |-> NoSample]

-----------------------------------------------------------------------------
(* API calls: the possible replies, each an error and a value.             *)

\* The names the query covers, among those the metrics server has a sample of.
Asked == {k \in PodName :
            /\ podSample[k] # NoSample
            /\ query.allNamespaces \/ NamespaceOf[k] = query.namespace
            /\ query.resourceName \in {AllPods, ShortName[k]}}

\* A map from names to samples.  By NAME, finding nothing is an error, and so is
\* asking in all namespaces: client-go refuses a Get with an empty namespace.
GetPodMetricsFromMetricsAPI ==
  Failures \cup
    IF ctx = "live" /\ (query.resourceName # AllPods => ~query.allNamespaces /\ Asked # {})
    THEN {Reply([k \in Asked |-> podSample[k]])} ELSE {}

\* The pod object that has the name now; without one, the server says not found.
MutGetPodByPodname(k) ==
  Failures \cup
    {Reply(p) : p \in {q \in Pod : /\ ctx = "live" /\ Exists(q)
                                  /\ ShortName[NameOf[q]] = ShortName[k]}}
GetPodByPodname(k) ==
  Failures \cup
    {Reply(p) : p \in {q \in Pod : ctx = "live" /\ NameOf[q] = k /\ Exists(q)}}

-----------------------------------------------------------------------------
(* The main goroutine.                                                     *)

\* ServerGroups takes no context: it fails by itself, even after the deadline,
\* and so does the command if the metrics API is not among the groups.
Discover ==
  /\ pc = "discover"
  /\ \/ pc' = "metrics" /\ UNCHANGED <<outcome, fault>>
     \/ Return("api") /\ NoteFault("api")
  /\ UNCHANGED <<ownVars, ctx, names, collectVars, workVars>>

\* List the samples, put their names in order, start one goroutine per sample.
ListMetrics ==
  /\ pc = "metrics"
  /\ UNCHANGED <<clusterVars, podSample, query, ctx, collectVars, row, err>>
  /\ \E r \in GetPodMetricsFromMetricsAPI :
       /\ NoteFault(r.err)
       /\ \/ r.err # "nil" /\ Return(r.err) /\ UNCHANGED <<podmetrics, names, at>>
          \/ /\ r.err = "nil"
             /\ podmetrics' = r.val
             /\ Arrange([k \in DOMAIN r.val |-> r.val[k].usage])
             /\ StartAll

Collecting == Collect /\ UNCHANGED ownVars

-----------------------------------------------------------------------------
(* The goroutine of the sample listed under name k.                        *)

\* The sample it was started with: podmetric is an argument of the closure.
MutCaptured(k) == podSample[k]
Captured(k) == podmetrics[k]

WorkerPod(k) ==
  /\ at[k] = "pod"
  /\ \E r \in GetPodByPodname(k) :
       /\ NoteFault(r.err)
       /\ \/ r.err # "nil" /\ Fail(k, r.err) /\ UNCHANGED row
          \/ /\ r.err = "nil"
             /\ row' = [row EXCEPT ![k] = [@ EXCEPT !.pod = r.val]]
             /\ at' = [at EXCEPT ![k] = "types"]
             /\ UNCHANGED err
  /\ UNCHANGED <<ownVars, ctx, pc, names, collectVars, outcome>>

\* The steps that make no call.
WorkerRuns(k) ==
  /\ \/ Begin(k, "pod")
     \/ AddType(k, [row[k] EXCEPT !.sample = Captured(k)])
     \/ Send(k)
  /\ UNCHANGED ownVars

-----------------------------------------------------------------------------
(* The environment.                                                        *)

TimerFires == Deadline /\ UNCHANGED ownVars

\* The metrics server takes a sample of the pod that runs under a name, or
\* drops that of a pod that does not run any more.
Scrape(k) ==
  /\ "usage" \in Changes
  /\ LET running == {p \in Pod : NameOf[p] = k /\ place[p] \in Node}
     IN  \E s \in IF running = {} THEN {NoSample} ELSE [of : running, usage : 0..MaxUsage] :
           podSample' = [podSample EXCEPT ![k] = s]
  /\ UNCHANGED <<clusterVars, query, podmetrics, fanVars>>

ClusterChange == ClusterNext /\ UNCHANGED <<podSample, query, podmetrics, fanVars>>

Next ==
  \/ Discover \/ ListMetrics \/ Collecting
  \/ \E k \in PodName : WorkerRuns(k) \/ WorkerPod(k)
  \/ TimerFires
  \/ \E k \in PodName : Scrape(k)
  \/ ClusterChange

Spec == Init /\ [][Next]_vars

(***************************************************************************)
(* As for the nodes; the discovery is not bound by the context, so that    *)
(* nothing says that it ends.                                              *)
(***************************************************************************)
Fairness ==
  /\ WF_vars(TimerFires)
  /\ WF_vars(CtxDone /\ ListMetrics)
  /\ WF_vars(Collecting)
  /\ \A k \in PodName : WF_vars(WorkerRuns(k)) /\ WF_vars(CtxDone /\ WorkerPod(k))

FairSpec == Spec /\ Fairness

-----------------------------------------------------------------------------
(* Properties of the pod table; those of any fan-out are in FanOut.        *)

(* With --sort-by, the table is in descending order of the usage it shows, *)
(* even while samples are taken: unlike GetNodeResources, the goroutines   *)
(* show the samples that were sorted (kube.go:298, 326).                   *)
ShownInUsageOrder ==
  outcome = "rows" /\ Sorted =>
    \A j, k \in 1..Len(resources) :
      j < k => resources[j].sample.usage >= resources[k].sample.usage

(* A row pairs the usage and the limits of pods of one namespace and name; *)
(* of two different pods only if the measured one has been deleted and     *)
(* another created under its name before the Get (kube.go:193, 310).       *)
RowsPairOnePod ==
  \A j \in 1..Len(resources) :
    LET r == resources[j]
    IN  /\ NameOf[r.pod] = r.name /\ NameOf[r.sample.of] = r.name
        /\ r.pod # r.sample.of => place[r.sample.of] = Deleted

(* Once the discovery has answered the command ends, even if the API       *)
(* server never answers any other call (resource_pod.go:164, 183).         *)
Returns == pc # "discover" ~> pc = "exited"
=============================================================================
