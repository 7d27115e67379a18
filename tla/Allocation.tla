----------------------------- MODULE Allocation -----------------------------
(***************************************************************************)
(* getNodeAllocatedResources and getPodAllocatedResources (pkg/kube/       *)
(* resource.go), and the cells GetNodeResources and GetPodResources make   *)
(* of their results.  Both sum the requests and limits of pods (one pod    *)
(* after the other, by PodRequestsAndLimits).  A node shows its requests   *)
(* against its capacity, a pod its usage against its limits, with a        *)
(* percentage that is marked when it is high.                              *)
(***************************************************************************)
EXTENDS PodRequests

CONSTANT
  Families     \* sets of the calls considered, see IsCall

Measured == {"cpu", "memory"}                      \* MeasuredResources
Columns  == [node |-> {"cpu", "memory", "gpu", "pods"}, pod |-> {"cpu", "memory", "gpu"}]

\* The arguments: the pods (for the command "pod", one), the node, the samples
\* of the nodes or of the pod's containers, and the resourceType.
\* The API server refuses a container that names the resource "pods".
IsCall(x) ==
  /\ x = [command |-> x.command, podList |-> x.podList, name |-> x.name,
          capacity |-> x.capacity, allocatable |-> x.allocatable,
          samples |-> x.samples, type |-> x.type]
  /\ x.command \in {"node", "pod"}
  /\ x.podList \in Seq(Range(x.podList)) /\ \A p \in Range(x.podList) : IsPod(p)
  /\ \A p \in Range(x.podList) : \A k \in Range(p.containers) \cup Range(p.initContainers) :
       "pods" \notin DOMAIN k.limits
  /\ x.command = "pod" => Len(x.podList) = 1
  /\ IsResourceList(x.capacity) /\ IsResourceList(x.allocatable)
  /\ x.samples \in Seq(Range(x.samples))
  /\ \A s \in Range(x.samples) :
       IsResourceList(s.usage) /\ DOMAIN s.usage \subseteq Measured

ASSUME AllocationAssumption ==
  /\ {"cpu", "memory", "gpu", "pods"} \subseteq Resource
  /\ \A F \in Families : \A x \in F : IsCall(x)

VARIABLES
  call,        \* the arguments
  seen,        \* pods summed
  allReqs,     \* reqs and limits of the two functions
  allLimits,
  added,       \* samples of containers added by getPodMetrics
  podMetrics,  \* their sum
  cells        \* what is shown of each resource

vars == <<call, podVars, seen, allReqs, allLimits, added, podMetrics, cells>>

\* Numbers and percentages; those a command does not show are 0.
IsCell(x) ==
  /\ x = [use |-> x.use, req |-> x.req, lim |-> x.lim, cap |-> x.cap,
          pct |-> x.pct, mark |-> x.mark, limPct |-> x.limPct]
  /\ {x.use, x.req, x.lim, x.cap, x.pct, x.limPct} \subseteq Nat
  /\ x.mark \in {"red", "yellow", "plain"}

TypeOK ==
  /\ IsCall(call)
  /\ PodTypeOK
  /\ seen \in 0..Len(call.podList)
  /\ IsResourceList(allReqs) /\ IsResourceList(allLimits)
  /\ added \in 0..Len(call.samples)
  /\ podMetrics \in [Measured -> Nat]
  /\ DOMAIN cells \subseteq Columns[call.command]
  /\ \A r \in DOMAIN cells : IsCell(cells[r])

NoPod == [containers |-> <<>>, initContainers |-> <<>>, overhead |-> EmptyList]

Init ==
  /\ \E F \in Families : call \in F
  /\ PodInit(IF call.podList = <<>> THEN NoPod ELSE call.podList[1])
  /\ seen = 0
  /\ allReqs = EmptyList /\ allLimits = EmptyList
  /\ added = 0
  /\ podMetrics = [r \in Measured |-> 0]
  /\ cells = EmptyList

-----------------------------------------------------------------------------
PodStep ==
  /\ seen < Len(call.podList)
  /\ PodNext
  /\ UNCHANGED <<call, seen, allReqs, allLimits, added, podMetrics, cells>>

\* Add what PodRequestsAndLimits returned, and call it for the next pod.
MergePod ==
  /\ seen < Len(call.podList) /\ returned
  /\ allReqs' = addResourceList(allReqs, reqs)
  /\ allLimits' = addResourceList(allLimits, limits)
  /\ seen' = seen + 1
  /\ IF seen' = Len(call.podList) THEN UNCHANGED podVars
                                  ELSE PodCall(call.podList[seen' + 1])
  /\ UNCHANGED <<call, added, podMetrics, cells>>

Summed == seen = Len(call.podList)

Put(r, cell) == cells' = [x \in DOMAIN cells \cup {r} |-> IF x = r THEN cell ELSE cells[x]]

\* The switch on resourceType; anything else is the default case, all columns.
Asks(r) ==
  CASE call.type \in {"cpu", "memory", "gpu"} -> r = call.type
    [] call.type = "pod" /\ call.command = "node" -> r = "pods"
    [] OTHER -> TRUE

-----------------------------------------------------------------------------
(* Nodes.                                                                  *)

MutNodeCapacity == call.capacity
NodeCapacity == IF DOMAIN call.allocatable # {} THEN call.allocatable ELSE call.capacity

\* The sample of the node: the last of its name, or the zero NodeMetrics.
NodeUsage ==
  LET own == {j \in DOMAIN call.samples : call.samples[j].name = call.name}
  IN  IF own = {} THEN EmptyList ELSE call.samples[Max(own)].usage

ShowNode(r) ==
  /\ call.command = "node" /\ Summed
  /\ r \in Columns.node \ DOMAIN cells /\ Asks(r)
  /\ LET use == Units(Amount(NodeUsage, r))
         req == IF r = "pods" THEN Len(call.podList) ELSE Units(Amount(allReqs, r))
         lim == IF r = "pods" THEN 0 ELSE Units(Amount(allLimits, r))
         cap == Units(Amount(NodeCapacity, r))
     IN  \E pct \in calcPercentage(req, cap), limPct \in calcPercentage(lim, cap) :
           Put(r, [use |-> String(r, use), req |-> String(r, req), lim |-> String(r, lim),
                   cap |-> String(r, cap), pct |-> pct, mark |-> ExceedsCompare(pct),
                   limPct |-> limPct])
  /\ UNCHANGED <<call, podVars, seen, allReqs, allLimits, added, podMetrics>>

-----------------------------------------------------------------------------
(* Pods.                                                                   *)

Sum(list, usage) == [r \in Measured |-> list[r] + Amount(usage, r)]

\* One iteration of getPodMetrics over the containers measured, which are not
\* always as many as the pod's containers.
AddSample ==
  /\ call.command = "pod" /\ Summed /\ added < Len(call.samples)
  /\ added' = added + 1
  /\ podMetrics' = Sum(podMetrics, call.samples[added'].usage)
  /\ UNCHANGED <<call, podVars, seen, allReqs, allLimits, cells>>

ShowPod(r) ==
  /\ call.command = "pod" /\ Summed /\ added = Len(call.samples)
  /\ r \in Columns.pod \ DOMAIN cells /\ Asks(r)
  /\ LET use == Units(Amount(podMetrics, r))
         lim == Units(Amount(allLimits, r))
     IN  \E pct \in calcPercentage(use, lim) :
           Put(r, [use |-> String(r, use), req |-> String(r, Units(Amount(allReqs, r))),
                   lim |-> String(r, lim), cap |-> 0, pct |-> pct,
                   mark |-> ExceedsCompare(pct), limPct |-> 0])
  /\ UNCHANGED <<call, podVars, seen, allReqs, allLimits, added, podMetrics>>

Next == PodStep \/ MergePod \/ AddSample \/ \E r \in Resource : ShowNode(r) \/ ShowPod(r)

Spec == Init /\ [][Next]_vars

-----------------------------------------------------------------------------
\* What the pods need and may use together, and what is used, by definition.
RequestsOfPods(r) == [j \in DOMAIN call.podList |-> EffectiveRequest(call.podList[j], r)]
LimitsOfPods(r) == [j \in DOMAIN call.podList |-> EffectiveLimit(call.podList[j], r)]
UsageOfSamples(r) == [j \in DOMAIN call.samples |-> Amount(call.samples[j].usage, r)]

Required(r) == IF r = "pods" THEN Scale * Len(call.podList)
               ELSE Total(RequestsOfPods(r), Len(call.podList))
Permitted(r) == Total(LimitsOfPods(r), Len(call.podList))
Used(r) == Total(UsageOfSamples(r), Len(call.samples))

(* What is shown is exact: quantities are summed before they are rounded   *)
(* to the unit shown, for any pods and containers in any order, and        *)
(* nothing of one pod is left for the next (resource.go:183-218).          *)
TotalsAreExact ==
  \A r \in DOMAIN cells :
    /\ cells[r].req = String(r, Units(Required(r)))
    /\ cells[r].lim = String(r, Units(Permitted(r)))
    /\ call.command = "pod" => cells[r].use = String(r, Units(Used(r)))

\* The two quantities a marked percentage compares.
Asked(r) ==
  IF call.command = "pod" THEN Amount(podMetrics, r)
  ELSE IF r = "pods" THEN Scale * Len(call.podList) ELSE Amount(allReqs, r)
Room(r) ==
  IF call.command = "pod" THEN Amount(allLimits, r)
  ELSE Amount(IF DOMAIN call.allocatable = {} THEN call.capacity ELSE call.allocatable, r)

(* A node whose pods request more than the scheduler may give them, and a  *)
(* pod that uses more than its limit, are always marked red (README.md:131, *)
(* 171), however little the excess: rounding to units, to hundredths and   *)
(* the parsing of the cell do not hide it.  Without any capacity or limit, *)
(* 0% is shown instead (common.go:36-40).                                  *)
ExcessIsRed ==
  \A r \in DOMAIN cells : 0 < Room(r) /\ Room(r) < Asked(r) => cells[r].mark = "red"

(* More than 100% is shown only of a node that is really overcommitted,    *)
(* and of a pod that really uses more than its effective limit: the init   *)
(* containers are not charged on top of the containers.                    *)
OverHundredIsExcess ==
  \A r \in DOMAIN cells : cells[r].pct > 10000 =>
    IF call.command = "node" THEN Required(r) > Room(r) ELSE Used(r) > Permitted(r)

(* Red is shown only above 95% of the whole units, yellow only above 90%:  *)
(* the rounding to two decimals never lifts a cell over a threshold        *)
(* (common.go:35-41, 145-153).                                             *)
MarksAreReal ==
  \A r \in DOMAIN cells :
    LET pct == 100 * Units(Asked(r))
    IN  /\ cells[r].mark = "red" => pct > 95 * Units(Room(r))
        /\ cells[r].mark = "yellow" => pct > 90 * Units(Room(r))
=============================================================================
