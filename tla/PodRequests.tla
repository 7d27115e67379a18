---------------------------- MODULE PodRequests ----------------------------
(***************************************************************************)
(* PodRequestsAndLimits (pkg/kube/resource.go): one pass over the          *)
(* containers of a pod, one over its init containers, then the overhead of *)
(* running a pod.  Allocation calls it, pod by pod.                        *)
(***************************************************************************)
EXTENDS Quantities, SequencesExt

VARIABLES
  pod,         \* the pod; no overhead (nil) is the empty list
  c,           \* containers added
  n,           \* init containers compared
  reqs,
  limits,
  returned     \* the overhead is in

podVars == <<pod, c, n, reqs, limits, returned>>

\* The API server gives a container that has a limit and no request a request
\* equal to the limit, and refuses one that requests more than its limit.
IsContainer(x) ==
  /\ x = [requests |-> x.requests, limits |-> x.limits]
  /\ IsResourceList(x.requests) /\ IsResourceList(x.limits)
  /\ \A r \in DOMAIN x.limits : r \in DOMAIN x.requests /\ x.requests[r] <= x.limits[r]

IsContainers(s) == s \in Seq(Range(s)) /\ \A x \in Range(s) : IsContainer(x)

IsPod(x) ==
  /\ IsContainers(x.containers) /\ IsContainers(x.initContainers)
  /\ IsResourceList(x.overhead)

PodTypeOK ==
  /\ IsPod(pod)
  /\ c \in 0..Len(pod.containers)
  /\ n \in 0..Len(pod.initContainers)
  /\ IsResourceList(reqs)
  /\ IsResourceList(limits)
  /\ returned \in BOOLEAN

\* The call for pod p.
PodInit(p) ==
  /\ pod = p
  /\ c = 0 /\ n = 0
  /\ reqs = EmptyList /\ limits = EmptyList
  /\ returned = FALSE

PodCall(p) ==
  /\ pod' = p
  /\ c' = 0 /\ n' = 0
  /\ reqs' = EmptyList /\ limits' = EmptyList
  /\ returned' = FALSE

AddContainer ==
  /\ c < Len(pod.containers)
  /\ c' = c + 1
  /\ reqs' = addResourceList(reqs, pod.containers[c'].requests)
  /\ limits' = addResourceList(limits, pod.containers[c'].limits)
  /\ UNCHANGED <<pod, n, returned>>

\* Init containers run one at a time: each defines a minimum.
MaxInitContainer ==
  /\ c = Len(pod.containers) /\ n < Len(pod.initContainers)
  /\ n' = n + 1
  /\ reqs' = maxResourceList(reqs, pod.initContainers[n'].requests)
  /\ limits' = maxResourceList(limits, pod.initContainers[n'].limits)
  /\ UNCHANGED <<pod, c, returned>>

AddOverhead ==
  /\ c = Len(pod.containers) /\ n = Len(pod.initContainers) /\ ~returned
  /\ reqs' = addResourceList(reqs, pod.overhead)
  /\ limits' = addToNonZero(limits, pod.overhead)
  /\ returned' = TRUE
  /\ UNCHANGED <<pod, c, n>>

PodNext == AddContainer \/ MaxInitContainer \/ AddOverhead

-----------------------------------------------------------------------------
(* What a pod needs, by definition: its containers together, or its        *)
(* largest init container if that is more; and the overhead on top.        *)

\* What each container requests of r, and what it is limited to.
RequestsIn(s, r) == [k \in DOMAIN s |-> Amount(s[k].requests, r)]
LimitsIn(s, r) == [k \in DOMAIN s |-> Amount(s[k].limits, r)]

Needed(together, alone) == Max({Total(together, Len(together))} \cup Range(alone))

EffectiveRequest(s, r) ==
  Needed(RequestsIn(s.containers, r), RequestsIn(s.initContainers, r)) + Amount(s.overhead, r)
EffectiveLimit(s, r) ==
  LET needed == Needed(LimitsIn(s.containers, r), LimitsIn(s.initContainers, r))
  IN  IF needed = 0 THEN 0 ELSE needed + Amount(s.overhead, r)

(* The three passes compute the effective requests, whichever containers   *)
(* name a resource and in whatever order they come (resource.go:492-503).  *)
EffectiveRequests ==
  returned => \A r \in Resource : Amount(reqs, r) = EffectiveRequest(pod, r)

(* The overhead is added to "the total container limits which have a       *)
(* non-zero quantity", and never makes a limit (resource.go:488, 505-510). *)
EffectiveLimits ==
  returned => \A r \in Resource : Amount(limits, r) = EffectiveLimit(pod, r)

\* Every container that requests r limits it.
Limited(s, r) ==
  \A x \in Range(s.containers) \cup Range(s.initContainers) :
    r \in DOMAIN x.requests => r \in DOMAIN x.limits

(* The API server bounds each container's request by its limit; the pod's  *)
(* request is bounded by the pod's limit too, though sums, maxima and the  *)
(* overhead are taken of each separately - unless the limit is zero, which *)
(* the overhead is not added to, or one container has no limit, which      *)
(* leaves the pod's limit that of the others (resource.go:492-512).        *)
LimitsBoundRequests ==
  returned => \A r \in Resource :
    Limited(pod, r) /\ Amount(limits, r) # 0 => Amount(reqs, r) <= Amount(limits, r)
=============================================================================
