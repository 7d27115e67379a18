---------------------------- MODULE MCAllocation ----------------------------
(* Allocation on every pod of at most two containers and two init          *)
(* containers with quantities of at most two small units; on nodes of      *)
(* 200 or 20000 units with up to three pods whose requests land below, on  *)
(* and above the thresholds; on pods limited to about 200 units with up to *)
(* three samples that do; and on calls for each of the types.              *)
EXTENDS Allocation

Of(r, q) == [x \in {r} |-> q]
Cpu(q) == Of("cpu", q)
Container(req, lim) ==
  [requests |-> Cpu(req), limits |-> IF lim = 0 THEN EmptyList ELSE Cpu(lim)]
Bare == [requests |-> EmptyList, limits |-> EmptyList]
UpTo2(S) == {<<>>} \cup {<<x>> : x \in S} \cup {<<x, y>> : x, y \in S}
UpTo3(S) == UpTo2(S) \cup {<<x, y, z>> : x, y, z \in S}
Alone(x) == [containers |-> <<x>>, initContainers |-> <<>>, overhead |-> EmptyList]
Room400(k) == [r \in {"cpu", "memory", "gpu", "pods"} |-> IF r = "pods" THEN k ELSE 400]

NodeCall(pods, capacity, allocatable, samples, type) ==
  [command |-> "node", podList |-> pods, name |-> "a", capacity |-> capacity,
   allocatable |-> allocatable, samples |-> samples, type |-> type]
PodCallOf(p, samples, type) ==
  [command |-> "pod", podList |-> <<p>>, name |-> "", capacity |-> EmptyList,
   allocatable |-> EmptyList, samples |-> samples, type |-> type]

\* Small pods.
Lists == {EmptyList} \cup {Cpu(q) : q \in 0..2}
Containers == {x \in [requests : Lists, limits : Lists] : IsContainer(x)}
SmallPods == [containers : UpTo2(Containers) \ {<<>>}, initContainers : UpTo2(Containers),
              overhead : Lists]
SmallCalls == {PodCallOf(p, <<>>, "cpu") : p \in SmallPods}

\* Nodes near the thresholds.
NodePods ==
  {Alone(Container(q, 0)) : q \in {0, 1, 379, 398, 38001, 39999}}
    \cup {Alone(Container(q, q)) : q \in {1, 180}}
    \cup {[containers |-> <<Container(180, 180), Bare>>,
           initContainers |-> <<Container(200, 200)>>, overhead |-> Cpu(1)],
          [containers |-> <<Bare>>, initContainers |-> <<>>, overhead |-> Cpu(1)]}
Nodes == {[capacity |-> Of("cpu", 0), allocatable |-> EmptyList],
          [capacity |-> Room400(6), allocatable |-> EmptyList],
          [capacity |-> Of("cpu", 40000), allocatable |-> EmptyList]}
    \cup {[capacity |-> Of("cpu", 800), allocatable |-> Room400(k)] : k \in {2, 5}}
NodeCalls ==
  {NodeCall(s, x.capacity, x.allocatable, <<>>, t) :
     s \in UpTo3(NodePods), x \in Nodes, t \in {"cpu", "pod"}}

\* Pods near the thresholds.
LimitedPods ==
  [containers : {<<Container(1, 0)>>, <<Container(100, 400)>>,
                 <<Container(0, 200), Container(200, 200)>>},
   initContainers : {<<>>, <<Container(400, 400)>>},
   overhead : {EmptyList, Cpu(4)}]
Samples == {[name |-> "c", usage |-> u] :
              u \in {EmptyList} \cup {Cpu(q) : q \in {0, 1, 180, 189, 191, 200, 380}}}
PodCalls == {PodCallOf(p, s, "cpu") : p \in LimitedPods, s \in UpTo3(Samples)}

\* Each type, with all the resources.
All(q) == [r \in {"cpu", "memory", "gpu"} |-> q]
Full == Alone([requests |-> All(380), limits |-> All(390)])
Sample(x, q) == [name |-> x, usage |-> [r \in Measured |-> q]]
TypeCalls ==
  LET types == {"", "cpu", "memory", "gpu", "pod"}
      samples == {<<>>, <<Sample("b", 3)>>, <<Sample("b", 3), Sample("a", 397)>>}
  IN  {NodeCall(s, Room400(2), EmptyList, u, t) :
         s \in UpTo2({Full}), u \in samples, t \in types}
        \cup {PodCallOf(Full, u, t) : u \in samples, t \in types}

MCFamilies == {SmallCalls, NodeCalls, PodCalls, TypeCalls}
=============================================================================
