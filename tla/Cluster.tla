------------------------------ MODULE Cluster ------------------------------
(***************************************************************************)
(* The objects of the Kubernetes API server that kubectl-resource-view     *)
(* reads, and the changes other clients make to them while a command runs. *)
(* The API server is not part of the repository: this module models what   *)
(* the calls in pkg/kube/kube.go can observe of it.  Field values are      *)
(* abstracted away; an object is its identity.                             *)
(***************************************************************************)
EXTENDS Naturals

CONSTANTS
  Node,        \* node names
  Pod,         \* pod objects (one element per UID, never reused)
  PodName,     \* namespace/name keys
  NameOf,      \* the namespace/name of each pod object
  Absent,      \* place of a pod that has not been created yet
  Unbound,     \* place of a pending pod: spec.nodeName is ""
  Completed,   \* place of a pod whose phase is Succeeded or Failed
  Deleted,     \* place of a pod removed from the API server
  Changes      \* which of "nodes", "pods", "usage" change while a command runs

ASSUME ClusterAssumption ==
  /\ NameOf \in [Pod -> PodName]
  /\ {Absent, Unbound, Completed, Deleted} \cap Node = {}
  /\ Absent \notin {Unbound, Completed, Deleted}
  /\ Unbound \notin {Completed, Deleted}
  /\ Completed # Deleted
  /\ Changes \subseteq {"nodes", "pods", "usage"}

VARIABLES
  up,          \* the nodes that have a Node object
  place        \* where each pod is: a node, or one of the four constants above

clusterVars == <<up, place>>

Place == Node \cup {Absent, Unbound, Completed, Deleted}

ClusterTypeOK ==
  /\ up \in SUBSET Node
  /\ place \in [Pod -> Place]

\* A pod object exists in the API server, whatever its phase.
Exists(p) == place[p] \notin {Absent, Deleted}

\* Two pod objects that exist at the same time have different names.
NamesUnique ==
  \A p, q \in Pod : Exists(p) /\ Exists(q) /\ NameOf[p] = NameOf[q] => p = q

ClusterInit ==
  /\ up \in SUBSET Node
  /\ place \in [Pod -> Place \ {Deleted}]
  /\ NamesUnique

-----------------------------------------------------------------------------
(* Nodes register and are removed; removing a node leaves its pods bound   *)
(* to the name until the garbage collector deletes them.                   *)

NodeJoins(n) ==
  /\ "nodes" \in Changes
  /\ n \notin up
  /\ up' = up \cup {n}
  /\ UNCHANGED place

NodeLeaves(n) ==
  /\ "nodes" \in Changes
  /\ n \in up
  /\ up' = up \ {n}
  /\ UNCHANGED place

(* A pod is created pending, is bound to one node for good, completes and  *)
(* is deleted; a new object with the same name may then be created.        *)

PodCreated(p) ==
  /\ "pods" \in Changes
  /\ place[p] = Absent
  /\ \A q \in Pod : NameOf[q] = NameOf[p] => ~Exists(q)
  /\ place' = [place EXCEPT ![p] = Unbound]
  /\ UNCHANGED up

PodBound(p, n) ==
  /\ "pods" \in Changes
  /\ place[p] = Unbound
  /\ n \in up
  /\ place' = [place EXCEPT ![p] = n]
  /\ UNCHANGED up

PodCompletes(p) ==
  /\ "pods" \in Changes
  /\ place[p] \in Node
  /\ place' = [place EXCEPT ![p] = Completed]
  /\ UNCHANGED up

PodDeleted(p) ==
  /\ "pods" \in Changes
  /\ Exists(p)
  /\ place' = [place EXCEPT ![p] = Deleted]
  /\ UNCHANGED up

ClusterNext ==
  \/ \E n \in Node : NodeJoins(n) \/ NodeLeaves(n)
  \/ \E p \in Pod : PodCreated(p) \/ PodCompletes(p) \/ PodDeleted(p)
  \/ \E p \in Pod, n \in Node : PodBound(p, n)
=============================================================================
