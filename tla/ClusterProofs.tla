--------------------------- MODULE ClusterProofs ----------------------------
(***************************************************************************)
(* What the changes of the cluster never undo.                             *)
(***************************************************************************)
EXTENDS Cluster, TLAPS

\* A pod stays on its node, or completes, or is deleted; it is deleted for good;
\* and no two pods that exist have one name.
LEMMA PlaceStep ==
  ASSUME ClusterTypeOK, ClusterNext
  PROVE  /\ ClusterTypeOK'
         /\ \A n \in Node, p \in Pod :
              place[p] \in {n, Completed, Deleted} => place'[p] \in {n, Completed, Deleted}
         /\ \A p \in Pod :
              /\ place[p] = Deleted => place'[p] = Deleted
              /\ place[p] \notin {Absent, Unbound} => place'[p] \notin {Absent, Unbound}
         /\ NamesUnique => NamesUnique'
  <1> USE ClusterAssumption DEF ClusterTypeOK, Place, NamesUnique, Exists
  <1>1. ASSUME NEW n \in Node, NodeJoins(n) \/ NodeLeaves(n)
        PROVE  up' \in SUBSET Node /\ place' = place
    BY <1>1 DEF NodeJoins, NodeLeaves
  <1>2. ASSUME NEW p \in Pod, PodCreated(p)
        PROVE  /\ up' = up /\ place[p] = Absent /\ place' = [place EXCEPT ![p] = Unbound]
               /\ \A q \in Pod : NameOf[q] = NameOf[p] => ~Exists(q)
    BY <1>2 DEF PodCreated
  <1>3. ASSUME NEW p \in Pod, PodCompletes(p)
        PROVE  /\ up' = up /\ place[p] \in Node
               /\ place' = [place EXCEPT ![p] = Completed]
    BY <1>3 DEF PodCompletes
  <1>4. ASSUME NEW p \in Pod, PodDeleted(p)
        PROVE  /\ up' = up /\ Exists(p)
               /\ place' = [place EXCEPT ![p] = Deleted]
    BY <1>4 DEF PodDeleted
  <1>5. ASSUME NEW p \in Pod, NEW n \in Node, PodBound(p, n)
        PROVE  up' = up /\ place[p] = Unbound /\ place' = [place EXCEPT ![p] = n]
    BY <1>5 DEF PodBound
  <1> QED
    BY <1>1, <1>2, <1>3, <1>4, <1>5 DEF ClusterNext
=============================================================================
