-------------------------- MODULE MCNodeResources --------------------------
(* NodeResources on small instances; every pod has a name of its own.      *)
EXTENDS NodeResources

MCNameOf == [p \in Pod |-> p]
MCRow == Rows
MCNamespaceOf == [n \in Item |-> "cluster"]
MCShortName == [n \in Item |-> n]
MCSymmetry == Permutations(Node) \cup Permutations(Pod)

\* Bound: nodes sampled between the sort and the end, so that two of three are not.
MCOneResampled == Cardinality(resampled) <= 1
=============================================================================
