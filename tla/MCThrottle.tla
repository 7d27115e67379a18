----------------------------- MODULE MCThrottle -----------------------------
(* Throttle with rows that have no content.                                *)
EXTENDS Throttle, TLC

MCRow == Rows
MCNamespaceOf == [n \in Item |-> "cluster"]
MCShortName == [n \in Item |-> n]
MCSymmetry == Permutations(Item)
=============================================================================
