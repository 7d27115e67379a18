--------------------------- MODULE MCPodResources ---------------------------
(* PodResources on small instances: keys of two namespaces with the same   *)
(* name, and pods that can follow one another under one key.               *)
EXTENDS PodResources

CONSTANTS a, b, x, p1, p2, p3

\* The keys a/x and b/x.
MCPodName2 == {<<a, x>>, <<b, x>>}
MCRow == Rows
MCNamespaceOf == [k \in PodName |-> k[1]]
MCShortName == [k \in PodName |-> k[2]]

\* p1 and p3 are two incarnations of a/x; p2 is b/x if that key is there.
MCNameOf == [p \in Pod |-> IF p = p2 THEN <<b, x>> ELSE <<a, x>>]
=============================================================================
