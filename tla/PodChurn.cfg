SPECIFICATION Spec
CONSTANTS
  Node = {n1}
  Pod = {p1, p2, p3}
  PodName <- MCPodName2
  Item <- MCPodName2
  Row <- MCRow
  NameOf <- MCNameOf
  Absent = Absent
  Unbound = Unbound
  Completed = Completed
  Deleted = Deleted
  Changes = {"pods"}
  Namespace = {a, b}
  NamespaceOf <- MCNamespaceOf
  ShortName <- MCShortName
  MaxUsage = 0
  NoSample = NoSample
  NoPod = NoPod
  AllPods = AllPods
  Sorted = FALSE
  NumTypes = 1
  a = a
  b = b
  x = x
  p1 = p1
  p2 = p2
  p3 = p3
INVARIANT TypeOK
INVARIANT RowsPairOnePod
PROPERTY KeepsPromise
CHECK_DEADLOCK FALSE
