SPECIFICATION FairSpec
CONSTANTS
  Node = {n1}
  Pod = {p1, p2}
  PodName <- MCPodName2
  Item <- MCPodName2
  Row <- MCRow
  NameOf <- MCNameOf
  Absent = Absent
  Unbound = Unbound
  Completed = Completed
  Deleted = Deleted
  Changes = {"usage"}
  Namespace = {a, b}
  NamespaceOf <- MCNamespaceOf
  ShortName <- MCShortName
  MaxUsage = 1
  NoSample = NoSample
  NoPod = NoPod
  AllPods = AllPods
  Sorted = TRUE
  NumTypes = 2
  a = a
  b = b
  x = x
  p1 = p1
  p2 = p2
  p3 = p3
INVARIANT SomebodyAnswers
INVARIANT RowsComplete
INVARIANT NoErrorSwallowed
INVARIANT ErrorIsGenuine
INVARIANT ShownInUsageOrder
PROPERTY Returns
PROPERTY NoGoroutineLeak
CHECK_DEADLOCK FALSE
