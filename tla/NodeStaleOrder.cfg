SPECIFICATION Spec
CONSTANTS
  Node = {n1, n2}
  Item = {n1, n2}
  Row <- MCRow
  NamespaceOf <- MCNamespaceOf
  ShortName <- MCShortName
  Pod = {}
  PodName = {}
  NameOf <- MCNameOf
  Absent = Absent
  Unbound = Unbound
  Completed = Completed
  Deleted = Deleted
  Changes = {"usage"}
  MaxUsage = 1
  NoUsage = NoUsage
  AllNodes = AllNodes
  Sorted = TRUE
  NumTypes = 1
SYMMETRY MCSymmetry
INVARIANT KnownRowsInUsageOrder
CHECK_DEADLOCK FALSE
