SPECIFICATION Spec
CONSTANTS
  Node = {n1, n2}
  Item = {n1, n2}
  Row <- MCRow
  NamespaceOf <- MCNamespaceOf
  ShortName <- MCShortName
  Pod = {p1}
  PodName = {p1}
  NameOf <- MCNameOf
  Absent = Absent
  Unbound = Unbound
  Completed = Completed
  Deleted = Deleted
  Changes = {"nodes", "pods"}
  MaxUsage = 1
  NoUsage = NoUsage
  AllNodes = AllNodes
  Sorted = TRUE
  NumTypes = 1
SYMMETRY MCSymmetry
INVARIANT TypeOK
INVARIANT KnownRowsChargeOwnPods
CHECK_DEADLOCK FALSE
