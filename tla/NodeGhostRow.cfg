SPECIFICATION Spec
CONSTANTS
  Node = {n1, n2}
  Item = {n1, n2}
  Row <- MCRow
  NamespaceOf <- MCNamespaceOf
  ShortName <- MCShortName
  Pod = {p1}
  PodName = {p1}
  NameOf <- MCNameOf
  Absent = Absent
  Unbound = Unbound
  Completed = Completed
  Deleted = Deleted
  Changes = {"nodes"}
  MaxUsage = 1
  NoUsage = NoUsage
  AllNodes = AllNodes
  Sorted = FALSE
  NumTypes = 1
SYMMETRY MCSymmetry
INVARIANT RowsChargeOwnPods
CHECK_DEADLOCK FALSE
