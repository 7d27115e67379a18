SPECIFICATION FairSpec
CONSTANTS
  Node = {n1, n2}
  Item = {n1, n2}
  Row <- MCRow
  NamespaceOf <- MCNamespaceOf
  ShortName <- MCShortName
  Pod = {}
  PodName = {}
  NameOf <- MCNameOf
  Absent = Absent
  Unbound = Unbound
  Completed = Completed
  Deleted = Deleted
  Changes = {"usage"}
  MaxUsage = 1
  NoUsage = NoUsage
  AllNodes = AllNodes
  Sorted = TRUE
  NumTypes = 2
PROPERTY Returns
PROPERTY NoGoroutineLeak
CHECK_DEADLOCK FALSE
