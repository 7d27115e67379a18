SPECIFICATION Spec
CONSTANTS
  Node = {n1, n2, n3}
  Item = {n1, n2, n3}
  Row <- MCRow
  NamespaceOf <- MCNamespaceOf
  ShortName <- MCShortName
  Pod = {}
  PodName = {}
  NameOf <- MCNameOf
  Absent = Absent
  Unbound = Unbound
  Completed = Completed
  Deleted = Deleted
  Changes = {}
  MaxUsage = 1
  NoUsage = NoUsage
  AllNodes = AllNodes
  Sorted = TRUE
  NumTypes = 2
SYMMETRY MCSymmetry
INVARIANT RoomForEveryAnswer
INVARIANT AnswersAccounted
INVARIANT SomebodyAnswers
INVARIANT RowsComplete
INVARIANT NoErrorSwallowed
INVARIANT ErrorIsGenuine
PROPERTY KeepsPromise
CHECK_DEADLOCK FALSE
