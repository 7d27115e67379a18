SPECIFICATION Spec
CONSTANTS
  Item = {n1, n2, n3}
  Row <- MCRow
  NamespaceOf <- MCNamespaceOf
  ShortName <- MCShortName
  Sorted = FALSE
  NumTypes = 1
  Commands = {"node", "pod"}
  Burst = 2
  Limit = 1
  Main = main
SYMMETRY MCSymmetry
INVARIANT TypeOK
INVARIANT BurstIsFree
INVARIANT TooManyNeverSucceed
INVARIANT NeverRefusedEarly
PROPERTY KeepsPromise
CHECK_DEADLOCK FALSE
