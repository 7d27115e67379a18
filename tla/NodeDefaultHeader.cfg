SPECIFICATION Spec
CONSTANTS
  Commands = {"node"}
  TypeFlags <- MCTypeFlags
  Item = {"a"}
INVARIANT HeaderFits
CHECK_DEADLOCK FALSE
