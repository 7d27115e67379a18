SPECIFICATION Spec
CONSTANTS
  Commands = {"node", "pod", "none", "version", "other"}
  TypeFlags <- MCTypeFlags
  Item = {"a", "b"}
INVARIANT TypeOK
INVARIANT KnownHeaderFits
INVARIANT TableAsAsked
INVARIANT SelectorApplied
INVARIANT TruthfulExit
CHECK_DEADLOCK FALSE
