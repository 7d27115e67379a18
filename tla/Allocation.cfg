SPECIFICATION Spec
CONSTANTS
  Resource = {"cpu", "memory", "gpu", "pods"}
  Scale = 2
  Mebi = 7
  Families <- MCFamilies
INVARIANT TypeOK
INVARIANT EffectiveRequests
INVARIANT EffectiveLimits
INVARIANT LimitsBoundRequests
INVARIANT TotalsAreExact
INVARIANT ExcessIsRed
INVARIANT OverHundredIsExcess
INVARIANT MarksAreReal
CHECK_DEADLOCK FALSE
