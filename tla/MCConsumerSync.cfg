SPECIFICATION FairSpec
CONSTANTS
  k1 = k1
  k2 = k2
  dep = dep
  attr = attr
  v1 = v1
  v2 = v2
  Key = {k1, k2}
  Field = {dep, attr}
  Value = {v1, v2}
  Constraint = {v1, v2}
  NoValue = NoValue
  DepField = dep
  InputFVs <- MCInputFVs
  Threshold = 1
  DelRetries = TRUE
INVARIANTS CacheIndexed NoLostResolution Golden
PROPERTIES EventuallyApplied
