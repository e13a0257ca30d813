SPECIFICATION Spec
CONSTANTS
  None = none
  f1 = f1 f2 = f2 c1 = c1 c2 = c2 i1 = i1 i2 = i2
  MaxReloads = 2
  MaxChanges = 2
  Flow = {f1, f2}
  Slave = {1, 2}
  Kind <- MCKind
  S402Id = {0}
  CoverId = {c1}
  Interval = {i1}
  Layout <- MCLayout
INVARIANTS S402Distinct
