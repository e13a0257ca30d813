SPECIFICATION Spec
CONSTANTS
  None = none
  f1 = f1 f2 = f2 c1 = c1 c2 = c2 i1 = i1 i2 = i2
  MaxReloads = 1
  MaxChanges = 2
  Flow = {f1}
  Slave = {1, 2}
  Kind <- MCKind
  S402Id = {0}
  CoverId = {c1, c2}
  Interval = {i1, i2}
  Layout <- MCLayout
INVARIANTS TypeOK OptionsLoadable OneDriver RunsStored
PROPERTIES IdentityKept
SYMMETRY Symmetric
