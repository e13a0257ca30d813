SPECIFICATION Spec
CONSTANTS
  e1 = e1 e2 = e2
  r1 = r1 r2 = r2 r3 = r3
  k1 = k1
  None = none
  Output = {e1}
  Register = {r1, r2}
  Owner <- MCOwner
  Main <- MCMain
  Value = {0, 1}
  Cover = {k1}
  MaxActions = 1
  MaxClock = 3
INVARIANTS TypeOK EntitiesInv ShowsQueued Truthful AssumedIsCurrent
CHECK_DEADLOCK FALSE
