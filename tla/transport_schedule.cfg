SPECIFICATION Spec
CONSTANTS
  s1 = s1 s2 = s2 s3 = s3
  k1 = k1 k2 = k2
  NoRequest = none
  Stateful = {s1, s2}
  Action = {a1, a2, a3}
  Poll = {}
  Probe = {}
  Cancellable = {s1, s2}
  Key = {k1, k2}
  KeyOf <- MCKeyOf
  StatefulCapacity = 1
  ActionCapacity = 2
  MaxConnections = 1
  Drops = {"reset"}
SYMMETRY CallSymmetry
INVARIANTS QueueBounds FifoActions Inv
PROPERTIES NoSendAfterVerdict KeepsPromise
CHECK_DEADLOCK FALSE
