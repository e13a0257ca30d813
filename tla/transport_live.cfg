SPECIFICATION FairSpec
CONSTANTS
  s1 = s1 s2 = s2 s3 = s3
  k1 = k1 k2 = k2
  NoRequest = none
  Stateful = {s1}
  Action = {}
  Poll = {p1}
  Probe = {q1}
  Cancellable = {}
  Key = {k1, k2}
  KeyOf <- MCKeyOf
  StatefulCapacity = 1
  ActionCapacity = 1
  MaxConnections = 1
  Drops = {"eof", "reset"}
PROPERTIES EveryCallEnds CloseEnds
CHECK_DEADLOCK FALSE
