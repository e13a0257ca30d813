SPECIFICATION Spec
CONSTANTS
  s1 = s1 s2 = s2 s3 = s3
  k1 = k1 k2 = k2
  Slaves = {1, 2}
  Functions <- MCFunctions
  Addresses <- MCAddresses
  Values = {0, 1, 125, 2000}
  Lengths = {4, 5, 7, 8, 255}
  NoRequest = none
  Stateful = {s1}
  Action = {}
  Poll = {p1}
  Probe = {q1}
  Cancellable = {s1}
  Key = {k1, k2}
  KeyOf <- MCKeyOf
  StatefulCapacity = 1
  ActionCapacity = 1
  MaxConnections = 2
  Drops = {"eof", "reset"}
INVARIANTS TypeOK Inv AtMostOnce AnswerIsOwn ExclusiveBus CloseIsFinal
CHECK_DEADLOCK FALSE
