SPECIFICATION Spec
CONSTANTS
  c1 = c1
  Slaves = 2
  Control = {c1}
  MaxBackoff = 2
  Events = {"refresh", "scan", "cancel"}
INVARIANTS TypeOK HealthFollowsPolls LostHoldsNoControl HubInv OneBusUser ScanAlone StoppedIsFinal
PROPERTIES BackoffStartsOver
CHECK_DEADLOCK FALSE
