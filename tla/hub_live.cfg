SPECIFICATION FairSpec
CONSTANTS
  c1 = c1
  Slaves = 1
  Control = {c1}
  MaxBackoff = 1
  Events = {"refresh", "scan", "options"}
PROPERTIES Reconnects KeepsPolling StopEnds
CHECK_DEADLOCK FALSE
