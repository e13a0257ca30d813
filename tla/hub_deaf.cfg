SPECIFICATION FairSpec
CONSTANTS
  c1 = c1
  Slaves = 1
  Control = {c1}
  MaxBackoff = 1
  Events = {"scan"}
PROPERTY NoDeafGateway
CHECK_DEADLOCK FALSE
