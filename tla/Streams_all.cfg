CONSTANT
  Parts = {"tunnel", "tunnelstream", "shadower", "userpoll", "local", "udp", "extern"}
SPECIFICATION LiveSpec
INVARIANTS TypeOK InOrder Routes NoLostWakeup ReadAsWritten
PROPERTIES AllRead
CHECK_DEADLOCK FALSE
