SPECIFICATION FairSpec
CONSTANTS
  Client = {"t1", "t2"}
  Call = {"a", "b"}
  Confs <- MCWait
PROPERTY WaitEnds
CHECK_DEADLOCK FALSE
