SPECIFICATION Spec
CONSTANTS
  n1 = n1
  n2 = n2
  n3 = n3
  x1 = x1
  x2 = x2
  Node <- Nodes
  Msg <- Msgs
  Confs <- SafeConfs
  MaxToken = 8
INVARIANTS TypeOK MainLoopAlive MutualAuth ServiceAfterAuth OneWriteStream
CHECK_DEADLOCK FALSE
