SPECIFICATION FairSpec
CONSTANTS
  n1 = n1
  n2 = n2
  n3 = n3
  x1 = x1
  x2 = x2
  Node <- TwoNodes
  Msg <- Msgs
  Confs <- LiveConfs
  MaxToken = 6
PROPERTIES Connects Delivers
CHECK_DEADLOCK FALSE
