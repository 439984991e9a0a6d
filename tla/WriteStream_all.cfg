SPECIFICATION FairSpec
CONSTANTS
  s1 = s1
  s2 = s2
  s3 = s3
  Svc <- MCSvc
  Confs <- AllConfs
INVARIANTS TypeOK EachCommandInOnePlace ServiceAfterPong OrderOnceSpawned
PROPERTIES AllWritten
CHECK_DEADLOCK FALSE
