SPECIFICATION FairSpec
CONSTANTS
  n1 = n1
  n2 = n2
  n3 = n3
  k1 = k1
  k2 = k2
  Node <- Nodes
  Key <- Keys
  Confs <- AllConfs
INVARIANTS TypeOK ReplyToOwnQuery BranchesCounted NotFoundIsHonest AnswerIsFound
PROPERTIES Returned FoundIsReturned
CHECK_DEADLOCK FALSE
