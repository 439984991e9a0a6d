SPECIFICATION FairSpec
CONSTANTS
  Client = {"t1", "t2"}
  Call = {"a", "b"}
  Confs <- MCConfs
INVARIANTS TypeOK Accounted OwnAnswers
PROPERTIES Refines Answered
CHECK_DEADLOCK FALSE
