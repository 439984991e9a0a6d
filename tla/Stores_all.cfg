CONSTANTS
  KNone = KNone
  FTorn = FTorn
SPECIFICATION Spec
INVARIANTS TypeOK KadComplete Recovers Chosen Promoted
CHECK_DEADLOCK FALSE
