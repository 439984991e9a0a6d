CONSTANTS
  p1 = p1
  p2 = p2
  p3 = p3
  m1 = m1
  m2 = m2
  None = None
  Peer = {p1, p2, p3}
  Msg = {m1, m2}
  Confs <- ConfsAll
SPECIFICATION Spec
INVARIANTS TypeOK FanOut QueuesMatched
PROPERTIES Settles
CHECK_DEADLOCK FALSE
