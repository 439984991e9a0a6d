CONSTANTS
  Me = Me
  A = A
  B = B
  WPeer = {Me, A, B}
  WMe = Me
  WMax = 255
  WConfs <- Confs
SPECIFICATION WSpec
PROPERTIES Converges
CHECK_DEADLOCK FALSE
