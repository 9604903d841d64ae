SPECIFICATION Spec
CONSTANTS
  a = a
  b = b
  c1 = c1
  c2 = c2
  c3 = c3
  p1 = p1
  p2 = p2
  p3 = p3
  NoUser = NoUser
  NoConn = NoConn
  NoPkt = NoPkt
  User <- Users
  Conn <- Conns2
  Pkt <- Pkts3
  Kind <- Correction
  To <- CorrectionTo
  Key <- EditKey
  Logins <- AliceAndBob
  Syncing <- Second
  MaxCrash = 1
CHECK_DEADLOCK FALSE
PROPERTIES  HandlersReturn
