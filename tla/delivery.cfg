SPECIFICATION Spec
CONSTANTS
  a = a
  b = b
  c1 = c1
  c2 = c2
  c3 = c3
  p1 = p1
  p2 = p2
  p3 = p3
  NoUser = NoUser
  NoConn = NoConn
  NoPkt = NoPkt
  User <- Users
  Conn <- Conns3
  Pkt <- Pkts2
  Kind <- AllMessages
  To <- ToBob
  Key <- OwnKey
  Logins <- AliceAndBob
  Syncing <- None
  MaxCrash = 0
CHECK_DEADLOCK FALSE
SYMMETRY Symmetry
INVARIANTS DeliveredOnce SyncedInOrder WrittenToOwner 
