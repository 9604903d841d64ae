SPECIFICATION AcSpec
CONSTANTS
  c1 = c1
  c2 = c2
  c3 = c3
  p1 = p1
  p2 = p2
  u1 = u1
  u2 = u2
  home = home
  Nobody = Nobody
  Conn = {c1, c2, c3}
  Person = {p1, p2}
  Name = {u1, u2}
  Key <- Keys
  Who <- OwnerOf
  Peer <- OneAddress
  Rate = 1
  Unit = 3
  Refill = 2
  MaxClock = 2
  Ttl = 1
  MaxToken = 2
  Sends <- SendsWhat
  MaxCrash = 1
CHECK_DEADLOCK FALSE
INVARIANTS RateKept ServedIsOwner SessionsHaveOwner
PROPERTIES RefillsContinuously
