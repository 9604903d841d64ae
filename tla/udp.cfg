SPECIFICATION UdpSpec
CONSTANTS
  x1 = x1
  x2 = x2
  x3 = x3
  x4 = x4
  s1 = s1
  s2 = s2
  NoAddr = NoAddr
  NoSession = NoSession
  Addr <- Addrs
  Session <- Sessions
INVARIANTS TablesAgree
PROPERTIES PartiesStay
