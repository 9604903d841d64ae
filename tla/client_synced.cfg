SPECIFICATION CsSpec
CONSTANTS
  m1 = m1
  t1 = t1
  Mine <- OneMine
  Theirs <- OneTheirs
  Changed <- EditMine
  PeerChanged <- EditTheirs
  MaxLink = 2
  MaxLogin = 2
CHECK_DEADLOCK FALSE
INVARIANTS SyncedIsSaved
