SPECIFICATION RmSpec
CONSTANTS
  a = a
  b = b
  c = c
  r1 = r1
  r2 = r2
  m1 = m1
  NoRoom = NoRoom
  NoMessage = NoMessage
  User = {a, b, c}
  Room = {r1, r2}
  Message = {m1}
  Author <- AuthorOf
  Founded <- FoundedBy
  Knows <- KnowsWhom
  Does <- DoesWhat
  MaxCommand <- HowMany
  Slow = {b}
  Breaks = {c}
  MaxRun <- RunsOf
  MaxCrash = 1
CHECK_DEADLOCK FALSE
INVARIANTS RmTypeOK  RowsFollow OutcomeTrue 
PROPERTIES CommandEnds
