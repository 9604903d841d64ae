SPECIFICATION CallSpec
CONSTANTS
  a = a
  b = b
  s1 = s1
  s2 = s2
  NoSession = NoSession
  User <- Users
  Session <- TwoCalls
  Caller <- CrossedCallers
  Callee <- CrossedCallees
  Leaving <- Nobody
CHECK_DEADLOCK FALSE
INVARIANTS ActiveIsListed KeysAgree
