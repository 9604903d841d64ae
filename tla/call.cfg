SPECIFICATION CallSpec
CONSTANTS
  a = a
  b = b
  s1 = s1
  s2 = s2
  NoSession = NoSession
  User <- Users
  Session <- OneCall
  Caller <- AliceCalls
  Callee <- BobIsCalled
  Leaving <- Users
CHECK_DEADLOCK FALSE
INVARIANTS CallTypeOK FarewellIsLast EndIsRecorded
PROPERTIES HangupReachesPeer
