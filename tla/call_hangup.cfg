SPECIFICATION CallSpec
CONSTANTS
  a = a
  b = b
  s1 = s1
  s2 = s2
  NoSession = NoSession
  User <- Users
  Session <- OneCall
  Caller <- AliceCalls
  Callee <- BobIsCalled
  Leaving <- Nobody
CHECK_DEADLOCK FALSE
INVARIANTS NoAudioAfterEnd
