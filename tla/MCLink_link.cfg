CONSTANTS
  a1 = a1
  a2 = a2
  Asks = {a1, a2}
  NamingMax = 1
  NoAnswer = NoAnswer
  q1 = q1
  q2 = q2
  Requests = {q1, q2}
  Sets = {"s0", "s1", "g", "m"}
  First = "s0"
  Garbled = {"g"}
  TooMany = {"m"}
  NoSet = "none"
SPECIFICATION MCSpec
INVARIANTS
  RepliesFindTheirs
  AdmittedWithinLimits
  InUseIsMasked
  CopiesAgree
PROPERTY
  NobodyWaitsForGood
CHECK_DEADLOCK FALSE
