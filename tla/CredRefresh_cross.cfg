CONSTANTS
  Requests = {q1}
  Sets = {"s0", "m"}
  First = "s0"
  Garbled = {}
  TooMany = {"m"}
  NoSet = "none"
SPECIFICATION Spec
INVARIANT
  InstalledInBothOrNeither
CHECK_DEADLOCK FALSE
