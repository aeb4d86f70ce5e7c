CONSTANTS
  p1 = p1
  p2 = p2
  o1 = o1
  o2 = o2
  Parks = {p1, p2}
  Ops = {o1, o2}
  Reader = Reader
  Dests = {"/a", "/b", "bad"}
  Requestable = {"/a", "/b"}
  Endpoint <- MCEndpoint
  Cap = 2
  AskTimeout = TRUE
SYMMETRY Interchangeable
SPECIFICATION Spec
INVARIANTS
  NoOrphanWaiter
  AllowNeedsOperator
  SparesOthers
  FreedWhereFirstRan
