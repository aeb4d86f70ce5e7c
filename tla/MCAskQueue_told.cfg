CONSTANTS
  p1 = p1
  p2 = p2
  o1 = o1
  o2 = o2
  Parks = {p1, p2}
  Ops = {o1}
  Reader = Reader
  Dests = {"/a"}
  Requestable = {"/a"}
  Endpoint <- MCEndpoint
  Cap = 2
  AskTimeout = TRUE
SYMMETRY Interchangeable
SPECIFICATION Spec
INVARIANT
  ToldIsTrue
