CONSTANTS
  l1 = l1
  v1 = v1
  v2 = v2
  Projects = {1, 2}
  Launches = {l1}
  Verbs = {v1, v2}
  Kinds = {"collect", "purge", "remove", "sweep"}
  p1 = p1
  p2 = p2
  o1 = o1
  Parks = {p1, p2}
  Ops = {o1}
  Reader = Reader
  Dests = {"/a", "other", "bad"}
  Requestable = {"/a", "other"}
  Endpoint <- MCEndpoint
  Cap = 2
  AskTimeout = FALSE
SPECIFICATION MCSpec
INVARIANTS
  NothingTakenInUse
  ToldIsTrue
PROPERTIES
  VerbsEnd
  KeepsPromise
  RequestsLetGo
CHECK_DEADLOCK FALSE
