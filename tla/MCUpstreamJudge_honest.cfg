CONSTANTS
  r1 = r1
  r2 = r2
  Requests = {r1, r2}
  Dests = {"/ask", "open", "/ws"}
  Endpoint <- MCEndpoint
  Policy <- MCPolicy
  Loadable <- SiteRules
  Cap = 2
  GrantCap = 2
  Honest = TRUE
  MayLapse = FALSE
  ThreadsMayFail = FALSE
SPECIFICATION MCSpec
INVARIANTS
  WithinCaps
  VerdictHeld
  NeverBusyWithRoom
PROPERTY
  QuestionsAnswered
