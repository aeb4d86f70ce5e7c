CONSTANTS
  r1 = r1
  r2 = r2
  Requests = {r1, r2}
  Dests = {"/ask", "/no"}
  Endpoint <- MCEndpoint
  Policy <- MCPolicy
  Loadable <- SiteDeny
  Cap = 2
  GrantCap = 1
  Honest = FALSE
  MayLapse = TRUE
  ThreadsMayFail = FALSE
  Pids = {1, 2, 3}
  MaxStarts = 3
  Writers = {w1, w2}
  MaxWrites = 3
  MaxCrashes = 2
SYMMETRY Interchangeable
SPECIFICATION AdverseSpec
INVARIANTS
  ConnectedIsPermitted
  GrantsConserved
  SignalsWhatItFound
  MembersKilled
  RunningIsRecorded
  FilesAreSound
CHECK_DEADLOCK FALSE
