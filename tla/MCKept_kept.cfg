CONSTANTS
  Cap = 2
  Codes = {200}
  MaxPushes = 4
  MaxAmends = 2
  quick = quick
  slow = slow
  quiet = quiet
  Readers = {quick, slow, quiet}
  Amending = {quick}
  Interval <- MCInterval
  Slack = 2
  LingerMax = 4
  FollowersMax = 2
  Horizon = 2
  MaxChanges = 2
  get = get
  post = post
  wild = wild
  Reqs = {get, post, wild}
  Conns = {c1, c2}
  Cred <- OneCred
  Idempotent = {get, wild}
  Guarded = {wild}
  MaxParked = 1
  MaxPerKey = 1
  MaxGen = 1
SPECIFICATION MCSpec
INVARIANTS
  TypesOK
  GapIsTrue
  ShownOrComing
  ReusedRightly
  AppliedOnce
PROPERTY
  LastReadNoted
CHECK_DEADLOCK FALSE
