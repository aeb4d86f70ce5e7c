CONSTANTS
  r1 = r1
  r2 = r2
  big = big
  Requests = {r1, r2, big}
  Muted = {big}
  Weight <- MCWeight
  QueueCap = 1
  Bytes = 2
  RingCap = 1
  Flushes = 1
  Others = 1
  Flusher = Flusher
  Nobody = Nobody
  Callers = {c1, c2}
  Hosts = {h1, h2}
  Slots = {s1, s2}
  Cap = 1
  CacheCap = 1
  Ttl = 1
SPECIFICATION MCSpec
INVARIANTS
  WithinBounds
  FlushedMeansApplied
  AmendsItsOwn
  LookupsAreLive
PROPERTY
  NobodyWaitsForGood
CHECK_DEADLOCK FALSE
