CONSTANTS
  o1 = o1
  o2 = o2
  r1 = r1
  r2 = r2
  e1 = e1
  e2 = e2
  Ops = {o1, o2}
  Rules = {r1, r2}
  Nobody = Nobody
  Execs = {e1, e2}
  Cap = 1
  AskTimeout = 2
  SweepEvery = 1
SPECIFICATION MCSpec
INVARIANTS
  ConfirmedInForce
  ConfirmedIsJudged
  JudgeNotBehind
  ExecsAnsweredTruly
PROPERTY
  NobodyHeldUp
CHECK_DEADLOCK FALSE
