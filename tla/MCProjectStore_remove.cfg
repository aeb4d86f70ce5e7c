CONSTANTS
  l1 = l1
  l2 = l2
  v1 = v1
  v2 = v2
  Projects = {1}
  Launches = {l1, l2}
  Verbs = {v1, v2}
  Kinds = {"remove"}
SPECIFICATION Spec
INVARIANT
  NothingRemovedInUse
CHECK_DEADLOCK FALSE
