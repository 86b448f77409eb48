CONSTANTS
  Payment = {p1, p2}
  Frame = {f1}
  None = None
  MaxChallenges = 1
SPECIFICATION Spec
INVARIANTS WatchesOwn
CHECK_DEADLOCK FALSE
