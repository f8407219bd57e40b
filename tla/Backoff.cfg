CONSTANTS
  Pairs = {x, y}
  Interval = 3
  BackoffSlack = 1
  PruneBackoff = 4
  Durations = {0, 2, 4, 11, 12}
  LongestTime = 11
  MaxLate = 3
SPECIFICATION FairSpec
INVARIANTS WheelAgrees ReleasedInOneTurn
PROPERTIES NeverShortened ImplementsBackoff EventuallyReleased
CHECK_DEADLOCK FALSE
