SPECIFICATION Spec
CONSTANTS
  c1 = c1
  c2 = c2
  c3 = c3
  c4 = c4
  d1 = d1
  d2 = d2
  u1 = u1
  u2 = u2
  none = none
INVARIANTS ScreenHolds WatchHolds FilesHold UpdatesHold LaunchHolds ServiceHolds
SYMMETRY PartsSymmetry
CHECK_DEADLOCK FALSE
