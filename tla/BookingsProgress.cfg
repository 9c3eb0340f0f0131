SPECIFICATION FairSpec
CONSTANTS
  p1 = p1
  g1 = g1
  s1 = s1
  s2 = s2
  Request = {p1}
  Guest = {g1}
  Slot = {s1, s2}
  Mode = {"approval", "deposit"}
  HoldTime = 1
  MaxBookings = 2
  MaxNow = 2
  MaxCrashes = 0
PROPERTIES
  PendingIsDecided
CHECK_DEADLOCK FALSE
