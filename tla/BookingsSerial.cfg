SPECIFICATION Spec
CONSTANTS
  p1 = p1
  g1 = g1
  g2 = g2
  s1 = s1
  Request = {p1}
  Guest = {g1, g2}
  Slot = {s1}
  Mode = {"free", "approval", "deposit"}
  HoldTime = 1
  MaxBookings = 2
  MaxNow = 2
  MaxCrashes = 1
SYMMETRY GuestSymmetry
CHECK_DEADLOCK FALSE
INVARIANTS
  BookingAgrees
PROPERTIES
  NewAppointmentsFit
  DecidedOnce
