SPECIFICATION Spec
CONSTANTS
  s1 = s1
  s2 = s2
  Session <- MCSession
  Detail <- MCDetail
  SessionOf <- MCSessionOf
  Extra <- MCExtra
  Length <- MCLength
  Worker = {w}
  Duration = {1, 2}
  AllowPast = TRUE
  Midnight = 1
  Horizon = 3
  MaxChanges = 3
  Client = {c}
  ClientOf <- MCClientOf
  Offered = {2}
CHECK_DEADLOCK FALSE
PROPERTIES
  BackToItsPlace
