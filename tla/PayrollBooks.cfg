SPECIFICATION Spec
CONSTANTS
  Appointment = {a}
  Payee = {w}
  WorkerOf <- MCWorkerOf
  Frequency = {"weekly", "fortnightly"}
  Length <- MCLength
  DEFAULT_FREQUENCY = "fortnightly"
  Commission = {1}
  Discount = {0, 1}
  Adjustment <- MCAdjustment
  Price = 1
  InitialStock = 1
  MaxNow = 1
  MaxPeriods = 2
  MaxConcepts = 3
  MaxByHand = 1
  MaxReversals = 1
  MaxChanges = 1
  MaxCrashes = 1
CHECK_DEADLOCK FALSE

  
PROPERTIES
  PeriodsStayDisjoint
  ApprovedIsSealed
  
