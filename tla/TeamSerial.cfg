SPECIFICATION Spec
CONSTANTS
  p1 = p1
  Month = 2
  GraceDays = 1
  Request = {p1}
  MaxWorkers = 2
  MaxNow = 4
  MaxPeriodEnd = 4
  TrialLength = 1
  CacheTtl = 1
  Limit <- SmallLimit
  Operations = {"open", "add", "edit", "profile", "remove", "restore", "select", "choosePlan", "report", "verify", "reject"}
CHECK_DEADLOCK FALSE
INVARIANTS
  NobodySuspendedOnTrial
  PaymentTakesEffect
PROPERTIES
  SelectionLeavesTheLimit
  TeamGrowsByThePlan
