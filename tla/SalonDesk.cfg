SPECIFICATION DeskSpec
CONSTANTS
  Desk = {"cash", "reminders", "clients"}
  Cashier = {q1, q2}
  m = m
  c = c
  s = s
  Manual <- MCManual
  Charge <- MCCharge
  Sale <- MCSale
  Money <- MCMoney
  Tip <- MCTip
  MaxDay = 2
  MaxStarted = 4
  MaxClosings = 2
  Delta = {1}
  InitialStock = 1
  Sweeper = {q1, q2}
  Cycle = 4
  Courtesy = 2
  TrialEnd = 3
  Channel = {"in_app", "email"}
  LastHalf = 9
  MaxPayments = 1
  MaxFlaws = 1
  ACTIVE_WINDOW_DAYS = 2
  CHURN_WINDOW_DAYS = 4
  Years = 3
  FirstOf <- ShortMonths
  HalfMonth = 2
  GRANULARITY_COUNT <- FewPeriods
  Birth <- MCBirth
  DateWindow <- MCWindow
  FirstDay = 50
  LastDay = 57
  MaxVisits = 3
SYMMETRY DeskSymmetry
CHECK_DEADLOCK FALSE
INVARIANTS
  OneClosingPerDay
  OnlyLateWritesAreMissed
  
  ReportsAgree
PROPERTIES
  RemindersAreTrue
