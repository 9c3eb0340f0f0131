SPECIFICATION RecordsSpec
CONSTANTS
  Part = {"access", "clients", "staff", "reviews", "onboarding"}
  Call = {p1, p2}
  Access = {a1}
  MaxChanges = 2
  MaxLoads = 2
  MaxCrashes = 1
  Desk = {p1, p2}
  MaxClients = 2
  Account = {q1, q2}
  Salon = {t1, t2}
  Identification = {i1}
  MaxErrands = 4
  Office = {p1, p2}
  MaxStaff = 2
  StaffAccount = {q3}
  Branch = {s1, s2}
  Cedula = {i1}
  MaxOrders = 3
  MaxDuties = 1
  Voice = {p1, p2}
  Attendant = {q1, q2}
  Stars = {4, 5}
  MaxReviews = 3
  MaxSaid = 3
  Clerk = {p1, p2}
  MaxTasks = 3
  MaxDays = 2
SYMMETRY RecordsSymmetry
CHECK_DEADLOCK FALSE
INVARIANTS
  ListIsCurrent
  AccessEndsInTime
  StaffAgree
  
PROPERTIES
  ClientsAgree
  
