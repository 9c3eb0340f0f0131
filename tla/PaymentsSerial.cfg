SPECIFICATION Spec
CONSTANTS
  p1 = p1
  ref1 = ref1
  ref2 = ref2
  Month = 3
  GraceDays = 1
  Request = {p1}
  Reference = {ref1, ref2}
  MaxReports = 3
  MaxInvoices = 1
  MaxNow = 4
  TrialLength = 1
  InvoiceTtl = 1
  WaitTime = 0
  CobrixEnabled = FALSE
  Choices = {"basico", "full"}
  Operations = {"report", "verify", "reject", "choosePlan", "fail"}
INVARIANTS
  TypeOK
  CyclesChained
PROPERTIES
  KeepsItsPromise
CHECK_DEADLOCK FALSE
