SPECIFICATION Spec
CONSTANTS
  p1 = p1
  ref1 = ref1
  Month = 3
  GraceDays = 1
  Request = {p1}
  Reference = {ref1}
  MaxReports = 2
  MaxInvoices = 1
  MaxNow = 2
  TrialLength = 1
  InvoiceTtl = 1
  WaitTime = 0
  CobrixEnabled = TRUE
  Choices = {"full"}
  Operations = {"report", "verify", "reject", "releaseAll", "webhook", "sweep", "checkout", "choosePlan", "fail", "decline"}
CHECK_DEADLOCK FALSE
PROPERTIES
  VerdictsAreFinal
