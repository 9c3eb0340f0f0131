SPECIFICATION Spec
CONSTANTS
  p1 = p1
  p2 = p2
  ref1 = ref1
  Month = 3
  GraceDays = 1
  Request = {p1, p2}
  Reference = {ref1}
  MaxReports = 2
  MaxInvoices = 1
  MaxNow = 1
  TrialLength = 1
  InvoiceTtl = 1
  WaitTime = 0
  CobrixEnabled = TRUE
  Choices = {"full"}
  Operations = {"report", "verify", "reject", "webhook", "checkout"}
SYMMETRY RequestSymmetry
CHECK_DEADLOCK FALSE
INVARIANTS
  NoFreeMonths
  OneClaimPerReference
  PaymentsBuyMonths
