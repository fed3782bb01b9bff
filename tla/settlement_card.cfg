SPECIFICATION Spec
CONSTANTS
  s1 = s1  s2 = s2  i1 = i1  p1 = p1  p2 = p2  t1 = t1  t2 = t2
  None = None
  Sessions <- MCSessions
  Invoices <- MCInvoices
  Payments <- MCPayments
  TxIds <- MCTxIds
  OrderOf <- MCOrderOf
  PaidPlans = {"starter"}
  TrialPlan = "starter"
  FreePlan = "enterprise"
  Notices <- CardNotices
  UserOps = {"trial", "upgrade", "switch", "cancel"}
  MaxCrashes = 1
SYMMETRY Perms
INVARIANT AcceptedMeansApplied
