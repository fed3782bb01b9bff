SPECIFICATION Spec
CONSTANTS
  s1 = s1  s2 = s2  r1 = r1  r2 = r2
  None = None
  Sessions <- MCSessions
  Requests <- MCRequests
  Amount = 2
  Amounts <- MCAmounts
  Callers = {"executor", "service"}
  Ops = {"approve", "modify", "cancel"}
  MaxTries = 2
  MaxCrashes = 1
SYMMETRY Perms
INVARIANTS TypeOK RefundWithinAmount StatusTellsRefunded ExecutedIsRecorded ExecutedWasPaidOut
PROPERTY RefundLedgerSpec
