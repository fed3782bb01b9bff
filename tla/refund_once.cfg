SPECIFICATION Spec
CONSTANTS
  s1 = s1  s2 = s2  r1 = r1  r2 = r2
  None = None
  Sessions <- MCSessions
  Requests <- MCRequests
  Amount = 3
  Amounts = {1, 2, 3}
  Callers = {"service"}
  Ops = {"approve", "modify", "cancel"}
  MaxTries = 2
  MaxCrashes = 0
SYMMETRY Perms
INVARIANT RefundedOnce
