SPECIFICATION ServicesSpec
CONSTANTS
  s1 = s1  s2 = s2  o1 = o1  o2 = o2  p1 = p1  p2 = p2
  i1 = i1  c1 = c1  c2 = c2  r1 = r1  t1 = t1  t2 = t2
  Sessions = {s1, s2}
  None = None
  Orders = {o1, o2}
  Products = {p1, p2}
  Supply = 2
  Stocks = {1}
  Prices = {2}
  Baskets <- MCBaskets
  Targets <- MCTargets
  Items = {i1}
  Contents = {c1, c2}
  MaxVersion = 3
  Lifecycle = {"PAID", "ACTIVE", "BLOCKED"}
  Bills <- MCBills
  Data <- MCData
  Ticked <- MCTicked
  MaxRequests = 3
  MaxChanges = 2
  TrialLimit = 2
  PlanLimit = 3
  Plans <- MCPlans
  Tokens = {1, 5}
  TOKENS_PER_AI_CREDIT = 2
  MaxUses = 3
  MaxPeriod = 1
  Runs = {r1}
  Tasks = {t1, t2}
SYMMETRY ServicesSymmetry
INVARIANTS
  ServicesTypeOK
  StockAccounted LockedIsCurrent NothingFulfilledUnpaid
  ActiveWasReady ActivePaidFor PipelineWaitsForPayment
  OverLimitByOverlap NoFalseAlarm
  ApprovalsSurvive NoRunForgotten
PROPERTIES StockLedgerSpec OnlyReviewedIsTold
