SPECIFICATION Spec
CONSTANTS
  s1 = s1  s2 = s2  x1 = x1  x2 = x2  a1 = a1  a2 = a2  a3 = a3
  refund = refund  ai = ai  agent = agent  delay = delay
  None = None
  Sessions <- MCSessions
  Execs = {x1, x2}
  Approvals = {a1, a2, a3}
  Acts <- MCActs
  Gated <- MCGated
  Commits <- MCCommits
  Delays <- MCDelays
  Actions <- MCActions
  MaxSteps = 4
  MaxRetries = 1
  Ops = {"approve", "modify", "reject", "stop"}
  MaxTries = 1
  Crashes = TRUE
SYMMETRY Perms
INVARIANTS TypeOK WaitingHasPending NoGatedStepSkipped
