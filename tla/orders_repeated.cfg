SPECIFICATION Spec
CONSTANTS
  s1 = s1  s2 = s2  o1 = o1  o2 = o2  p1 = p1  p2 = p2
  Sessions = {s1}
  Orders = {o1, o2}
  Products = {p1}
  Supply = 2
  Stocks = {}
  Prices = {}
  Baskets <- MCRepeated
  Targets = {}
  None = None
INVARIANT NeverOversold
