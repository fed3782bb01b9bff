SPECIFICATION Spec
CONSTANTS
  s1 = s1  s2 = s2  i1 = i1  c1 = c1  c2 = c2
  Sessions = {s1, s2}
  Items = {i1}
  Contents = {c1, c2}
  MaxVersion = 2
  None = None
SYMMETRY Perms
INVARIANT ToldIsReviewed
