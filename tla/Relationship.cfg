CONSTANTS
  s1 = s1
  s2 = s2
  c1 = c1
  c2 = c2
  NoShare = NoShare
  Shares = {s1, s2}
  Commands = {c1, c2}
  MaxRels = 2
  MaxRequests = 2
  MaxDeaths = 1
  MaxOpens = 2
SYMMETRY Symmetric
SPECIFICATION BoundedSpec
INVARIANT DataOfBinding
INVARIANT StrandedOnlyWarned
PROPERTY OnlyAskedDetached
CHECK_DEADLOCK FALSE
