CONSTANTS
  s1 = s1
  c1 = c1
  NoShare = NoShare
  Shares = {s1}
  Commands = {c1}
  MaxRels = 3
  MaxRequests = 2
  MaxDeaths = 2
  MaxOpens = 0
SPECIFICATION FairBoundedSpec
PROPERTY RemovalCompletes
CHECK_DEADLOCK FALSE
