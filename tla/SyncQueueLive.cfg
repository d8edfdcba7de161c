SPECIFICATION LiveSpec
CONSTANTS
  Clients = {c1, c2}
  Shares = {}
  Tokens = {t1, t2, t3}
  NoToken = NoToken
  NoShare = NoShare
  NoProc = NoProc
  MaxRows = 3
  CleanupLimit = 1
  MaxTicket = 3
  MaxGen = 0
  MaxCrashes = 2
PROPERTY RequestServed
