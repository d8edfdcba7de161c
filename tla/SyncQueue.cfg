SPECIFICATION Spec
CONSTANTS
  Clients = {c1, c2}
  Shares = {s1}
  Tokens = {t1, t2, t3}
  NoToken = NoToken
  NoShare = NoShare
  NoProc = NoProc
  MaxRows = 2
  CleanupLimit = 1
  MaxTicket = 3
  MaxGen = 2
SYMMETRY ClientSymmetry
INVARIANT PermitKeepsItsRow
INVARIANT RowHasOwnerFile
INVARIANT UniqueIndexes
PROPERTY OnlyOwnerRemoves
PROPERTY NoOvertaking
PROPERTY StoppedNeverActivates
PROPERTY ImplementsSlot
