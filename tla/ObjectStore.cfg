SPECIFICATION BoundedSpec
CONSTANTS
  Shares = {s1, s2}
  Objects = {a, b, c}
  NoShare = NoShare
  NoObject = NoObject
  MaxConflicts = 2
  Budgets = {3, 5}
  MaxEdits = 2
  MaxCrashes = 1
  MaxRounds = 2
SYMMETRY Symmetric
CHECK_DEADLOCK FALSE
INVARIANT KeptObjects
INVARIANT FinishNotRefused
INVARIANT RestoreFinds
PROPERTY PrunedAsShown
