SPECIFICATION FairSpec
CONSTANTS
  Edits = {"c1", "c2", "r1"}
  EditsOf <- MCEditsOf
  Existing = {"c1", "r1"}
  Commands = {"dry run", "yes", "ask"}
  Requests <- MCRequests
  BatchObjects = 2
  BatchBytes = 3
  Records = 2
  MaxReports = 1
  Capacity = 1
  MaxAttempts = 3
  MaxFailures = 1
  None = None
INVARIANT AppliesWhatWasShown
INVARIANT AcknowledgedByBoth
INVARIANT SuccessMeansBoth
INVARIANT NothingRefused
PROPERTY SessionEnds
CHECK_DEADLOCK FALSE
