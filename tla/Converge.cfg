SPECIFICATION MCFairSpec
CONSTANTS
  Peers = {1, 2}
  Connector = 1
  Edits = {1, 2, 3}
  Times = {1, 2}
  MaxSeq = 8
  MaxBreaks = 1
  NoVersion = NoVersion
  NoBase = NoBase
  NoConflict = NoConflict
  NoMerge = NoMerge
CHECK_DEADLOCK FALSE
INVARIANT EditKept
INVARIANT BaseShared
INVARIANT PlanAccepted
PROPERTY NoResurrection
PROPERTY Settles
