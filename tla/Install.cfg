SPECIFICATION FairBoundedSpec
CONSTANTS
  Paths = {1, 2}
  Contents = {e1, e2}
  Absent = Absent
  Marker = Marker
  Partial = Partial
  NoPath = NoPath
  MaxWrites = 1
  MaxCrashes = 2
INVARIANT TypeOK
INVARIANT EditKept
INVARIANT RecordsMatchDisk
PROPERTY LeftoversStayOut
PROPERTY InstallSettles
