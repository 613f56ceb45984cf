SPECIFICATION FairSpec
CONSTANTS
  Objs = {o1, o2}
  Slots = {s1}
  FAILURE_THRESHOLD = 1
  MaxVer = 2
  MaxDeliveries = 0
  MaxThrows = 1
  MaxCrashes = 1
  MaxStale = 0
  MaxNotes = 1
  MaxWaiting = 0
INVARIANT CursorCovers
PROPERTIES
  Converges
  RowsAreReleased
