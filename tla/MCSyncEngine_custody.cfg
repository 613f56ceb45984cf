SPECIFICATION Spec
CONSTANTS
  Objs = {o1}
  Slots = {s1, s2}
  FAILURE_THRESHOLD = 1
  MaxVer = 2
  MaxDeliveries = 2
  MaxThrows = 0
  MaxCrashes = 1
  MaxStale = 1
  MaxNotes = 0
  MaxWaiting = 1
SYMMETRY Symmetry
INVARIANTS
  RowWhileInHand
  DispatchedOnce
