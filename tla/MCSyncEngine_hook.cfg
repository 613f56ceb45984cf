SPECIFICATION Spec
CONSTANTS
  Objs = {o1}
  Slots = {s1}
  FAILURE_THRESHOLD = 2
  MaxVer = 1
  MaxDeliveries = 1
  MaxThrows = 0
  MaxCrashes = 0
  MaxStale = 0
  MaxNotes = 0
  MaxWaiting = 0
INVARIANT HookIsApplied
