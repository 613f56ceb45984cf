SPECIFICATION Spec
CONSTANTS
  Bindings = {b1}
  MaxRequests = 2
  MaxDeliveries = 1
  MaxHooks = 3
  MaxSecrets = 4
  MaxTroubles = 1
  MaxOverlaps = 1
  None = None
INVARIANTS
  OrphansAreExcused
  RecordsWhatDelivers
  RegisteredNamesAHook
  RefusedWhenDue
PROPERTIES
  NoResurrection
CHECK_DEADLOCK FALSE
