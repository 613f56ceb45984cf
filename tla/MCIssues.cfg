SPECIFICATION FairSpec
CONSTANTS
  MaxDocs = 3
  MaxIids = 2
  MaxEdits = 2
  MaxTouches = 1
  MaxTroubles = 1
  BUFFER_MAX = 1
  Resolved = FALSE
  None = None
INVARIANTS
  NoEchoStorm
  StraysAreExcused
PROPERTIES
  Converges
CHECK_DEADLOCK FALSE
