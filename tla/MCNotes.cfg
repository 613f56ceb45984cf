SPECIFICATION FairSpec
CONSTANTS
  Plain = {1, 2}
  Lines = {3, 4}
  Threads = {10, 20}
  In <- InDef
  MaxEvents = 3
  None = None
INVARIANTS
  MirroredOnce
PROPERTIES
  
  Converges
CHECK_DEADLOCK FALSE
