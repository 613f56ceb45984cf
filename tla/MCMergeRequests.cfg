SPECIFICATION FairSpec
CONSTANTS
  MaxEdits = 4
  MaxTroubles = 1
  Resolved = FALSE
  None = None
INVARIANTS
  NoEchoToGitlab
  MirroredOnce
PROPERTIES
  
  Converges
CHECK_DEADLOCK FALSE
