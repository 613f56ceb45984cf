SPECIFICATION FairSpec
CONSTANTS
  Users = {u1}
  Admins = {a1}
  Flows = {f1}
  MaxCallbacks = 2
  MaxRounds = 1
  MaxToken = 3
  Horizon = 1
  Period = 2
  Lifetime = 2
  MaxStored = 2
  MaxTroubles = 1
  None = None
INVARIANTS
  KeptUnlessExcused
  LapseIsBounded
PROPERTIES
  NoResurrection
  DueIsSettled
CHECK_DEADLOCK FALSE
