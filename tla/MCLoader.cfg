SPECIFICATION LoaderSpec
CONSTANTS
  Projects = {1}
  Instances = {A, B}
  Watched = 1
  Jobs = {j1, j2}
  MaxBindings = 2
  MaxLeaks = 1
  MaxCrashes = 1
  BUFFER_MAX = 1
  Raw = Raw
  None = None
SYMMETRY Symmetry
INVARIANTS
  SubscriberListens
  LeaksAreExcused
  KeysIdentify
CHECK_DEADLOCK FALSE
