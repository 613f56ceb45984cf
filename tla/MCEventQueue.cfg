SPECIFICATION QueueFairSpec
CONSTANTS
  Keys = {k1, k2, k3}
  Items = {i1, i2, i3, i4}
  MaxKeys = 2
INVARIANTS
  SequentialUnlessBusyEvicted
  NoStrandedBacklog
  IdleMeansIdle
  DrainSoundUnlessBusyEvicted
PROPERTIES
  ImplementsKeyedFifo
  DrainEnds
CHECK_DEADLOCK FALSE
