SPECIFICATION BreakerFairSpec
CONSTANTS
  Bindings = {b1, b2}
  Callers = {c1, c2, c3}
  FAILURE_THRESHOLD = 3
  OPEN_DURATION = 2
  Null = Null
INVARIANTS
  OffExactlyOnStreak
PROPERTIES
  RestsAfterTrip
  EventuallyProbed
