\* Two workers with requests of one connection.
SPECIFICATION Spec
CONSTANTS
  Workers = {w1, w2}
  Keys = {k1}
  Rate = 1
  Burst = 2
  TicksPerSecond = 2
  SizeRange = 256
  Boot = 4
  MaxTime = 12
INVARIANTS TypeOK RateBound
PROPERTY RetryAfterHonoured
CHECK_DEADLOCK FALSE
