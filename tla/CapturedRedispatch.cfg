CONSTANTS
  w1 = w1
  w2 = w2
  Workers = {w1}
  None = None
  MaxAttempts = 2
SPECIFICATION Spec
PROPERTY UnknownIsNotRedispatched
CHECK_DEADLOCK FALSE
