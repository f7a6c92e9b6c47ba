SPECIFICATION Spec
CONSTANTS
  Workers = {w1, w2}
  MaxLoginAttempts = 2
  LockoutDuration = 2
  MaxLost = 0
  MaxTime = 4
PROPERTIES
  LockHolds
